----------------------------- MODULE TreeEditProofs -----------------------------
(***************************************************************************)
(* Theorems about a tree that changes while it is in use, for any elements *)
(* and any surfaces among them.                                            *)
(***************************************************************************)
EXTENDS TreeEdit, FiniteSetTheorems, SequenceTheorems, TLAPS

-------------------------------------------------------------------------------
(***************************************************************************)
(* What is reached                                                         *)
(***************************************************************************)
Next1 == [Elem -> SUBSET Elem]

LEMMA ReachFacts ==
  ASSUME NEW next \in Next1, NEW e \in Elem
  PROVE  /\ Reach(next, e) \subseteq Elem /\ e \in Reach(next, e)
         /\ \A x \in Reach(next, e) : next[x] \subseteq Reach(next, e)
BY DEF Reach, Next1

LEMMA ReachLeast ==
  ASSUME NEW next \in Next1, NEW e \in Elem, NEW S \in SUBSET Elem, e \in S, \A x \in S : next[x] \subseteq S
  PROVE  Reach(next, e) \subseteq S
BY DEF Reach, Next1

LEMMA ReachOn ==
  ASSUME NEW next \in Next1, NEW e \in Elem, NEW x \in Reach(next, e)
  PROVE  x \in Elem /\ Reach(next, x) \subseteq Reach(next, e)
BY ReachFacts, ReachLeast

LEMMA ReachLast ==
  ASSUME NEW next \in Next1, NEW e \in Elem, NEW x \in Reach(next, e), x # e
  PROVE  \E y \in Reach(next, e) : x \in next[y]
<1>. DEFINE R == Reach(next, e)
            S == {e} \cup {z \in R : \E y \in R : z \in next[y]}
<1>1. R \subseteq Elem /\ e \in R /\ \A z \in R : next[z] \subseteq R
  BY ReachFacts
<1>. HIDE DEF R
<1>2. S \in SUBSET Elem /\ e \in S /\ \A z \in S : next[z] \subseteq S
  BY <1>1
<1>3. R \subseteq S
  <2>. HIDE DEF S
  <2>. QED  BY <1>2, ReachLeast DEF R
<1>. QED  BY <1>3 DEF R

\* Each element is next to one at most.
Unique(next)  == \A p, q \in Elem : \A x \in Elem : x \in next[p] /\ x \in next[q] => p = q
Acyclic(next) == \A p \in Elem : \A x \in next[p] : p \notin Reach(next, x)

LEMMA ReachUp ==
  ASSUME NEW next \in Next1, Unique(next), NEW e \in Elem, NEW y \in Elem, NEW x \in next[y],
         x \in Reach(next, e), x # e
  PROVE  y \in Reach(next, e)
<1>1. PICK z \in Reach(next, e) : x \in next[z]
  BY ReachLast
<1>2. z \in Elem /\ x \in Elem
  BY ReachFacts
<1>. QED  BY <1>1, <1>2 DEF Unique

LEMMA Comparable ==
  ASSUME NEW next \in Next1, Unique(next), NEW a \in Elem, NEW b \in Elem,
         NEW x \in Reach(next, a), x \in Reach(next, b)
  PROVE  a \in Reach(next, b) \/ b \in Reach(next, a)
<1>. DEFINE S == {z \in Reach(next, a) : z \in Reach(next, b) => a \in Reach(next, b) \/ b \in Reach(next, a)}
<1>1. S \in SUBSET Elem /\ a \in S
  BY ReachFacts
<1>2. ASSUME NEW y \in S, NEW z \in next[y] PROVE z \in S
  <2>1. z \in Reach(next, a) /\ y \in Elem
    BY <1>1, ReachFacts
  <2>2. CASE z = b
    BY <2>1, <2>2
  <2>3. CASE z # b /\ z \in Reach(next, b)
    <3>1. y \in Reach(next, b)
      BY <2>1, <2>3, ReachUp
    <3>. QED  BY <2>1, <3>1
  <2>. QED  BY <2>1, <2>2, <2>3
<1>3. Reach(next, a) \subseteq S
  BY <1>1, <1>2, ReachLeast
<1>. QED  BY <1>3

LEMMA Antisymmetric ==
  ASSUME NEW next \in Next1, Acyclic(next), NEW a \in Elem, NEW b \in Elem, a \in Reach(next, b), b \in Reach(next, a)
  PROVE  a = b
<1>. SUFFICES ASSUME a # b PROVE FALSE
  OBVIOUS
<1>1. PICK y \in Reach(next, b) : a \in next[y]
  BY ReachLast
<1>2. y \in Elem /\ y \in Reach(next, a)
  BY ReachFacts, ReachOn
<1>. QED  BY <1>1, <1>2 DEF Acyclic

\* What leads on elsewhere does not matter.
LEMMA ReachSame ==
  ASSUME NEW n1 \in Next1, NEW n2 \in Next1, NEW e \in Elem, \A x \in Reach(n1, e) : n2[x] = n1[x]
  PROVE  Reach(n2, e) = Reach(n1, e)
<1>1. Reach(n2, e) \subseteq Reach(n1, e)
  <2>1. Reach(n1, e) \in SUBSET Elem /\ e \in Reach(n1, e) /\ \A x \in Reach(n1, e) : n2[x] \subseteq Reach(n1, e)
    BY ReachFacts
  <2>. QED  BY <2>1, ReachLeast
<1>2. Reach(n1, e) \subseteq Reach(n2, e)
  <2>. DEFINE S == Reach(n1, e) \cap Reach(n2, e)
  <2>1. S \in SUBSET Elem /\ e \in S /\ \A x \in S : n1[x] \subseteq S
    BY ReachFacts
  <2>. HIDE DEF S
  <2>2. Reach(n1, e) \subseteq S
    BY <2>1, ReachLeast
  <2>. QED  BY <2>2 DEF S
<1>. QED  BY <1>1, <1>2

LEMMA ReachMore ==
  ASSUME NEW n1 \in Next1, NEW n2 \in Next1, NEW e \in Elem, \A x \in Elem : n1[x] \subseteq n2[x]
  PROVE  Reach(n1, e) \subseteq Reach(n2, e)
<1>1. Reach(n2, e) \in SUBSET Elem /\ e \in Reach(n2, e) /\ \A x \in Reach(n2, e) : n1[x] \subseteq Reach(n2, e)
  BY ReachFacts
<1>. QED  BY <1>1, ReachLeast

-------------------------------------------------------------------------------
(***************************************************************************)
(* A child more, a child less                                              *)
(***************************************************************************)
Forest(ls) ==
  /\ ls \in Next1 /\ Unique(ls) /\ Acyclic(ls)
  /\ \A p \in Elem : Win \notin ls[p]

Adds(ls, self, child) ==
  /\ self \in Elem /\ child \in Elem /\ child # Win
  /\ \A p \in Elem : child \notin ls[p]
  /\ self \notin Reach(ls, child)

Plus(ls, self, child)  == [ls EXCEPT ![self] = @ \cup {child}]
Minus(ls, self, child) == [ls EXCEPT ![self] = @ \ {child}]

LEMMA AddReach ==
  ASSUME NEW ls, Forest(ls), NEW self, NEW child, Adds(ls, self, child),
         NEW lt, lt = Plus(ls, self, child)
  PROVE  /\ lt \in Next1
         /\ \A x \in Elem : lt[x] = IF x = self THEN ls[x] \cup {child} ELSE ls[x]
         /\ Reach(lt, child) = Reach(ls, child)
         /\ \A a \in Elem : Reach(lt, a) = IF self \in Reach(ls, a) THEN Reach(ls, a) \cup Reach(ls, child)
                                           ELSE Reach(ls, a)
<1>1. ls \in Next1 /\ self \in Elem /\ child \in Elem /\ self \notin Reach(ls, child)
  BY DEF Forest, Adds
<1>2. lt \in Next1 /\ \A x \in Elem : lt[x] = IF x = self THEN ls[x] \cup {child} ELSE ls[x]
  BY <1>1 DEF Next1, Plus
<1>3. ASSUME NEW a \in Elem, self \notin Reach(ls, a) PROVE Reach(lt, a) = Reach(ls, a)
  <2>1. \A x \in Reach(ls, a) : lt[x] = ls[x]
    BY <1>1, <1>2, <1>3, ReachFacts
  <2>. QED  BY <1>1, <1>2, <2>1, ReachSame
<1>4. ASSUME NEW a \in Elem, self \in Reach(ls, a) PROVE Reach(lt, a) = Reach(ls, a) \cup Reach(ls, child)
  <2>. DEFINE S == Reach(ls, a) \cup Reach(ls, child)
  <2>1. S \in SUBSET Elem /\ a \in S /\ child \in S
    BY <1>1, ReachFacts
  <2>2. \A x \in S : lt[x] \subseteq S
    <3>1. \A x \in Reach(ls, a) : ls[x] \subseteq Reach(ls, a)
      BY <1>1, ReachFacts
    <3>2. \A x \in Reach(ls, child) : ls[x] \subseteq Reach(ls, child)
      BY <1>1, ReachFacts
    <3>. QED  BY <1>2, <2>1, <3>1, <3>2
  <2>3. Reach(lt, a) \subseteq S
    <3>. HIDE DEF S
    <3>. QED  BY <1>2, <2>1, <2>2, ReachLeast
  <2>4. Reach(ls, a) \subseteq Reach(lt, a)
    <3>1. lt \in Next1
      BY <1>2
    <3>2. \A x \in Elem : ls[x] \subseteq lt[x]
      BY <1>2
    <3>. QED  BY <1>1, <3>1, <3>2, ReachMore
  <2>5. child \in Reach(lt, a)
    <3>1. lt[self] \subseteq Reach(lt, a)
      BY <1>2, <1>4, <2>4, ReachFacts
    <3>2. child \in lt[self]
      BY <1>1, <1>2
    <3>. QED  BY <3>1, <3>2
  <2>6. Reach(lt, child) \subseteq Reach(lt, a)
    BY <1>1, <1>2, <2>5, ReachOn
  <2>. QED  BY <1>1, <1>3, <2>3, <2>4, <2>6
<1>. QED  BY <1>1, <1>2, <1>3, <1>4

LEMMA AddForest ==
  ASSUME NEW ls, Forest(ls), NEW self, NEW child, Adds(ls, self, child),
         NEW lt, lt = Plus(ls, self, child)
  PROVE  Forest(lt)
<1>1. /\ ls \in Next1 /\ Unique(ls) /\ Acyclic(ls) /\ \A p \in Elem : Win \notin ls[p]
      /\ self \in Elem /\ child \in Elem /\ child # Win
      /\ \A p \in Elem : child \notin ls[p]
      /\ self \notin Reach(ls, child)
  BY DEF Forest, Adds
<1>2. /\ lt \in Next1
      /\ \A x \in Elem : lt[x] = IF x = self THEN ls[x] \cup {child} ELSE ls[x]
      /\ Reach(lt, child) = Reach(ls, child)
      /\ \A a \in Elem : Reach(lt, a) = IF self \in Reach(ls, a) THEN Reach(ls, a) \cup Reach(ls, child)
                                        ELSE Reach(ls, a)
  <2>1. Forest(ls) /\ Adds(ls, self, child) /\ lt = Plus(ls, self, child)
    OBVIOUS
  <2>. QED  BY <2>1, AddReach
<1>3. Unique(lt)
  <2>. SUFFICES ASSUME NEW p \in Elem, NEW q \in Elem, NEW x \in Elem, x \in lt[p], x \in lt[q]
                PROVE  p = q
    BY DEF Unique
  <2>1. /\ x \in ls[p] \/ (p = self /\ x = child)
        /\ x \in ls[q] \/ (q = self /\ x = child)
    BY <1>2
  <2>2. x \in ls[p] /\ x \in ls[q] => p = q
    BY <1>1 DEF Unique
  <2>. QED  BY <1>1, <2>1, <2>2
<1>4. Acyclic(lt)
  <2>. SUFFICES ASSUME NEW p \in Elem, NEW x \in lt[p] PROVE p \notin Reach(lt, x)
    BY DEF Acyclic
  <2>1. CASE x = child
    <3>1. p = self
      BY <1>1, <1>2, <2>1
    <3>. QED  BY <1>1, <1>2, <2>1, <3>1
  <2>2. CASE x # child
    <3>1. x \in ls[p] /\ x \in Elem /\ p \notin Reach(ls, x)
      BY <1>1, <1>2, <2>2 DEF Acyclic, Next1
    <3>2. ASSUME self \in Reach(ls, x) PROVE p \notin Reach(ls, child)
      <4>1. p \in Reach(ls, child) => x \in Reach(ls, child)
        BY <1>1, <3>1, ReachFacts
      <4>2. p \in Reach(ls, child) => self \in Reach(ls, child)
        BY <1>1, <3>2, <4>1, ReachOn
      <4>. QED  BY <1>1, <4>2
    <3>. QED  BY <1>2, <3>1, <3>2
  <2>. QED  BY <2>1, <2>2
<1>5. \A p \in Elem : Win \notin lt[p]
  BY <1>1, <1>2
<1>. QED  BY <1>2, <1>3, <1>4, <1>5 DEF Forest

LEMMA RemoveReach ==
  ASSUME NEW ls, Forest(ls), NEW self \in Elem, NEW child \in ls[self],
         NEW lt, lt = Minus(ls, self, child)
  PROVE  /\ Forest(lt)
         /\ \A x \in Elem : lt[x] = IF x = self THEN ls[x] \ {child} ELSE ls[x]
         /\ Reach(lt, child) = Reach(ls, child)
         /\ \A a \in Elem : Reach(lt, a) = IF self \in Reach(ls, a) THEN Reach(ls, a) \ Reach(ls, child)
                                           ELSE Reach(ls, a)
         /\ Win \notin Reach(ls, child) /\ child \in Elem /\ self \notin Reach(ls, child)
<1>1. /\ ls \in Next1 /\ Unique(ls) /\ Acyclic(ls) /\ \A p \in Elem : Win \notin ls[p]
      /\ Win \in Elem
  BY TreeEditAssumption DEF Forest
<1>2. child \in Elem /\ child # Win /\ self \notin Reach(ls, child)
  BY <1>1 DEF Acyclic, Next1
<1>3. lt \in Next1 /\ \A x \in Elem : lt[x] = IF x = self THEN ls[x] \ {child} ELSE ls[x]
  BY <1>1 DEF Next1, Minus
<1>4. \A e \in Elem : self \notin Reach(ls, e) => Reach(lt, e) = Reach(ls, e)
  <2>. SUFFICES ASSUME NEW e \in Elem, self \notin Reach(ls, e) PROVE Reach(lt, e) = Reach(ls, e)
    OBVIOUS
  <2>1. \A x \in Reach(ls, e) : lt[x] = ls[x]
    BY <1>1, <1>3, ReachFacts
  <2>. QED  BY <1>1, <1>3, <2>1, ReachSame
<1>5. \A e \in Elem : Reach(lt, e) \subseteq Reach(ls, e)
  <2>1. \A x \in Elem : lt[x] \subseteq ls[x]
    BY <1>3
  <2>. QED  BY <1>1, <1>3, <2>1, ReachMore
<1>6. Forest(lt)
  <2>1. Unique(lt) /\ \A p \in Elem : Win \notin lt[p]
    BY <1>1, <1>3 DEF Unique
  <2>2. Acyclic(lt)
    <3>. SUFFICES ASSUME NEW p \in Elem, NEW x \in lt[p] PROVE p \notin Reach(lt, x)
      BY DEF Acyclic
    <3>1. x \in ls[p] /\ x \in Elem
      BY <1>1, <1>3 DEF Next1
    <3>. QED  BY <1>1, <1>5, <3>1 DEF Acyclic
  <2>. QED  BY <1>3, <2>1, <2>2 DEF Forest
<1>7. Win \notin Reach(ls, child)
  <2>. SUFFICES ASSUME Win \in Reach(ls, child) PROVE FALSE
    OBVIOUS
  <2>1. PICK y \in Reach(ls, child) : Win \in ls[y]
    BY <1>1, <1>2, ReachLast
  <2>. QED  BY <1>1, <1>2, <2>1, ReachFacts
<1>8. ASSUME NEW a \in Elem, self \in Reach(ls, a) PROVE Reach(lt, a) = Reach(ls, a) \ Reach(ls, child)
  <2>. a \notin Reach(ls, child)
    BY <1>1, <1>2, <1>8, ReachOn
  <2>1. Reach(ls, a) \ Reach(ls, child) \subseteq Reach(lt, a)
    <3>. DEFINE S == {x \in Reach(ls, a) : x \in Reach(ls, child) \/ x \in Reach(lt, a)}
    <3>1. S \in SUBSET Elem /\ a \in S
      BY <1>1, <1>3, ReachFacts
    <3>2. ASSUME NEW y \in S, NEW z \in ls[y] PROVE z \in S
      <4>1. z \in Reach(ls, a) /\ y \in Elem
        BY <1>1, <3>1, ReachFacts
      <4>2. y \in Reach(ls, child) => z \in Reach(ls, child)
        BY <1>1, <1>2, ReachFacts
      <4>3. z = child => z \in Reach(ls, child)
        BY <1>1, <1>2, ReachFacts
      <4>4. y \in Reach(lt, a) /\ z # child => z \in Reach(lt, a)
        <5>1. y \in Reach(lt, a) => lt[y] \subseteq Reach(lt, a)
          BY <1>1, <1>3, ReachFacts
        <5>2. z # child => z \in lt[y]
          BY <1>3, <4>1
        <5>. QED  BY <5>1, <5>2
      <4>. QED  BY <4>1, <4>2, <4>3, <4>4
    <3>3. Reach(ls, a) \subseteq S
      <4>. HIDE DEF S
      <4>1. \A y \in S : ls[y] \subseteq S
        BY <3>2
      <4>. QED  BY <1>1, <3>1, <4>1, ReachLeast
    <3>. QED  BY <3>3
  <2>2. Reach(lt, a) \subseteq Reach(ls, a) \ Reach(ls, child)
    <3>. DEFINE S == Reach(ls, a) \ Reach(ls, child)
    <3>1. S \in SUBSET Elem /\ a \in S
      BY <1>1, ReachFacts
    <3>2. ASSUME NEW y \in S, NEW z \in lt[y] PROVE z \in S
      <4>1. y \in Elem /\ z \in ls[y] /\ (y = self => z # child) /\ z \in Elem
        BY <1>1, <1>3, <3>1 DEF Next1
      <4>2. z \in Reach(ls, a)
        BY <1>1, <4>1, ReachFacts
      <4>3. z # child
        BY <1>1, <4>1 DEF Unique
      <4>4. z \in Reach(ls, child) => y \in Reach(ls, child)
        BY <1>1, <1>2, <4>1, <4>3, ReachUp
      <4>. QED  BY <4>2, <4>4
    <3>3. \A y \in S : lt[y] \subseteq S
      BY <3>2
    <3>. HIDE DEF S
    <3>4. Reach(lt, a) \subseteq S
      BY <1>1, <1>3, <3>1, <3>3, ReachLeast
    <3>. QED  BY <3>4 DEF S
  <2>. QED  BY <2>1, <2>2
<1>. QED  BY <1>1, <1>2, <1>3, <1>4, <1>6, <1>7, <1>8

-------------------------------------------------------------------------------
(***************************************************************************)
(* The tree of the window: ks, pa, at, sf and st are what kids, parent,    *)
(* attached, surf and styled are.                                          *)
(***************************************************************************)
TreeOK(ks, pa, at, sf, st) ==
  /\ Forest(ks)
  /\ pa \in [Elem -> Elem \cup {None}] /\ sf \in [Elem -> Surface \cup {None}]
  /\ at = Reach(ks, Win)
  /\ \A p \in at : \A c \in ks[p] : pa[c] = p
  /\ \A e \in at \ {Win} : sf[e] = (IF pa[e] \in Surface THEN pa[e] ELSE sf[pa[e]]) /\ e \in st
  /\ \A e \in Elem \ at : pa[e] = None
  /\ pa[Win] = None /\ sf[Win] = Win

TreeInv == TreeOK(kids, parent, attached, surf, styled)

Constants ==
  /\ Win \in Surface /\ Win \in Elem /\ Surface \subseteq Elem /\ None \notin Elem /\ Win # None

LEMMA ConstantsHold == Constants
BY TreeEditAssumption DEF Constants

\* An attached element but the window has its parent, in whose list it is.
LEMMA ParentFacts ==
  ASSUME NEW ks, NEW pa, NEW at, NEW sf, NEW st, TreeOK(ks, pa, at, sf, st), NEW e \in at, e # Win
  PROVE  /\ pa[e] \in at /\ e \in ks[pa[e]] /\ pa[e] \in Elem /\ e \in Elem
<1>1. ks \in Next1 /\ at = Reach(ks, Win) /\ Win \in Elem /\ \A p \in at : \A c \in ks[p] : pa[c] = p
  BY ConstantsHold DEF TreeOK, Forest, Constants
<1>2. PICK p \in at : e \in ks[p]
  BY <1>1, ReachLast
<1>3. at \subseteq Elem
  BY <1>1, ReachFacts
<1>. QED  BY <1>1, <1>2, <1>3

\* What an attached element draws on is attached, above it and a surface.
LEMMA SurfAbove ==
  ASSUME NEW ks, NEW pa, NEW at, NEW sf, NEW st, TreeOK(ks, pa, at, sf, st), NEW e \in at, e # Win
  PROVE  sf[e] \in Surface /\ sf[e] \in at /\ e \in Reach(ks, sf[e]) /\ sf[e] # e
<1>1. /\ ks \in Next1 /\ Acyclic(ks) /\ at = Reach(ks, Win) /\ Win \in Elem /\ Win \in Surface
      /\ Surface \subseteq Elem /\ \A p \in Elem : Win \notin ks[p]
      /\ \A p \in at : \A c \in ks[p] : pa[c] = p
      /\ \A x \in at \ {Win} : sf[x] = (IF pa[x] \in Surface THEN pa[x] ELSE sf[pa[x]])
  BY ConstantsHold DEF TreeOK, Forest, Constants
<1>. DEFINE Good(x) == sf[x] \in Surface /\ sf[x] \in at /\ x \in Reach(ks, sf[x]) /\ sf[x] # x
            S == {x \in at : x = Win \/ Good(x)}
<1>2. S \in SUBSET Elem /\ Win \in S
  BY <1>1, ReachFacts
<1>3. ASSUME NEW x \in S, NEW c \in ks[x] PROVE c \in S
  <2>1. x \in at /\ x \in Elem /\ c \in at /\ c \in Elem /\ c # Win /\ pa[c] = x
    BY <1>1, <1>2, ReachFacts
  <2>2. CASE x \in Surface
    <3>1. sf[c] = x
      BY <1>1, <2>1, <2>2
    <3>2. c \in Reach(ks, x) /\ x \in Reach(ks, x)
      BY <1>1, <2>1, ReachFacts
    <3>3. c # x
      BY <1>1, <2>1, ReachFacts DEF Acyclic
    <3>. QED  BY <2>1, <2>2, <3>1, <3>2, <3>3
  <2>3. CASE x \notin Surface
    <3>1. sf[c] = sf[x] /\ x # Win
      BY <1>1, <2>1, <2>3
    <3>2. Good(x)
      BY <3>1
    <3>3. sf[x] \in Elem
      BY <1>1, <3>2
    <3>4. c \in Reach(ks, sf[x])
      BY <1>1, <3>2, <3>3, ReachFacts
    <3>5. x \notin Reach(ks, c)
      BY <1>1, <2>1 DEF Acyclic
    <3>6. sf[x] # c
      BY <3>2, <3>5
    <3>. QED  BY <2>1, <3>1, <3>2, <3>4, <3>6
  <2>. QED  BY <2>2, <2>3
<1>4. at \subseteq S
  <2>1. \A x \in S : ks[x] \subseteq S
    BY <1>3
  <2>. HIDE DEF S
  <2>. QED  BY <1>1, <1>2, <2>1, ReachLeast
<1>. QED  BY <1>4

\* The elements of at that e is in.
Above(ks, at, e) == {a \in at : e \in Reach(ks, a)}

\* Pointers lead up where lists lead down.
LEMMA UpwardFacts ==
  ASSUME TreeInv, NEW e \in attached
  PROVE  Upward(e) = Above(kids, attached, e)
<1>. DEFINE up == [x \in Elem |-> {parent[x]} \ {None}]
<1>1. /\ kids \in Next1 /\ attached = Reach(kids, Win) /\ Win \in Elem /\ parent[Win] = None
      /\ parent \in [Elem -> Elem \cup {None}]
      /\ \A p \in attached : \A c \in kids[p] : parent[c] = p
  BY ConstantsHold DEF TreeInv, TreeOK, Forest, Constants
<1>2. attached \subseteq Elem /\ Upward(e) = Reach(up, e)
  BY <1>1, ReachFacts DEF Upward, Chain
<1>3. up \in Next1 /\ \A x \in Elem : up[x] = {parent[x]} \ {None}
  BY <1>1 DEF Next1
<1>. HIDE DEF up
<1>4. Reach(up, e) \subseteq Above(kids, attached, e)
  <2>1. Above(kids, attached, e) \in SUBSET Elem /\ e \in Above(kids, attached, e)
    BY <1>1, <1>2, ReachFacts DEF Above
  <2>2. ASSUME NEW a \in Above(kids, attached, e), NEW b \in up[a] PROVE b \in Above(kids, attached, e)
    <3>1. a \in attached /\ a \in Elem /\ e \in Reach(kids, a)
      BY <1>2 DEF Above
    <3>2. b = parent[a] /\ b # None /\ a # Win
      BY <1>1, <1>3, <3>1
    <3>3. b \in attached /\ a \in kids[b] /\ b \in Elem
      BY <3>1, <3>2, ParentFacts DEF TreeInv
    <3>4. a \in Reach(kids, b)
      BY <1>1, <3>3, ReachFacts
    <3>5. e \in Reach(kids, b)
      BY <1>1, <3>1, <3>3, <3>4, ReachOn
    <3>. QED  BY <3>3, <3>5 DEF Above
  <2>. QED  BY <1>2, <1>3, <2>1, <2>2, ReachLeast
<1>5. ASSUME NEW a \in attached, e \in Reach(kids, a) PROVE a \in Reach(up, e)
  <2>. DEFINE S == {x \in Reach(kids, a) : a \in Reach(up, x)}
  <2>0. a \in Elem
    BY <1>2
  <2>1. S \in SUBSET Elem /\ a \in S
    BY <1>1, <1>3, <2>0, ReachFacts
  <2>2. ASSUME NEW x \in S, NEW c \in kids[x] PROVE c \in S
    <3>1. x \in Elem /\ c \in Reach(kids, a) /\ c \in Elem /\ a \in Reach(up, x)
      BY <1>1, <2>0, <2>1, ReachFacts
    <3>2. x \in attached
      BY <1>1, <1>2, <2>0, ReachOn
    <3>3. parent[c] = x /\ x # None
      BY <1>1, <3>1, <3>2, ConstantsHold DEF Constants
    <3>4. x \in up[c]
      BY <1>3, <3>1, <3>3
    <3>5. x \in Reach(up, c)
      BY <1>3, <3>1, <3>4, ReachFacts
    <3>6. a \in Reach(up, c)
      BY <1>3, <3>1, <3>5, ReachOn
    <3>. QED  BY <3>1, <3>6
  <2>3. Reach(kids, a) \subseteq S
    <3>1. \A x \in S : kids[x] \subseteq S
      BY <2>2
    <3>. HIDE DEF S
    <3>. QED  BY <1>1, <2>0, <2>1, <3>1, ReachLeast
  <2>. QED  BY <1>5, <2>3
<1>. QED  BY <1>2, <1>4, <1>5 DEF Above

-------------------------------------------------------------------------------
(***************************************************************************)
(* Adding                                                                  *)
(***************************************************************************)
\* What is added to the window was not in it.
LEMMA NewIsNew ==
  ASSUME NEW ks, NEW self, NEW child, Forest(ks), Adds(ks, self, child)
  PROVE  Reach(ks, Win) \cap Reach(ks, child) = {}
<1>1. /\ ks \in Next1 /\ Unique(ks) /\ Win \in Elem /\ child \in Elem /\ child # Win
      /\ \A p \in Elem : Win \notin ks[p] /\ child \notin ks[p]
  BY ConstantsHold DEF Forest, Adds, Constants
<1>2. child \notin Reach(ks, Win)
  BY <1>1, ReachLast, ReachFacts
<1>3. Win \notin Reach(ks, child)
  BY <1>1, ReachLast, ReachFacts
<1>. QED  BY <1>1, <1>2, <1>3, Comparable

\* An element that is added gets what it draws on from what is above it.
LEMMA AttachedSurfFacts ==
  ASSUME NEW ls, Forest(ls), NEW self, NEW child \in Elem
  PROVE  /\ AttachedSurf(ls, self, child, child) = SurfaceFor(self)
         /\ \A q \in Reach(ls, child) : \A e \in ls[q] :
              AttachedSurf(ls, self, child, e) =
                IF q \in Surface THEN q ELSE AttachedSurf(ls, self, child, q)
<1>. DEFINE Ups(e) == {p \in Subtree(ls, child) : e # p /\ e \in Subtree(ls, p) /\ p \in Surface}
            Least(U) == CHOOSE p \in U : \A q \in U : p \in Subtree(ls, q)
<1>1. ls \in Next1 /\ Unique(ls) /\ Acyclic(ls)
  BY DEF Forest
<1>2. \A e : AttachedSurf(ls, self, child, e) = IF Ups(e) = {} THEN SurfaceFor(self) ELSE SurfaceFor(Least(Ups(e)))
  BY DEF AttachedSurf
<1>3. Ups(child) = {}
  <2>. SUFFICES ASSUME NEW p \in Ups(child) PROVE FALSE
    OBVIOUS
  <2>1. p \in Reach(ls, child) /\ p # child /\ child \in Reach(ls, p) /\ p \in Elem
    BY <1>1, ReachFacts DEF Subtree
  <2>. QED  BY <1>1, <2>1, Antisymmetric
<1>4. ASSUME NEW q \in Reach(ls, child), NEW e \in ls[q]
      PROVE  Ups(e) = Ups(q) \cup ({q} \cap Surface)
  <2>1. q \in Elem /\ e \in Elem /\ Reach(ls, child) \subseteq Elem
    BY <1>1, ReachFacts DEF Next1
  <2>2. ASSUME NEW p \in Ups(e) PROVE p \in Ups(q) \cup ({q} \cap Surface)
    <3>1. p \in Elem /\ p \in Surface /\ p \in Reach(ls, child) /\ e # p /\ e \in Reach(ls, p)
      BY <2>1 DEF Subtree
    <3>2. q \in Reach(ls, p)
      BY <1>1, <2>1, <3>1, ReachUp
    <3>. QED  BY <3>1, <3>2 DEF Subtree
  <2>3. ASSUME NEW p \in Ups(q) PROVE p \in Ups(e)
    <3>1. p \in Elem /\ p \in Surface /\ p \in Reach(ls, child) /\ q \in Reach(ls, p)
      BY <2>1 DEF Subtree
    <3>2. e \in Reach(ls, p)
      BY <1>1, <3>1, ReachFacts
    <3>3. q \notin Reach(ls, e)
      BY <1>1, <2>1 DEF Acyclic
    <3>. QED  BY <3>1, <3>2, <3>3 DEF Subtree
  <2>4. q \in Surface => q \in Ups(e)
    <3>1. e \in Reach(ls, q)
      BY <1>1, <2>1, ReachFacts
    <3>2. e # q
      BY <1>1, <2>1, ReachFacts DEF Acyclic
    <3>. QED  BY <3>1, <3>2 DEF Subtree
  <2>. QED  BY <2>2, <2>3, <2>4
<1>5. ASSUME NEW q \in Reach(ls, child), NEW e \in ls[q], q \in Surface PROVE Least(Ups(e)) = q
  <2>1. q \in Elem /\ Reach(ls, child) \subseteq Elem
    BY <1>1, ReachFacts
  <2>2. \A p \in Ups(q) : p \in Elem /\ q \in Reach(ls, p)
    BY <2>1 DEF Subtree
  <2>3. Ups(e) = Ups(q) \cup {q}
    BY <1>4, <1>5
  <2>. HIDE DEF Ups
  <2>4. \A p \in Ups(e) : q \in Reach(ls, p)
    BY <1>1, <2>1, <2>2, <2>3, ReachFacts
  <2>5. \A p \in Ups(e) : p \in Reach(ls, q) => p = q
    BY <1>1, <2>1, <2>2, <2>3, Antisymmetric
  <2>. QED  BY <2>3, <2>4, <2>5 DEF Subtree
<1>. HIDE DEF Ups, Least
<1>6. ASSUME NEW q \in Reach(ls, child), NEW e \in ls[q]
      PROVE  AttachedSurf(ls, self, child, e) = IF q \in Surface THEN q ELSE AttachedSurf(ls, self, child, q)
  <2>1. CASE q \in Surface
    <3>1. Ups(e) # {} /\ Least(Ups(e)) = q
      BY <1>4, <1>5, <2>1
    <3>. QED  BY <1>2, <2>1, <3>1 DEF SurfaceFor
  <2>2. CASE q \notin Surface
    <3>1. Ups(e) = Ups(q)
      BY <1>4, <2>2
    <3>2. AttachedSurf(ls, self, child, e) = AttachedSurf(ls, self, child, q)
      BY <1>2, <3>1
    <3>. QED  BY <2>2, <3>2
  <2>. QED  BY <2>1, <2>2
<1>. QED  BY <1>2, <1>3, <1>6

LEMMA TreeAdd ==
  ASSUME TreeInv, NEW self \in Elem, NEW child \in Elem, rtb_elem_add_child(self, child)
  PROVE  TreeInv'
<1>. DEFINE ls == kids'
            new == Reach(kids, child)
<1>1. /\ Forest(kids) /\ kids \in Next1 /\ Unique(kids)
      /\ parent \in [Elem -> Elem \cup {None}] /\ surf \in [Elem -> Surface \cup {None}]
      /\ attached = Reach(kids, Win) /\ attached \subseteq Elem /\ Win \in attached
      /\ \A p \in attached : \A c \in kids[p] : parent[c] = p
      /\ \A e \in attached \ {Win} :
           surf[e] = (IF parent[e] \in Surface THEN parent[e] ELSE surf[parent[e]]) /\ e \in styled
      /\ \A e \in Elem \ attached : parent[e] = None
      /\ parent[Win] = None /\ surf[Win] = Win
  BY ConstantsHold, ReachFacts DEF TreeInv, TreeOK, Forest, Constants
<1>2. Adds(kids, self, child) /\ ls = Plus(kids, self, child)
  BY DEF rtb_elem_add_child, Loose, Adds, Plus, Subtree
<1>3. /\ ls \in Next1
      /\ \A x \in Elem : ls[x] = IF x = self THEN kids[x] \cup {child} ELSE kids[x]
      /\ Reach(ls, child) = new
      /\ \A a \in Elem : Reach(ls, a) = IF self \in Reach(kids, a) THEN Reach(kids, a) \cup new
                                        ELSE Reach(kids, a)
  BY <1>1, <1>2, AddReach
<1>4. Forest(ls)
  BY <1>1, <1>2, AddForest
<1>5. /\ attached \cap new = {} /\ new \subseteq Elem /\ child \in new
      /\ \A p \in new : kids[p] \subseteq new
      /\ \A p \in attached : kids[p] \subseteq attached
  <2>1. attached \cap new = {}
    BY <1>1, <1>2, NewIsNew
  <2>2. new \subseteq Elem /\ child \in new /\ \A p \in new : kids[p] \subseteq new
    BY <1>1, ReachFacts
  <2>3. \A p \in attached : kids[p] \subseteq attached
    BY <1>1, ConstantsHold, ReachFacts DEF Constants
  <2>. QED  BY <2>1, <2>2, <2>3
<1>6. \A p \in Elem : child \notin kids[p]
  BY <1>2 DEF Adds
<1>7. CASE self \notin attached
  <2>1. UNCHANGED << parent, attached, surf, styled >>
    BY <1>7 DEF rtb_elem_add_child
  <2>2. attached = Reach(ls, Win)
    BY <1>1, <1>3, <1>7
  <2>3. \A p \in attached : ls[p] = kids[p]
    BY <1>1, <1>3, <1>7
  <2>4. \A p \in attached : \A c \in ls[p] : parent[c] = p
    BY <1>1, <2>3
  <2>5. TreeOK(ls, parent, attached, surf, styled)
    BY <1>1, <1>4, <2>2, <2>4 DEF TreeOK
  <2>. QED  BY <2>1, <2>5 DEF TreeInv
<1>8. CASE self \in attached
  <2>. DEFINE Sf(e) == AttachedSurf(ls, self, child, e)
  <2>1. /\ attached' = attached \cup new
        /\ parent' = [e \in Elem |-> IF e = child THEN self
                       ELSE IF e \in new THEN CHOOSE p \in new : e \in ls[p] ELSE parent[e]]
        /\ surf' = [e \in Elem |-> IF e \in new THEN Sf(e) ELSE surf[e]]
        /\ styled' = styled \cup Subtree(ls, self)
    <3>1. Reach(ls, child) = new
      BY <1>3
    <3>2. Attach(self, child) /\ styled' = styled \cup Subtree(ls, self)
      BY <1>8 DEF rtb_elem_add_child
    <3>3. /\ attached' = attached \cup Reach(ls, child)
          /\ parent' = [e \in Elem |-> IF e = child THEN self
                         ELSE IF e \in Reach(ls, child) THEN CHOOSE p \in Reach(ls, child) : e \in ls[p]
                         ELSE parent[e]]
          /\ surf' = [e \in Elem |-> IF e \in Reach(ls, child) THEN Sf(e) ELSE surf[e]]
      BY <3>2 DEF Attach, Subtree
    <3>. HIDE DEF ls, new, Sf
    <3>. QED  BY <3>1, <3>2, <3>3
  <2>. HIDE DEF ls, new, Sf
  <2>2. \A p \in Elem : p \in attached => parent'[p] = parent[p] /\ surf'[p] = surf[p]
    BY <1>5, <2>1
  <2>3. /\ parent'[child] = self
        /\ \A q \in new : \A e \in kids[q] : parent'[e] = q
    <3>1. parent'[child] = self
      BY <2>1, <1>5
    <3>2. ASSUME NEW q \in new, NEW e \in kids[q] PROVE parent'[e] = q
      <4>1. e \in new /\ e # child /\ e \in Elem /\ q \in Elem
        BY <1>5, <1>6
      <4>2. e \in ls[q]
        BY <1>3, <4>1
      <4>3. \A p \in new : e \in ls[p] => p = q
        BY <1>4, <1>5, <4>1, <4>2 DEF Forest, Unique
      <4>4. parent'[e] = CHOOSE p \in new : e \in ls[p]
        BY <2>1, <4>1
      <4>. QED  BY <4>2, <4>3, <4>4
    <3>. QED  BY <3>1, <3>2
  <2>4. /\ Sf(child) = SurfaceFor(self)
        /\ \A q \in new : \A e \in kids[q] : Sf(e) = IF q \in Surface THEN q ELSE Sf(q)
    <3>1. \A q \in Reach(ls, child) : \A e \in ls[q] : Sf(e) = IF q \in Surface THEN q ELSE Sf(q)
      BY <1>4, AttachedSurfFacts DEF Sf
    <3>2. Sf(child) = SurfaceFor(self)
      BY <1>4, AttachedSurfFacts DEF Sf
    <3>3. \A q \in new : kids[q] \subseteq ls[q]
      BY <1>3, <1>5
    <3>. QED  BY <1>3, <3>1, <3>2, <3>3
  <2>5. \A e \in new : Sf(e) \in Surface \cup {None}
    <3>. DEFINE S == {e \in new : Sf(e) \in Surface \cup {None}}
    <3>1. SurfaceFor(self) \in Surface \cup {None}
      BY <1>1 DEF SurfaceFor
    <3>2. S \in SUBSET Elem /\ child \in S
      BY <1>5, <2>4, <3>1
    <3>3. \A q \in S : kids[q] \subseteq S
      BY <1>5, <2>4
    <3>. HIDE DEF S
    <3>4. new \subseteq S
      BY <1>1, <3>2, <3>3, ReachLeast DEF new
    <3>. QED  BY <3>4 DEF S
  <2>6. parent' \in [Elem -> Elem \cup {None}]
    <3>1. \A e \in new : e # child => \E q \in new : e \in kids[q]
      BY <1>1, ReachLast DEF new
    <3>2. \A e \in new : e # child => parent'[e] \in Elem
      BY <1>5, <2>3, <3>1
    <3>3. \A e \in Elem : parent'[e] \in Elem \cup {None}
      BY <1>1, <2>1, <2>3, <3>2
    <3>4. parent' = [e \in Elem |-> parent'[e]]
      BY <2>1
    <3>. QED  BY <3>3, <3>4
  <2>7. surf' \in [Elem -> Surface \cup {None}]
    BY <1>1, <2>1, <2>5
  <2>8. attached' = Reach(ls, Win)
    BY <1>1, <1>3, <1>8, <2>1
  <2>9. ASSUME NEW p \in attached', NEW c \in ls[p] PROVE parent'[c] = p
    <3>1. CASE c = child
      <4>1. p \in Elem
        BY <1>1, <1>5, <2>1
      <4>2. p = self
        BY <1>3, <1>6, <3>1, <4>1
      <4>. QED  BY <2>3, <3>1, <4>2
    <3>2. CASE c # child
      <4>0. p \in Elem
        BY <1>1, <1>5, <2>1
      <4>1. p \in Elem /\ c \in kids[p]
        BY <1>3, <3>2, <4>0
      <4>2. CASE p \in new
        BY <2>3, <4>1, <4>2
      <4>3. CASE p \in attached
        <5>1. c \in attached /\ c \in Elem /\ parent[c] = p
          BY <1>1, <1>5, <4>1, <4>3
        <5>. QED  BY <2>2, <5>1
      <4>. QED  BY <2>1, <4>2, <4>3
    <3>. QED  BY <3>1, <3>2
  <2>10. ASSUME NEW e \in attached' \ {Win}
         PROVE  surf'[e] = (IF parent'[e] \in Surface THEN parent'[e] ELSE surf'[parent'[e]]) /\ e \in styled'
    <3>1. CASE e \in attached
      <4>1. parent[e] \in attached /\ e \in Elem /\ parent[e] \in Elem
        BY <3>1, ParentFacts DEF TreeInv
      <4>2. parent'[e] = parent[e] /\ surf'[e] = surf[e] /\ surf'[parent[e]] = surf[parent[e]]
        BY <2>2, <3>1, <4>1
      <4>. QED  BY <1>1, <2>1, <3>1, <4>2
    <3>2. CASE e \in new
      <4>1. e \in styled'
        <5>1. Reach(ls, self) = Reach(kids, self) \cup new
          BY <1>1, <1>3, ReachFacts
        <5>. QED  BY <2>1, <3>2, <5>1 DEF Subtree
      <4>2. \A x \in new : surf'[x] = Sf(x)
        BY <1>5, <2>1
      <4>3. CASE e = child
        <5>1. surf'[e] = SurfaceFor(self) /\ parent'[e] = self /\ surf'[self] = surf[self]
          BY <1>8, <2>2, <2>3, <2>4, <3>2, <4>2, <4>3
        <5>. QED  BY <4>1, <5>1 DEF SurfaceFor
      <4>4. CASE e # child
        <5>1. PICK q \in new : e \in kids[q]
          BY <1>1, <3>2, <4>4, ReachLast DEF new
        <5>2. parent'[e] = q /\ surf'[e] = (IF q \in Surface THEN q ELSE Sf(q)) /\ surf'[q] = Sf(q)
          BY <2>3, <2>4, <3>2, <4>2, <5>1
        <5>. QED  BY <4>1, <5>2
      <4>. QED  BY <4>3, <4>4
    <3>. QED  BY <2>1, <3>1, <3>2
  <2>11. \A e \in Elem \ attached' : parent'[e] = None
    BY <1>1, <1>5, <2>1
  <2>12. parent'[Win] = None /\ surf'[Win] = Win
    BY <1>1, <2>2
  <2>13. TreeOK(ls, parent', attached', surf', styled')
    BY <1>4, <2>6, <2>7, <2>8, <2>9, <2>10, <2>11, <2>12 DEF TreeOK
  <2>. QED  BY <2>13 DEF TreeInv, ls
<1>. QED  BY <1>7, <1>8

-------------------------------------------------------------------------------
(***************************************************************************)
(* Removing                                                                *)
(***************************************************************************)
LEMMA TreeRemove ==
  ASSUME TreeInv, NEW self \in Elem, NEW child \in Elem, rtb_elem_remove_child(self, child)
  PROVE  TreeInv'
<1>. DEFINE ls == kids'
            old == Reach(kids, child)
<1>1. /\ Forest(kids) /\ kids \in Next1 /\ Win \in Elem
      /\ parent \in [Elem -> Elem \cup {None}] /\ surf \in [Elem -> Surface \cup {None}]
      /\ attached = Reach(kids, Win) /\ attached \subseteq Elem /\ Win \in attached
      /\ \A p \in attached : \A c \in kids[p] : parent[c] = p
      /\ \A e \in attached \ {Win} :
           surf[e] = (IF parent[e] \in Surface THEN parent[e] ELSE surf[parent[e]]) /\ e \in styled
      /\ \A e \in Elem \ attached : parent[e] = None
      /\ parent[Win] = None /\ surf[Win] = Win
  BY ConstantsHold, ReachFacts DEF TreeInv, TreeOK, Forest, Constants
<1>2. child \in kids[self] /\ ls = Minus(kids, self, child)
  BY DEF rtb_elem_remove_child, Minus
<1>3. /\ Forest(ls)
      /\ \A x \in Elem : ls[x] = IF x = self THEN kids[x] \ {child} ELSE kids[x]
      /\ \A a \in Elem : Reach(ls, a) = IF self \in Reach(kids, a) THEN Reach(kids, a) \ old
                                        ELSE Reach(kids, a)
      /\ Win \notin old
  <2>1. Forest(kids) /\ self \in Elem /\ child \in Elem /\ child \in kids[self] /\ ls = Minus(kids, self, child)
    BY <1>1, <1>2
  <2>. HIDE DEF ls, old
  <2>2. Forest(ls) /\ Win \notin Reach(kids, child)
    BY <2>1, RemoveReach
  <2>4. \A x \in Elem : ls[x] = IF x = self THEN kids[x] \ {child} ELSE kids[x]
    BY <1>1, <2>1 DEF Minus, Next1
  <2>3. \A a \in Elem : Reach(ls, a) = IF self \in Reach(kids, a) THEN Reach(kids, a) \ Reach(kids, child)
                                        ELSE Reach(kids, a)
    BY <2>1, RemoveReach
  <2>. QED  BY <2>2, <2>3, <2>4 DEF old
<1>4. CASE self \notin attached
  <2>1. UNCHANGED << parent, attached, surf, styled >>
    BY <1>4 DEF rtb_elem_remove_child
  <2>2. attached = Reach(ls, Win)
    BY <1>1, <1>3, <1>4
  <2>3. \A p \in attached : ls[p] = kids[p]
    BY <1>1, <1>3, <1>4
  <2>4. TreeOK(ls, parent, attached, surf, styled)
    BY <1>1, <1>3, <2>2, <2>3 DEF TreeOK
  <2>. QED  BY <2>1, <2>4 DEF TreeInv
<1>5. CASE self \in attached
  <2>1. /\ attached' = attached \ old
        /\ parent' = [e \in Elem |-> IF e \in old THEN None ELSE parent[e]]
        /\ surf' = [e \in Elem |-> IF e \in old THEN None ELSE surf[e]]
        /\ styled' = styled \ old
    BY <1>5 DEF rtb_elem_remove_child, Detach, Subtree
  <2>2. \A x \in old : kids[x] \subseteq old
    BY <1>1, ReachFacts
  <2>. HIDE DEF ls, old
  <2>3. attached' = Reach(ls, Win)
    BY <1>1, <1>3, <1>5, <2>1
  <2>4. /\ parent' \in [Elem -> Elem \cup {None}] /\ surf' \in [Elem -> Surface \cup {None}]
        /\ \A e \in Elem \ attached' : parent'[e] = None
        /\ parent'[Win] = None /\ surf'[Win] = Win
    BY <1>1, <1>3, <2>1
  <2>5. \A x \in Elem : x \notin old => parent'[x] = parent[x] /\ surf'[x] = surf[x]
    BY <2>1
  <2>6. ASSUME NEW p \in attached', NEW c \in ls[p] PROVE parent'[c] = p
    <3>1. p \in attached /\ p \in Elem
      BY <1>1, <2>1
    <3>2. c \in kids[p] /\ c \in attached'
      <4>1. c \in kids[p]
        BY <1>3, <3>1
      <4>2. c \in attached'
        BY <1>1, <1>3, <2>3, ReachFacts DEF Forest
      <4>. QED  BY <4>1, <4>2
    <3>3. parent[c] = p /\ c \in Elem /\ c \notin old
      BY <1>1, <2>1, <3>1, <3>2
    <3>. QED  BY <2>5, <3>3
  <2>7. ASSUME NEW e \in attached' \ {Win}
        PROVE  surf'[e] = (IF parent'[e] \in Surface THEN parent'[e] ELSE surf'[parent'[e]]) /\ e \in styled'
    <3>1. e \in attached /\ e \notin old
      BY <2>1
    <3>2. parent[e] \in Elem /\ e \in kids[parent[e]] /\ e \in Elem
      BY <3>1, ParentFacts DEF TreeInv
    <3>3. parent[e] \notin old
      BY <2>2, <3>1, <3>2
    <3>4. parent'[e] = parent[e] /\ surf'[e] = surf[e] /\ surf'[parent[e]] = surf[parent[e]]
      BY <2>5, <3>1, <3>2, <3>3
    <3>. QED  BY <1>1, <2>1, <3>1, <3>4
  <2>8. TreeOK(ls, parent', attached', surf', styled')
    BY <1>3, <2>3, <2>4, <2>6, <2>7 DEF TreeOK
  <2>. QED  BY <2>8 DEF TreeInv, ls
<1>. QED  BY <1>4, <1>5

LEMMA TreeNext ==
  ASSUME TreeInv, [Next]_vars
  PROVE  TreeInv'
<1>1. CASE UNCHANGED tree
  BY <1>1 DEF TreeInv, tree
<1>2. ASSUME NEW p \in Elem, NEW c \in Elem, rtb_elem_add_child(p, c) PROVE TreeInv'
  BY <1>2, TreeAdd
<1>3. ASSUME NEW p \in Elem, NEW c \in Elem, rtb_elem_remove_child(p, c) PROVE TreeInv'
  BY <1>3, TreeRemove
<1>4. \/ UNCHANGED tree
      \/ \E p, c \in Elem : rtb_elem_add_child(p, c) \/ rtb_elem_remove_child(p, c)
  BY DEF Next, vars, Ask, MoveTo, Focus, Frame, Press, Release
<1>. QED  BY <1>1, <1>2, <1>3, <1>4

LEMMA TreeInit ==
  ASSUME Init
  PROVE  TreeInv
<1>1. kids = [e \in Elem |-> {}] /\ \A e \in Elem : kids[e] = {}
  BY DEF Init
<1>2. kids \in Next1 /\ Unique(kids) /\ Acyclic(kids)
  BY <1>1 DEF Next1, Unique, Acyclic
<1>3. Reach(kids, Win) = {Win}
  <2>1. {Win} \in SUBSET Elem /\ Win \in {Win} /\ \A x \in {Win} : kids[x] \subseteq {Win}
    BY <1>1, ConstantsHold DEF Constants
  <2>2. Reach(kids, Win) \subseteq {Win}
    BY <1>2, <2>1, ReachLeast
  <2>. QED  BY <1>2, <2>1, <2>2, ReachFacts
<1>4. /\ parent \in [Elem -> Elem \cup {None}] /\ surf \in [Elem -> Surface \cup {None}]
      /\ attached = {Win}
      /\ \A e \in Elem : parent[e] = None
      /\ surf[Win] = Win
  BY ConstantsHold DEF Init, Constants
<1>5. Forest(kids)
  BY <1>1, <1>2 DEF Forest
<1>. QED  BY <1>1, <1>3, <1>4, <1>5, ConstantsHold DEF TreeInv, TreeOK, Constants

-------------------------------------------------------------------------------
(***************************************************************************)
(* The queues                                                              *)
(***************************************************************************)
\* Nothing is queued off the window; on a surface of it, what is linked, is
\* attached and draws there, once.
QueueOK(q, l, at, sf) ==
  /\ \A s \in Surface \ at : q[s] = << >>
  /\ \A s \in Surface \cap at : \A k \in 1..Len(q[s]) :
       /\ q[s][k] \in at \cap l /\ sf[q[s][k]] = s
       /\ \A j \in 1..Len(q[s]) : q[s][j] = q[s][k] => j = k

DrawType ==
  /\ styled \subseteq Elem /\ queue \in [Surface -> Seq(Elem)]
  /\ linked \subseteq Elem /\ invalid \subseteq Surface

QueueInv == QueueOK(queue, linked, attached, surf)

LEMMA AppendOne ==
  ASSUME NEW T, NEW q \in Seq(T), NEW x \in T
  PROVE  /\ q \o << x >> \in Seq(T) /\ Len(q \o << x >>) = Len(q) + 1
         /\ \A k \in 1..Len(q) + 1 : (q \o << x >>)[k] = IF k = Len(q) + 1 THEN x ELSE q[k]
OBVIOUS

LEMMA RemoveAtFacts ==
  ASSUME NEW T, NEW q \in Seq(T), NEW i \in 1..Len(q)
  PROVE  /\ RemoveAt(q, i) \in Seq(T) /\ Len(RemoveAt(q, i)) = Len(q) - 1
         /\ \A k \in 1..Len(q) - 1 : RemoveAt(q, i)[k] = IF k < i THEN q[k] ELSE q[k + 1]
<1>. DEFINE n == Len(q)
            a == SubSeq(q, 1, i - 1)
            b == SubSeq(q, i + 1, n)
<1>1. n \in Nat /\ i \in 1..n /\ q \in [1..n -> T]
  OBVIOUS
<1>2. a \in Seq(T) /\ Len(a) = i - 1 /\ \A k \in 1..i - 1 : a[k] = q[k]
  OBVIOUS
<1>3. b \in Seq(T) /\ Len(b) = n - i /\ \A k \in 1..n - i : b[k] = q[i + k]
  OBVIOUS
<1>4. RemoveAt(q, i) = a \o b
  BY DEF RemoveAt
<1>. HIDE DEF n, a, b
<1>5. a \o b \in Seq(T) /\ Len(a \o b) = n - 1
  <2>1. a \o b \in Seq(T) /\ Len(a \o b) = Len(a) + Len(b)
    BY <1>2, <1>3, ConcatProperties
  <2>. QED  BY <1>1, <1>2, <1>3, <2>1
<1>6. ASSUME NEW k \in 1..n - 1 PROVE (a \o b)[k] = IF k < i THEN q[k] ELSE q[k + 1]
  <2>1. CASE k < i
    BY <1>1, <1>2, <1>3, <2>1
  <2>2. CASE ~(k < i)
    <3>1. (a \o b)[k] = b[k - (i - 1)]
      BY <1>1, <1>2, <1>3, <2>2
    <3>2. k - (i - 1) \in 1..n - i /\ i + (k - (i - 1)) = k + 1
      BY <1>1, <2>2
    <3>3. b[k - (i - 1)] = q[k + 1]
      BY <1>3, <3>2
    <3>. QED  BY <1>1, <2>2, <3>1, <3>3
  <2>. QED  BY <2>1, <2>2
<1>. QED  BY <1>4, <1>5, <1>6 DEF n

\* What is above an attached element is attached.
LEMMA UpwardAttached ==
  ASSUME TreeInv, NEW e \in attached
  PROVE  Upward(e) \subseteq attached /\ attached \subseteq Elem
BY UpwardFacts, ReachFacts, ConstantsHold DEF Above, TreeInv, TreeOK, Forest, Constants

\* What a mark reaches is attached, draws on something attached, and is queued nowhere.
LEMMA MarkFacts ==
  ASSUME NEW at \in SUBSET Elem, NEW sf \in [Elem -> Surface \cup {None}],
         \A x \in at : sf[x] \in at, NEW e \in at
  PROVE  \A x \in Marked(sf, e) : x \in at /\ x \notin linked
<1>. DEFINE up == [x \in Elem |-> {sf[x]} \ {None}]
<1>1. up \in Next1 /\ \A x \in Elem : up[x] = {sf[x]} \ {None}
  BY ConstantsHold DEF Next1, Constants
<1>2. Chain(sf, e) = Reach(up, e)
  BY DEF Chain
<1>. HIDE DEF up
<1>3. Reach(up, e) \subseteq at
  BY <1>1, ReachLeast
<1>. QED  BY <1>2, <1>3 DEF Marked, Takes

LEMMA OrderFacts ==
  ASSUME NEW S \in SUBSET Elem, NEW o \in SetToSeqs(S)
  PROVE  /\ o \in Seq(Elem)
         /\ \A k \in 1..Len(o) : o[k] \in S /\ \A j \in 1..Len(o) : o[j] = o[k] => j = k
<1>1. IsFiniteSet(S)
  BY TreeEditAssumption, FS_Subset
<1>2. Cardinality(S) \in Nat
  BY <1>1, FS_CardinalityType
<1>3. /\ o \in [1..Cardinality(S) -> S]
      /\ \A i, j \in 1..Cardinality(S) : i # j => o[i] # o[j]
  BY DEF SetToSeqs
<1>. QED  BY <1>2, <1>3

\* What joins goes to the ends of the queues, each element once.
Joins(sf, M, s, o) ==
  \A k \in 1..Len(o) : /\ o[k] \in M /\ sf[o[k]] = s
                       /\ \A j \in 1..Len(o) : o[j] = o[k] => j = k

LEMMA JoinFacts ==
  ASSUME NEW q \in [Surface -> Seq(Elem)], NEW sf, NEW M \in SUBSET Elem, Join(q, sf, M)
  PROVE  /\ linked' = linked \cup M /\ queue' \in [Surface -> Seq(Elem)]
         /\ \A s \in Surface : \E o \in Seq(Elem) : queue'[s] = q[s] \o o /\ Joins(sf, M, s, o)
<1>. DEFINE Here(s) == {x \in M : sf[x] = s}
            orders == [s \in Surface |-> SetToSeqs(Here(s))]
<1>1. linked' = linked \cup M
  BY DEF Join
<1>2. PICK order : /\ \A s \in Surface : order[s] \in orders[s]
                   /\ queue' = [s \in Surface |-> q[s] \o order[s]]
  BY DEF Join
<1>3. \A s \in Surface : order[s] \in SetToSeqs(Here(s))
  BY <1>2
<1>4. ASSUME NEW s \in Surface
      PROVE  /\ queue'[s] \in Seq(Elem) /\ queue'[s] = q[s] \o order[s] /\ order[s] \in Seq(Elem)
             /\ Joins(sf, M, s, order[s])
  <2>. DEFINE o == order[s]
  <2>1. Here(s) \in SUBSET Elem /\ o \in SetToSeqs(Here(s))
    BY <1>3
  <2>2. queue'[s] = q[s] \o o /\ q[s] \in Seq(Elem)
    BY <1>2
  <2>. HIDE DEF o
  <2>3. /\ o \in Seq(Elem)
        /\ \A k \in 1..Len(o) : o[k] \in Here(s) /\ \A j \in 1..Len(o) : o[j] = o[k] => j = k
    <3>. HIDE DEF Here
    <3>. QED  BY <2>1, OrderFacts
  <2>4. q[s] \o o \in Seq(Elem)
    BY <2>2, <2>3, ConcatProperties
  <2>5. Joins(sf, M, s, o)
    BY <2>3 DEF Joins
  <2>. QED  BY <2>2, <2>3, <2>4, <2>5 DEF o
<1>5. queue' = [s \in Surface |-> queue'[s]]
  BY <1>2
<1>6. queue' \in [Surface -> Seq(Elem)]
  BY <1>4, <1>5
<1>7. \A s \in Surface : \E o \in Seq(Elem) : queue'[s] = q[s] \o o /\ Joins(sf, M, s, o)
  BY <1>4
<1>. QED  BY <1>1, <1>6, <1>7

\* What joins keeps the queues in order.
LEMMA JoinQueues ==
  ASSUME NEW q \in [Surface -> Seq(Elem)], NEW at \in SUBSET Elem, NEW sf, QueueOK(q, linked, at, sf),
         NEW M \in SUBSET at, \A x \in M : sf[x] \in at /\ x \notin linked, Join(q, sf, M)
  PROVE  QueueOK(queue', linked', at, sf)
<1>1. /\ linked' = linked \cup M
      /\ \A s \in Surface : \E o \in Seq(Elem) : queue'[s] = q[s] \o o /\ Joins(sf, M, s, o)
  <2>1. M \in SUBSET Elem
    OBVIOUS
  <2>. QED  BY <2>1, JoinFacts
<1>2. ASSUME NEW s \in Surface \ at PROVE queue'[s] = << >>
  <2>1. PICK o \in Seq(Elem) : queue'[s] = q[s] \o o /\ \A k \in 1..Len(o) : o[k] \in M /\ sf[o[k]] = s
    BY <1>1 DEF Joins
  <2>2. \A k \in 1..Len(o) : FALSE
    BY <1>2, <2>1
  <2>3. o = << >>
    BY <2>1, <2>2
  <2>4. q[s] = << >>
    BY DEF QueueOK
  <2>. QED  BY <2>1, <2>3, <2>4
<1>3. ASSUME NEW s \in Surface \cap at, NEW k \in 1..Len(queue'[s])
      PROVE  /\ queue'[s][k] \in at \cap linked' /\ sf[queue'[s][k]] = s
             /\ \A j \in 1..Len(queue'[s]) : queue'[s][j] = queue'[s][k] => j = k
  <2>1. PICK o \in Seq(Elem) :
          /\ queue'[s] = q[s] \o o
          /\ \A i \in 1..Len(o) : /\ o[i] \in M /\ sf[o[i]] = s
                                  /\ \A j \in 1..Len(o) : o[j] = o[i] => j = i
    BY <1>1 DEF Joins
  <2>. DEFINE p == q[s]
              r == queue'[s]
              n == Len(p)
              m == Len(o)
  <2>2. /\ p \in Seq(Elem)
        /\ \A i \in 1..n : /\ p[i] \in at \cap linked /\ sf[p[i]] = s
                           /\ \A j \in 1..n : p[j] = p[i] => j = i
    BY DEF QueueOK
  <2>3. /\ n \in Nat /\ m \in Nat /\ r = p \o o /\ Len(r) = n + m
        /\ \A i \in 1..n : r[i] = p[i]
        /\ \A i \in n + 1..n + m : r[i] = o[i - n]
    BY <2>1, <2>2, ConcatProperties
  <2>4. k \in 1..n + m
    BY <2>3
  <2>5. ASSUME NEW i \in 1..n + m
        PROVE  \/ i \in 1..n /\ r[i] = p[i] /\ r[i] \in linked
               \/ i - n \in 1..m /\ r[i] = o[i - n] /\ r[i] \in M /\ r[i] \notin linked
    <3>1. CASE i \in 1..n
      BY <2>2, <2>3, <3>1
    <3>2. CASE i \notin 1..n
      <4>1. i \in n + 1..n + m /\ i - n \in 1..m
        BY <2>3, <3>2
      <4>. QED  BY <2>1, <2>3, <4>1
    <3>. QED  BY <3>1, <3>2
  <2>6. r[k] \in at \cap linked' /\ sf[r[k]] = s
    <3>1. CASE k \in 1..n /\ r[k] = p[k]
      BY <1>1, <2>2, <3>1
    <3>2. CASE k - n \in 1..m /\ r[k] = o[k - n] /\ r[k] \in M
      BY <1>1, <2>1, <3>2
    <3>. QED  BY <2>4, <2>5, <3>1, <3>2
  <2>7. ASSUME NEW j \in 1..n + m, r[j] = r[k] PROVE j = k
    <3>1. CASE j \in 1..n /\ k \in 1..n /\ r[j] = p[j] /\ r[k] = p[k]
      BY <2>2, <2>7, <3>1
    <3>2. CASE j - n \in 1..m /\ k - n \in 1..m /\ r[j] = o[j - n] /\ r[k] = o[k - n]
      <4>1. j - n = k - n
        BY <2>1, <2>7, <3>2
      <4>. QED  BY <2>3, <2>4, <4>1
    <3>. QED  BY <2>4, <2>5, <2>7, <3>1, <3>2
  <2>. QED  BY <2>3, <2>6, <2>7
<1>. QED  BY <1>2, <1>3 DEF QueueOK

\* Marks and invalidations in the tree as it is after a change.
LEMMA RedrawQueues ==
  ASSUME TreeInv', DrawType, NEW q \in [Surface -> Seq(Elem)], QueueOK(q, linked, attached', surf'),
         NEW R \in SUBSET attached', NEW S \in SUBSET (Surface \cap attached'), Redraw(q, R, S)
  PROVE  /\ QueueInv' /\ queue' \in [Surface -> Seq(Elem)]
         /\ linked' \subseteq Elem /\ invalid' \subseteq Surface
<1>1. /\ attached' \in SUBSET Elem /\ surf' \in [Elem -> Surface \cup {None}]
      /\ \A x \in attached' : surf'[x] \in attached'
  <2>1. /\ kids' \in Next1 /\ attached' = Reach(kids', Win) /\ Win \in Elem
        /\ surf' \in [Elem -> Surface \cup {None}] /\ surf'[Win] = Win
    BY ConstantsHold DEF TreeInv, TreeOK, Forest, Constants
  <2>2. attached' \in SUBSET Elem /\ Win \in attached'
    BY <2>1, ReachFacts
  <2>3. TreeOK(kids', parent', attached', surf', styled')
    BY DEF TreeInv
  <2>4. \A x \in attached' : x # Win => surf'[x] \in attached'
    BY <2>3, SurfAbove
  <2>. QED  BY <2>1, <2>2, <2>4
<1>. DEFINE marks == [e \in Elem |-> Marked(surf', e)]
<1>2. \A e \in attached' : \A x \in Marked(surf', e) : x \in attached' /\ x \notin linked
  BY <1>1, MarkFacts
<1>3. PICK A \in SUBSET R, I \in SUBSET S :
        /\ Join(q, surf', (UNION {marks[e] : e \in A}) \cup (UNION {marks[e] : e \in I}))
        /\ invalid' = invalid \cup I
  <2>1. PICK A \in SUBSET {e \in R : marks[e] # {}}, I \in SUBSET S :
          /\ Join(q, surf', (UNION {marks[e] : e \in A}) \cup (UNION {marks[e] : e \in I}))
          /\ invalid' = invalid \cup I
    <3>. HIDE DEF marks
    <3>. QED  BY DEF Redraw, marks
  <2>2. A \in SUBSET R
    OBVIOUS
  <2>. QED  BY <2>1, <2>2
<1>. DEFINE M == (UNION {marks[e] : e \in A}) \cup (UNION {marks[e] : e \in I})
<1>4. M \in SUBSET attached' /\ \A x \in M : surf'[x] \in attached' /\ x \notin linked
  <2>1. \A e \in A \cup I : e \in Elem /\ e \in attached' /\ marks[e] = Marked(surf', e)
    BY <1>1
  <2>. HIDE DEF marks
  <2>2. ASSUME NEW x \in M PROVE x \in attached' /\ x \notin linked
    <3>1. PICK e \in A \cup I : x \in marks[e]
      OBVIOUS
    <3>. QED  BY <1>2, <2>1, <3>1
  <2>. HIDE DEF M
  <2>. QED  BY <1>1, <2>2
<1>5. Join(q, surf', M)
  BY <1>3
<1>. HIDE DEF M
<1>6. QueueOK(queue', linked', attached', surf')
  BY <1>1, <1>4, <1>5, JoinQueues
<1>7. queue' \in [Surface -> Seq(Elem)] /\ linked' = linked \cup M
  <2>1. M \in SUBSET Elem
    BY <1>1, <1>4
  <2>. QED  BY <1>5, <2>1, JoinFacts
<1>. QED  BY <1>1, <1>3, <1>4, <1>6, <1>7 DEF QueueInv, DrawType

\* A mark in the tree as it is.
LEMMA MarkQueues ==
  ASSUME TreeInv, DrawType, QueueInv, NEW e \in attached, MarkDirty(e)
  PROVE  /\ QueueOK(queue', linked', attached, surf)
         /\ queue' \in [Surface -> Seq(Elem)] /\ linked' \subseteq Elem
<1>1. /\ attached \in SUBSET Elem /\ surf \in [Elem -> Surface \cup {None}]
      /\ \A x \in attached : surf[x] \in attached
  <2>1. /\ kids \in Next1 /\ attached = Reach(kids, Win) /\ Win \in Elem
        /\ surf \in [Elem -> Surface \cup {None}] /\ surf[Win] = Win
    BY ConstantsHold DEF TreeInv, TreeOK, Forest, Constants
  <2>2. attached \in SUBSET Elem /\ Win \in attached
    BY <2>1, ReachFacts
  <2>3. \A x \in attached : x # Win => surf[x] \in attached
    BY SurfAbove DEF TreeInv
  <2>. QED  BY <2>1, <2>2, <2>3
<1>. DEFINE M == Marked(surf, e)
<1>2. M \in SUBSET attached /\ \A x \in M : surf[x] \in attached /\ x \notin linked
  BY <1>1, MarkFacts
<1>3. Join(queue, surf, M)
  BY DEF MarkDirty
<1>. HIDE DEF M
<1>4. queue \in [Surface -> Seq(Elem)] /\ QueueOK(queue, linked, attached, surf)
  BY DEF DrawType, QueueInv
<1>5. QueueOK(queue', linked', attached, surf)
  BY <1>1, <1>2, <1>3, <1>4, JoinQueues
<1>6. queue' \in [Surface -> Seq(Elem)] /\ linked' = linked \cup M
  <2>1. M \in SUBSET Elem
    BY <1>1, <1>2
  <2>. QED  BY <1>3, <1>4, <2>1, JoinFacts
<1>. QED  BY <1>1, <1>2, <1>5, <1>6 DEF DrawType

\* A frame empties the queues of the window.
LEMMA FrameQueues ==
  ASSUME DrawType, QueueInv, Frame
  PROVE  QueueInv'
<1>1. /\ queue' = [s \in Surface |-> IF s \in attached THEN << >> ELSE queue[s]]
      /\ attached' = attached /\ surf' = surf
  BY DEF Frame, tree
<1>2. \A s \in Surface \ attached : queue[s] = << >>
  BY DEF QueueInv, QueueOK
<1>3. \A s \in Surface : queue'[s] = << >>
  BY <1>1, <1>2
<1>. QED  BY <1>1, <1>3 DEF QueueInv, QueueOK

\* What a step of the tree does to it, when it is below the window.
LEMMA AddedBelow ==
  ASSUME TreeInv, NEW self \in attached, NEW child \in Elem, rtb_elem_add_child(self, child)
  PROVE  /\ attached' = attached \cup Reach(kids, child)
         /\ attached \cap Reach(kids, child) = {}
         /\ Reach(kids, child) \subseteq Elem /\ attached \subseteq Elem
         /\ \A x \in attached : surf'[x] = surf[x]
         /\ \A a \in Elem : Reach(kids', a) = IF self \in Reach(kids, a) THEN Reach(kids, a) \cup Reach(kids, child)
                                              ELSE Reach(kids, a)
<1>1. /\ Forest(kids) /\ kids \in Next1 /\ attached = Reach(kids, Win) /\ Win \in Elem
      /\ surf \in [Elem -> Surface \cup {None}]
  BY ConstantsHold DEF TreeInv, TreeOK, Forest, Constants
<1>2. attached \subseteq Elem /\ self \in Elem
  BY <1>1, ReachFacts
<1>3. Adds(kids, self, child) /\ kids' = Plus(kids, self, child)
  BY <1>2 DEF rtb_elem_add_child, Loose, Adds, Plus, Subtree
<1>4. Reach(kids', child) = Reach(kids, child)
  BY <1>1, <1>3, AddReach
<1>5. \A a \in Elem : Reach(kids', a) = IF self \in Reach(kids, a) THEN Reach(kids, a) \cup Reach(kids, child)
                                        ELSE Reach(kids, a)
  BY <1>1, <1>3, AddReach
<1>6. attached \cap Reach(kids, child) = {}
  BY <1>1, <1>3, NewIsNew
<1>7. Attach(self, child)
  BY DEF rtb_elem_add_child
<1>8. attached' = attached \cup Reach(kids, child)
  BY <1>4, <1>7 DEF Attach, Subtree
<1>. DEFINE Sf(e) == AttachedSurf(kids', self, child, e)
<1>9. surf' = [e \in Elem |-> IF e \in Reach(kids', child) THEN Sf(e) ELSE surf[e]]
  BY <1>7 DEF Attach, Subtree
<1>. HIDE DEF Sf
<1>10. \A x \in attached : surf'[x] = surf[x]
  BY <1>2, <1>4, <1>6, <1>9
<1>11. Reach(kids, child) \subseteq Elem
  BY <1>1, ReachFacts
<1>. QED  BY <1>2, <1>5, <1>6, <1>8, <1>10, <1>11

LEMMA RemovedBelow ==
  ASSUME TreeInv, NEW self \in attached, NEW child \in Elem, rtb_elem_remove_child(self, child)
  PROVE  /\ attached' = attached \ Reach(kids, child)
         /\ child \in attached /\ child \in kids[self] /\ child # Win /\ self \in Elem
         /\ child \in Reach(kids, child) /\ self \notin Reach(kids, child) /\ Win \notin Reach(kids, child)
         /\ Reach(kids, child) \subseteq attached /\ attached \subseteq Elem
         /\ \A x \in attached' : surf'[x] = surf[x]
         /\ \A a \in Elem : Reach(kids', a) = IF self \in Reach(kids, a) THEN Reach(kids, a) \ Reach(kids, child)
                                              ELSE Reach(kids, a)
<1>1. /\ Forest(kids) /\ kids \in Next1 /\ attached = Reach(kids, Win) /\ Win \in Elem
      /\ surf \in [Elem -> Surface \cup {None}]
  BY ConstantsHold DEF TreeInv, TreeOK, Forest, Constants
<1>2. attached \subseteq Elem /\ self \in Elem
  BY <1>1, ReachFacts
<1>3. child \in kids[self] /\ kids' = Minus(kids, self, child)
  BY DEF rtb_elem_remove_child, Minus
<1>4. Win \notin Reach(kids, child) /\ self \notin Reach(kids, child)
  BY <1>1, <1>2, <1>3, RemoveReach
<1>5. \A a \in Elem : Reach(kids', a) = IF self \in Reach(kids, a) THEN Reach(kids, a) \ Reach(kids, child)
                                        ELSE Reach(kids, a)
  BY <1>1, <1>2, <1>3, RemoveReach
<1>6. child \in attached /\ child \in Reach(kids, child)
  BY <1>1, <1>2, <1>3, ReachFacts
<1>7. Reach(kids, child) \subseteq attached /\ child # Win
  BY <1>1, <1>4, <1>6, ReachOn
<1>8. /\ attached' = attached \ Reach(kids, child)
      /\ surf' = [e \in Elem |-> IF e \in Reach(kids, child) THEN None ELSE surf[e]]
  BY DEF rtb_elem_remove_child, Detach, Subtree
<1>9. \A x \in attached' : surf'[x] = surf[x]
  BY <1>2, <1>8
<1>. QED  BY <1>2, <1>3, <1>4, <1>5, <1>6, <1>7, <1>8, <1>9

LEMMA AddQueues ==
  ASSUME TreeInv, DrawType, QueueInv, NEW self \in Elem, NEW child \in Elem, rtb_elem_add_child(self, child)
  PROVE  /\ QueueInv' /\ queue' \in [Surface -> Seq(Elem)]
         /\ linked' \subseteq Elem /\ invalid' \subseteq Surface
<1>1. CASE self \notin attached
  <2>1. UNCHANGED << queue, linked, invalid, attached, surf >>
    BY <1>1 DEF rtb_elem_add_child, drawing
  <2>. QED  BY <2>1 DEF QueueInv, DrawType
<1>2. CASE self \in attached
  <2>1. /\ \A s \in Surface \ attached : queue[s] = << >>
        /\ \A s \in Surface \cap attached : \A k \in 1..Len(queue[s]) :
             /\ queue[s][k] \in attached \cap linked /\ surf[queue[s][k]] = s
             /\ \A j \in 1..Len(queue[s]) : queue[s][j] = queue[s][k] => j = k
    BY DEF QueueInv, QueueOK
  <2>2. attached \subseteq attached' /\ \A x \in attached : surf'[x] = surf[x]
    BY <1>2, AddedBelow
  <2>3. ASSUME NEW s \in Surface \cap attached', NEW k \in 1..Len(queue[s])
        PROVE  /\ queue[s][k] \in attached' \cap linked /\ surf'[queue[s][k]] = s
               /\ \A j \in 1..Len(queue[s]) : queue[s][j] = queue[s][k] => j = k
    <3>1. s \in attached
      <4>1. s \notin attached => queue[s] = << >>
        BY <2>1
      <4>. QED  BY <2>3, <4>1
    <3>. QED  BY <2>1, <2>2, <3>1
  <2>4. QueueOK(queue, linked, attached', surf')
    BY <2>1, <2>2, <2>3 DEF QueueOK
  <2>5. TreeInv'
    BY TreeNext DEF Next
  <2>6. Redraw(queue, attached', attached' \cap Surface) /\ queue \in [Surface -> Seq(Elem)]
    BY <1>2 DEF rtb_elem_add_child, DrawType
  <2>7. attached' \cap Surface \in SUBSET (Surface \cap attached')
    OBVIOUS
  <2>. QED  BY <2>4, <2>5, <2>6, <2>7, RedrawQueues
<1>. QED  BY <1>1, <1>2

LEMMA RemoveQueues ==
  ASSUME TreeInv, DrawType, QueueInv, NEW self \in Elem, NEW child \in Elem, rtb_elem_remove_child(self, child)
  PROVE  /\ QueueInv' /\ queue' \in [Surface -> Seq(Elem)]
         /\ linked' \subseteq Elem /\ invalid' \subseteq Surface
<1>1. CASE self \notin attached
  <2>1. UNCHANGED << queue, linked, invalid, attached, surf >>
    BY <1>1 DEF rtb_elem_remove_child, drawing
  <2>. QED  BY <2>1 DEF QueueInv, DrawType
<1>2. CASE self \in attached
  <2>. DEFINE old == Reach(kids, child)
              home == surf[child]
              q == queue[home]
              u == Unlinked(child)
  <2>1. /\ attached' = attached \ old /\ child \in attached /\ child # Win /\ child \in old
        /\ old \subseteq attached /\ attached \subseteq Elem
        /\ \A x \in attached' : surf'[x] = surf[x]
    BY <1>2, RemovedBelow
  <2>2. /\ \A s \in Surface : \A k \in 1..Len(queue[s]) : queue[s][k] \in old => queue[s][k] = child
        /\ child \in linked => QueuedBefore(child)
    BY <1>2 DEF rtb_elem_remove_child, Removable, Subtree, Queued
  <2>3. /\ \A s \in Surface \ attached : queue[s] = << >>
        /\ \A s \in Surface \cap attached : \A k \in 1..Len(queue[s]) :
             /\ queue[s][k] \in attached \cap linked /\ surf[queue[s][k]] = s
             /\ \A j \in 1..Len(queue[s]) : queue[s][j] = queue[s][k] => j = k
    BY DEF QueueInv, QueueOK
  <2>4. home \in Surface /\ home \in attached /\ child \in Reach(kids, home) /\ home # child
    BY <2>1, SurfAbove DEF TreeInv
  <2>5. kids \in Next1 /\ Acyclic(kids)
    BY DEF TreeInv, TreeOK, Forest
  <2>6. home \notin old
    BY <2>1, <2>4, <2>5, Antisymmetric
  <2>7. q \in Seq(Elem) /\ queue \in [Surface -> Seq(Elem)]
    BY <2>4 DEF DrawType
  <2>8. PICK r \in Seq(Elem) : /\ u = [queue EXCEPT ![home] = r]
                               /\ \A k \in 1..Len(r) : r[k] # child \/ ~QueuedBefore(child)
                               /\ \A k \in 1..Len(r) : \E j \in 1..Len(q) : r[k] = q[j]
                               /\ \A k \in 1..Len(r) : r[k] \in attached \cap linked /\ surf[r[k]] = home
                               /\ \A k, j \in 1..Len(r) : r[j] = r[k] => j = k
    <3>1. CASE ~QueuedBefore(child)
      <4>1. u = [queue EXCEPT ![home] = q]
        BY <2>7, <3>1 DEF Unlinked
      <4>2. \A k \in 1..Len(q) : /\ q[k] \in attached \cap linked /\ surf[q[k]] = home
                                /\ \A j \in 1..Len(q) : q[j] = q[k] => j = k
        BY <2>3, <2>4
      <4>. QED  BY <2>7, <3>1, <4>1, <4>2
    <3>2. CASE QueuedBefore(child)
      <4>. DEFINE n == Len(q)
                  i == CHOOSE k \in 1..n : q[k] = child
                  r == RemoveAt(q, i)
      <4>0. n \in Nat
        BY <2>7
      <4>1. \E k \in 1..n : q[k] = child
        <5>1. \E k \in 1..n - 1 : q[k] = child
          BY <3>2 DEF QueuedBefore
        <5>. HIDE DEF n, q
        <5>. QED  BY <4>0, <5>1
      <4>2. i \in 1..n /\ q[i] = child
        BY <4>1
      <4>3. u = [queue EXCEPT ![home] = r]
        BY <3>2 DEF Unlinked
      <4>. HIDE DEF i
      <4>4. r \in Seq(Elem) /\ Len(r) = n - 1 /\ \A k \in 1..n - 1 : r[k] = IF k < i THEN q[k] ELSE q[k + 1]
        BY <2>7, <4>2, RemoveAtFacts
      <4>5. /\ \A k \in 1..n : q[k] \in attached \cap linked /\ surf[q[k]] = home
            /\ \A k, j \in 1..n : q[j] = q[k] => j = k
        BY <2>3, <2>4
      <4>. HIDE DEF r, n, q
      <4>6. ASSUME NEW k \in 1..n - 1
            PROVE  \E m \in 1..n : m # i /\ r[k] = q[m] /\ m = IF k < i THEN k ELSE k + 1
        BY <4>0, <4>2, <4>4
      <4>7. \A k \in 1..n - 1 : r[k] # child /\ r[k] \in attached \cap linked /\ surf[r[k]] = home
        BY <4>2, <4>5, <4>6
      <4>8. ASSUME NEW k \in 1..n - 1, NEW j \in 1..n - 1, r[j] = r[k] PROVE j = k
        <5>1. PICK m \in 1..n : m # i /\ r[k] = q[m] /\ m = IF k < i THEN k ELSE k + 1
          BY <4>6
        <5>2. PICK l \in 1..n : l # i /\ r[j] = q[l] /\ l = IF j < i THEN j ELSE j + 1
          BY <4>6
        <5>3. l = m
          BY <4>5, <4>8, <5>1, <5>2
        <5>. QED  BY <4>0, <4>2, <5>1, <5>2, <5>3
      <4>9. \A k \in 1..Len(r) : \E j \in 1..Len(q) : r[k] = q[j]
        BY <4>4, <4>6 DEF n
      <4>. QED  BY <4>3, <4>4, <4>7, <4>8, <4>9
    <3>. QED  BY <3>1, <3>2
  <2>9. u \in [Surface -> Seq(Elem)] /\ u[home] = r /\ \A s \in Surface : s # home => u[s] = queue[s]
    BY <2>4, <2>7, <2>8
  <2>. HIDE DEF q, home, old, u
  \* A surface that is removed had nothing queued.
  <2>10. ASSUME NEW s \in Surface, s \in old PROVE u[s] = << >>
    <3>1. s \in attached /\ s # home /\ s \in Elem
      BY <2>1, <2>6, <2>10
    <3>2. ASSUME NEW k \in 1..Len(queue[s]) PROVE FALSE
      <4>. DEFINE x == queue[s][k]
      <4>1. x \in attached /\ x \in linked /\ surf[x] = s
        BY <2>3, <3>1
      <4>. HIDE DEF x
      <4>2. x # Win
        BY <2>5, <2>10, <3>1, <4>1, <1>2, RemovedBelow DEF TreeInv, TreeOK, old
      <4>3. x \in Reach(kids, s) /\ s # x
        BY <4>1, <4>2, SurfAbove DEF TreeInv
      <4>4. x \in old
        BY <2>5, <2>10, <4>3, ReachOn DEF old
      <4>5. x = child
        BY <2>2, <4>4 DEF x
      <4>. QED  BY <2>1, <2>10, <3>1, <4>1, <4>5 DEF home
    <3>3. queue[s] \in Seq(Elem)
      BY <2>7
    <3>4. queue[s] = << >>
      <4>. DEFINE p == queue[s]
      <4>1. p \in Seq(Elem) /\ \A k \in 1..Len(p) : FALSE
        BY <3>2, <3>3
      <4>. HIDE DEF p
      <4>2. p = << >>
        BY <4>1
      <4>. QED  BY <4>2 DEF p
    <3>. QED  BY <2>9, <3>1, <3>4
  <2>11. \A s \in Surface \ attached' : u[s] = << >>
    BY <2>1, <2>3, <2>4, <2>9, <2>10
  <2>12. ASSUME NEW s \in Surface \cap attached', NEW k \in 1..Len(u[s])
         PROVE  /\ u[s][k] \in attached' \cap linked /\ surf'[u[s][k]] = s
                /\ \A j \in 1..Len(u[s]) : u[s][j] = u[s][k] => j = k
    <3>1. s \in attached /\ s \notin old
      BY <2>1
    <3>2. /\ u[s][k] \in attached \cap linked /\ surf[u[s][k]] = s
          /\ \A j \in 1..Len(u[s]) : u[s][j] = u[s][k] => j = k
      BY <2>3, <2>8, <2>9, <2>12, <3>1
    <3>3. u[s][k] \notin old
      <4>1. u[s][k] \in old => u[s][k] = child /\ QueuedBefore(child)
        <5>1. \E j \in 1..Len(queue[s]) : u[s][k] = queue[s][j]
          BY <2>8, <2>9, <2>12, <3>1 DEF q
        <5>. QED  BY <2>2, <3>1, <3>2, <5>1
      <4>2. u[s][k] = child => s = home
        BY <3>2 DEF home
      <4>. QED  BY <2>8, <2>9, <2>12, <4>1, <4>2
    <3>. QED  BY <2>1, <2>2, <3>2, <3>3
  <2>13. QueueOK(u, linked, attached', surf')
    BY <2>11, <2>12 DEF QueueOK
  <2>14. TreeInv'
    BY TreeNext DEF Next
  <2>15. Redraw(u, {}, Subtree(kids', self) \cap Surface)
    BY <1>2 DEF rtb_elem_remove_child, u
  <2>16. Subtree(kids', self) \cap Surface \in SUBSET (Surface \cap attached')
    <3>1. /\ kids' \in Next1 /\ attached' = Reach(kids', Win) /\ Win \in Elem
      BY <2>14, ConstantsHold DEF TreeInv, TreeOK, Forest, Constants
    <3>2. self \in attached'
      BY <1>2, <2>1, RemovedBelow DEF old
    <3>. QED  BY <3>1, <3>2, ReachOn DEF Subtree
  <2>. QED  BY <2>9, <2>13, <2>14, <2>15, <2>16, RedrawQueues
<1>. QED  BY <1>1, <1>2

-------------------------------------------------------------------------------
(***************************************************************************)
(* What the window refers to                                               *)
(***************************************************************************)
\* The pointer is in the element underneath it and what that one is in, and
\* in nothing else of the window.
PointOK(ks, at, un, in, ta, fo) ==
  /\ un \in at /\ {ta, fo} \subseteq at \cup {None} /\ in \subseteq Elem
  /\ Above(ks, at, un) \ {Win} \subseteq in
  /\ in \cap at \subseteq Above(ks, at, un)

PointInv == PointOK(kids, attached, under, inside, target, focus)

LEMMA AddPoint ==
  ASSUME TreeInv, PointInv, NEW self \in Elem, NEW child \in Elem, rtb_elem_add_child(self, child)
  PROVE  PointInv'
<1>. DEFINE new == Reach(kids, child)
<1>1. /\ Forest(kids) /\ kids \in Next1 /\ attached = Reach(kids, Win) /\ Win \in Elem
      /\ attached \subseteq Elem
  BY ConstantsHold, ReachFacts DEF TreeInv, TreeOK, Forest, Constants
<1>2. UNCHANGED << under, inside, target, focus >> /\ inside \cap new = {}
  BY DEF rtb_elem_add_child, pointing, Addable, Subtree
<1>3. /\ under \in attached /\ {target, focus} \subseteq attached \cup {None} /\ inside \subseteq Elem
      /\ Above(kids, attached, under) \ {Win} \subseteq inside
      /\ inside \cap attached \subseteq Above(kids, attached, under)
  BY DEF PointInv, PointOK
<1>4. \A a \in attached : Reach(kids, a) \subseteq attached
  BY <1>1, ReachOn
<1>5. CASE self \notin attached
  <2>1. attached' = attached
    BY <1>5 DEF rtb_elem_add_child
  <2>2. Adds(kids, self, child) /\ kids' = Plus(kids, self, child)
    BY DEF rtb_elem_add_child, Loose, Adds, Plus, Subtree
  <2>3. \A a \in Elem : Reach(kids', a) = IF self \in Reach(kids, a) THEN Reach(kids, a) \cup new ELSE Reach(kids, a)
    BY <1>1, <2>2, AddReach
  <2>4. \A a \in attached : Reach(kids', a) = Reach(kids, a)
    BY <1>1, <1>4, <1>5, <2>3
  <2>5. Above(kids', attached, under) = Above(kids, attached, under)
    BY <2>4 DEF Above
  <2>6. PointOK(kids', attached, under, inside, target, focus)
    BY <1>3, <2>5 DEF PointOK
  <2>. QED  BY <1>2, <2>1, <2>6 DEF PointInv
<1>6. CASE self \in attached
  <2>1. /\ attached' = attached \cup new
        /\ attached \cap new = {}
        /\ new \subseteq Elem
        /\ \A a \in Elem : Reach(kids', a) = IF self \in Reach(kids, a) THEN Reach(kids, a) \cup new ELSE Reach(kids, a)
    BY <1>6, AddedBelow
  <2>2. \A a \in new : Reach(kids, a) \subseteq new
    BY <1>1, ReachOn
  <2>. HIDE DEF new
  <2>3. Above(kids', attached', under) = Above(kids, attached, under)
    <3>1. \A a \in attached : under \in Reach(kids', a) <=> under \in Reach(kids, a)
      BY <1>1, <1>3, <2>1
    <3>2. \A a \in new : under \notin Reach(kids', a)
      BY <1>3, <1>6, <2>1, <2>2
    <3>. QED  BY <2>1, <3>1, <3>2 DEF Above
  <2>4. PointOK(kids', attached', under, inside, target, focus)
    BY <1>2, <1>3, <2>1, <2>3 DEF PointOK
  <2>. QED  BY <1>2, <2>4 DEF PointInv
<1>. QED  BY <1>5, <1>6

LEMMA RemovePoint ==
  ASSUME TreeInv, PointInv, NEW self \in Elem, NEW child \in Elem, rtb_elem_remove_child(self, child)
  PROVE  PointInv'
<1>. DEFINE old == Reach(kids, child)
<1>1. /\ Forest(kids) /\ kids \in Next1 /\ Unique(kids) /\ attached = Reach(kids, Win) /\ Win \in Elem
      /\ attached \subseteq Elem
  BY ConstantsHold, ReachFacts DEF TreeInv, TreeOK, Forest, Constants
<1>2. UNCHANGED << inside, focus >>
  BY DEF rtb_elem_remove_child, pointing
<1>3. /\ under \in attached /\ {target, focus} \subseteq attached \cup {None} /\ inside \subseteq Elem
      /\ Above(kids, attached, under) \ {Win} \subseteq inside
      /\ inside \cap attached \subseteq Above(kids, attached, under)
  BY DEF PointInv, PointOK
<1>4. \A a \in attached : Reach(kids, a) \subseteq attached
  BY <1>1, ReachOn
<1>5. CASE self \notin attached
  <2>1. UNCHANGED << attached, under, target >>
    BY <1>5 DEF rtb_elem_remove_child, pointing
  <2>2. child \in kids[self] /\ kids' = Minus(kids, self, child)
    BY DEF rtb_elem_remove_child, Minus
  <2>3. \A a \in Elem : Reach(kids', a) = IF self \in Reach(kids, a) THEN Reach(kids, a) \ old ELSE Reach(kids, a)
    BY <1>1, <2>2, RemoveReach
  <2>4. \A a \in attached : Reach(kids', a) = Reach(kids, a)
    BY <1>1, <1>4, <1>5, <2>3
  <2>5. Above(kids', attached, under) = Above(kids, attached, under)
    BY <2>4 DEF Above
  <2>6. PointOK(kids', attached, under, inside, target, focus)
    BY <1>3, <2>5 DEF PointOK
  <2>. QED  BY <1>2, <2>1, <2>6 DEF PointInv
<1>6. CASE self \in attached
  <2>1. /\ attached' = attached \ old
        /\ child \in attached /\ child \in kids[self] /\ child # Win
        /\ child \in old /\ self \notin old /\ Win \notin old
        /\ old \subseteq attached
        /\ \A a \in Elem : Reach(kids', a) = IF self \in Reach(kids, a) THEN Reach(kids, a) \ old ELSE Reach(kids, a)
    BY <1>6, RemovedBelow
  <2>2. Removable(child) /\ Repaired(self, child)
    BY <1>6 DEF rtb_elem_remove_child
  <2>3. focus \notin old /\ (target \in old => child \in inside)
    BY <2>2 DEF Removable, Subtree
  <2>4. child \in Elem /\ \A a \in attached : child \in Reach(kids, a) => old \subseteq Reach(kids, a)
    BY <1>1, <2>1, ReachOn
  <2>5. \A a \in attached : self \in Reach(kids, a) => child \in Reach(kids, a)
    BY <1>1, <2>1, ReachFacts
  <2>6. \A a \in attached : a \in old => Reach(kids, a) \subseteq old
    BY <1>1, <2>4, ReachOn
  \* What does not leave has the same above it as before.
  <2>7. ASSUME NEW e \in attached, e \notin old PROVE Above(kids', attached', e) = Above(kids, attached, e)
    BY <1>1, <2>1, <2>6, <2>7 DEF Above
  <2>8. CASE child \in inside
    <3>1. under' = self /\ target' = (IF rtb_elem_is_in_tree(child, target) THEN self ELSE target)
      BY <2>2, <2>8 DEF Repaired
    <3>2. child \in Above(kids, attached, under) /\ under \in old
      BY <1>3, <2>1, <2>8 DEF Above
    <3>3. target' \in attached' \cup {None}
      <4>1. CASE target = None
        BY <3>1, <4>1 DEF rtb_elem_is_in_tree
      <4>2. CASE target # None
        <5>1. target \in attached
          BY <1>3, <4>2
        <5>2. rtb_elem_is_in_tree(child, target) <=> target \in old
          BY <2>1, <4>2, <5>1, UpwardFacts DEF rtb_elem_is_in_tree, Above
        <5>. QED  BY <1>6, <2>1, <3>1, <5>1, <5>2
      <4>. QED  BY <4>1, <4>2
    <3>4. \A a \in attached : self \in Reach(kids, a) => under \in Reach(kids, a)
      BY <2>4, <2>5, <3>2
    <3>5. ASSUME NEW x \in attached, x \in inside, x \notin old PROVE self \in Reach(kids, x)
      <4>1. x \in Elem /\ under \in Reach(kids, x)
        BY <1>1, <1>3, <3>5 DEF Above
      <4>2. x \in old \/ child \in Reach(kids, x)
        BY <1>1, <2>4, <3>2, <4>1, Comparable
      <4>3. x # child
        BY <2>1, <3>5
      <4>. QED  BY <1>1, <2>1, <3>5, <4>1, <4>2, <4>3, ReachUp
    <3>6. Above(kids', attached', self) = Above(kids, attached, self)
      BY <1>6, <2>1, <2>7
    <3>7. Above(kids, attached, self) \ {Win} \subseteq inside
      BY <1>3, <3>4 DEF Above
    <3>8. inside \cap attached' \subseteq Above(kids, attached, self)
      BY <2>1, <3>5 DEF Above
    <3>9. focus \in attached' \cup {None}
      BY <1>3, <2>1, <2>3
    <3>10. PointOK(kids', attached', self, inside, target', focus)
      BY <1>3, <1>6, <2>1, <3>3, <3>6, <3>7, <3>8, <3>9 DEF PointOK
    <3>. QED  BY <1>2, <3>1, <3>10 DEF PointInv
  <2>9. CASE child \notin inside
    <3>1. under' = under /\ target' = target
      BY <2>2, <2>9 DEF Repaired
    <3>2. under \notin old
      BY <1>3, <2>1, <2>9 DEF Above
    <3>3. Above(kids', attached', under) = Above(kids, attached, under)
      BY <1>3, <2>7, <3>2
    <3>4. PointOK(kids', attached', under, inside, target, focus)
      BY <1>3, <2>1, <2>3, <2>9, <3>2, <3>3 DEF PointOK
    <3>. QED  BY <1>2, <3>1, <3>4 DEF PointInv
  <2>. QED  BY <2>8, <2>9
<1>. QED  BY <1>5, <1>6

LEMMA MovePoint ==
  ASSUME TreeInv, PointInv, NEW e \in Elem, MoveTo(e)
  PROVE  PointInv'
<1>1. /\ under \in attached /\ {target, focus} \subseteq attached \cup {None} /\ inside \subseteq Elem
      /\ Above(kids, attached, under) \ {Win} \subseteq inside
      /\ inside \cap attached \subseteq Above(kids, attached, under)
  BY DEF PointInv, PointOK
<1>2. e \in attached
  BY DEF MoveTo
<1>3. Upward(e) = Above(kids, attached, e) /\ Upward(under) = Above(kids, attached, under)
  BY <1>1, <1>2, UpwardFacts
<1>4. /\ UNCHANGED << kids, attached, target, focus >> /\ under' = e
      /\ inside' = (inside \ (Upward(under) \ Upward(e))) \cup (Upward(e) \ Upward(under))
  BY DEF MoveTo, tree
<1>5. Above(kids, attached, e) \subseteq Elem
  BY <1>2, <1>3, UpwardAttached
<1>6. PointOK(kids, attached, e, inside', target, focus)
  BY <1>1, <1>2, <1>3, <1>4, <1>5 DEF PointOK
<1>. QED  BY <1>4, <1>6 DEF PointInv

-------------------------------------------------------------------------------
(***************************************************************************)
(* The theorems                                                            *)
(***************************************************************************)
ReferencesInv == TreeInv /\ DrawType /\ QueueInv /\ PointInv

LEMMA DrawTypeNext ==
  ASSUME TreeInv, DrawType, QueueInv, [Next]_vars
  PROVE  DrawType'
<1>1. styled \subseteq Elem /\ queue \in [Surface -> Seq(Elem)] /\ linked \subseteq Elem /\ invalid \subseteq Surface
  BY DEF DrawType
<1>2. kids \in Next1 /\ Forest(kids) /\ attached \subseteq Elem
  BY ConstantsHold, ReachFacts DEF TreeInv, TreeOK, Forest, Constants
<1>4. CASE Frame
  <2>1. queue' = [s \in Surface |-> IF s \in attached THEN << >> ELSE queue[s]]
    BY <1>4 DEF Frame
  <2>2. queue' \in [Surface -> Seq(Elem)]
    <3>1. << >> \in Seq(Elem)
      OBVIOUS
    <3>. QED  BY <1>1, <2>1, <3>1
  <2>3. linked' \subseteq linked /\ invalid' \subseteq invalid /\ styled' = styled
    BY <1>4 DEF Frame, tree
  <2>. QED  BY <1>1, <2>2, <2>3 DEF DrawType
<1>5. ASSUME NEW e \in Elem, Ask(e) PROVE DrawType'
  <2>1. e \in attached /\ MarkDirty(e) /\ UNCHANGED << styled, invalid >>
    BY <1>5 DEF Ask, tree
  <2>. QED  BY <1>1, <2>1, MarkQueues DEF DrawType
<1>6. ASSUME NEW self \in Elem, NEW child \in Elem, rtb_elem_add_child(self, child) PROVE DrawType'
  <2>1. CASE self \notin attached
    BY <1>1, <1>6, <2>1 DEF rtb_elem_add_child, drawing, DrawType
  <2>2. CASE self \in attached
    <3>1. queue' \in [Surface -> Seq(Elem)] /\ linked' \subseteq Elem /\ invalid' \subseteq Surface
      BY <1>6, AddQueues
    <3>3. styled' \subseteq Elem
      <4>1. styled' = styled \cup Subtree(kids', self)
        BY <1>6, <2>2 DEF rtb_elem_add_child
      <4>2. Subtree(kids', self) \subseteq Elem
        BY DEF Subtree, Reach
      <4>. QED  BY <1>1, <4>1, <4>2
    <3>. QED  BY <3>1, <3>3 DEF DrawType
  <2>. QED  BY <2>1, <2>2
<1>7. ASSUME NEW self \in Elem, NEW child \in Elem, rtb_elem_remove_child(self, child) PROVE DrawType'
  <2>1. queue' \in [Surface -> Seq(Elem)] /\ linked' \subseteq Elem /\ invalid' \subseteq Surface
    BY <1>7, RemoveQueues
  <2>2. styled' \subseteq Elem
    BY <1>1, <1>7 DEF rtb_elem_remove_child, Detach
  <2>. QED  BY <1>1, <2>1, <2>2 DEF DrawType
<1>8. CASE UNCHANGED << styled, queue, linked, invalid >>
  BY <1>8 DEF DrawType
<1>9. \/ \E e \in Elem : Ask(e)
      \/ \E p, c \in Elem : rtb_elem_add_child(p, c) \/ rtb_elem_remove_child(p, c)
      \/ Frame \/ UNCHANGED << styled, queue, linked, invalid >>
  BY DEF Next, vars, tree, drawing, MoveTo, Focus, Press, Release
<1>. QED  BY <1>4, <1>5, <1>6, <1>7, <1>8, <1>9

LEMMA QueueNext ==
  ASSUME TreeInv, DrawType, QueueInv, [Next]_vars
  PROVE  QueueInv'
<1>1. ASSUME NEW e \in Elem, Ask(e) PROVE QueueInv'
  <2>1. e \in attached /\ MarkDirty(e) /\ UNCHANGED << attached, surf >>
    BY <1>1 DEF Ask, tree
  <2>2. QueueOK(queue', linked', attached, surf)
    BY <2>1, MarkQueues
  <2>. QED  BY <2>1, <2>2 DEF QueueInv
<1>2. CASE Frame
  BY <1>2, FrameQueues
<1>3. ASSUME NEW p \in Elem, NEW c \in Elem, rtb_elem_add_child(p, c) PROVE QueueInv'
  BY <1>3, AddQueues
<1>4. ASSUME NEW p \in Elem, NEW c \in Elem, rtb_elem_remove_child(p, c) PROVE QueueInv'
  BY <1>4, RemoveQueues
<1>5. CASE UNCHANGED << queue, linked, attached, surf >>
  BY <1>5 DEF QueueInv
<1>6. \/ \E e \in Elem : Ask(e)
      \/ \E p, c \in Elem : rtb_elem_add_child(p, c) \/ rtb_elem_remove_child(p, c)
      \/ Frame \/ UNCHANGED << queue, linked, attached, surf >>
  BY DEF Next, vars, tree, drawing, MoveTo, Focus, Press, Release
<1>. QED  BY <1>1, <1>2, <1>3, <1>4, <1>5, <1>6

LEMMA PointNext ==
  ASSUME TreeInv, PointInv, [Next]_vars
  PROVE  PointInv'
<1>1. ASSUME NEW e \in Elem, MoveTo(e) PROVE PointInv'
  BY <1>1, MovePoint
<1>2. ASSUME NEW p \in Elem, NEW c \in Elem, rtb_elem_add_child(p, c) PROVE PointInv'
  BY <1>2, AddPoint
<1>3. ASSUME NEW p \in Elem, NEW c \in Elem, rtb_elem_remove_child(p, c) PROVE PointInv'
  BY <1>3, RemovePoint
<1>4. CASE /\ UNCHANGED << kids, attached, under, inside >>
           /\ target' \in {None, under, target} /\ focus' \in attached \cup {focus}
  <2>1. PointOK(kids, attached, under, inside, target', focus')
    BY <1>4 DEF PointInv, PointOK
  <2>. QED  BY <1>4, <2>1 DEF PointInv
<1>5. \/ \E e \in Elem : MoveTo(e)
      \/ \E p, c \in Elem : rtb_elem_add_child(p, c) \/ rtb_elem_remove_child(p, c)
      \/ /\ UNCHANGED << kids, attached, under, inside >>
         /\ target' \in {None, under, target} /\ focus' \in attached \cup {focus}
  BY DEF Next, vars, tree, pointing, Ask, Focus, Frame, Press, Release
<1>. QED  BY <1>1, <1>2, <1>3, <1>4, <1>5

\* What the tree is, what is queued and what the window refers to hold together.
LEMMA InvariantHolds == Spec => []ReferencesInv
<1>1. Init => ReferencesInv
  <2>. SUFFICES ASSUME Init PROVE ReferencesInv
    OBVIOUS
  <2>1. TreeInv
    BY TreeInit
  <2>2. DrawType /\ \A s \in Surface : queue[s] = << >>
    BY ConstantsHold DEF Init, DrawType, Constants
  <2>3. QueueInv
    BY <2>2 DEF QueueInv, QueueOK
  <2>4. kids \in Next1 /\ attached = {Win} /\ under = Win /\ inside = {} /\ target = None /\ focus = None
    BY <2>1 DEF Init, TreeInv, TreeOK, Forest
  <2>5. Above(kids, attached, under) = {Win}
    BY <2>4, ReachFacts, ConstantsHold DEF Above, Constants
  <2>6. PointInv
    BY <2>4, <2>5 DEF PointInv, PointOK
  <2>. QED  BY <2>1, <2>2, <2>3, <2>6 DEF ReferencesInv
<1>2. ReferencesInv /\ [Next]_vars => ReferencesInv'
  BY TreeNext, DrawTypeNext, QueueNext, PointNext DEF ReferencesInv
<1>. QED  BY <1>1, <1>2, PTL DEF Spec

\* Whatever is assembled, added and removed: what is attached is what the
\* lists lead to from the window (rtb_elem_add_child, rtb_elem_remove_child),
\* parent pointers lead back, and an element draws on the nearest surface
\* above it (attached, child_attached).
THEOREM TreeIsSound == Spec => []TreeSound
<1>1. ReferencesInv => TreeSound
  <2>. SUFFICES ASSUME ReferencesInv PROVE TreeSound
    OBVIOUS
  <2>1. /\ Forest(kids) /\ kids \in Next1 /\ attached = Reach(kids, Win)
        /\ parent \in [Elem -> Elem \cup {None}] /\ surf \in [Elem -> Surface \cup {None}]
        /\ \A p \in attached : \A c \in kids[p] : parent[c] = p
        /\ \A e \in attached \ {Win} :
             surf[e] = (IF parent[e] \in Surface THEN parent[e] ELSE surf[parent[e]]) /\ e \in styled
    BY DEF ReferencesInv, TreeInv, TreeOK, Forest
  <2>2. attached \subseteq Elem
    BY <2>1, ReachFacts, ConstantsHold DEF Constants
  <2>3. TypeOK
    BY <2>1, <2>2 DEF TypeOK, Next1, ReferencesInv, DrawType, PointInv, PointOK
  <2>4. AttachedAsListed
    BY <2>1 DEF AttachedAsListed, Subtree
  <2>5. SurfacesNearest
    BY <2>1 DEF SurfacesNearest
  <2>. QED  BY <2>3, <2>4, <2>5 DEF TreeSound
<1>. QED  BY <1>1, InvariantHolds, PTL

\* Whatever is assembled, added and removed, as the program must do it: the
\* window refers only to what is attached (rtb_elem_remove_child's repairs of
\* element_underneath and of the button targets), queues only what draws where
\* it is queued, and the pointer is inside whatever the element underneath it
\* is in (rtb__mouse_motion).
THEOREM ReferencesAreSound == Spec => []ReferencesSound
<1>1. ReferencesInv => ReferencesSound
  <2>. SUFFICES ASSUME ReferencesInv PROVE ReferencesSound
    OBVIOUS
  <2>1. /\ under \in attached /\ {target, focus} \subseteq attached \cup {None}
        /\ Above(kids, attached, under) \ {Win} \subseteq inside
    BY DEF ReferencesInv, PointInv, PointOK
  <2>2. Upward(under) = Above(kids, attached, under)
    BY <2>1, UpwardFacts DEF ReferencesInv
  <2>3. RefersToAttached /\ InsideUpward
    BY <2>1, <2>2 DEF RefersToAttached, InsideUpward
  <2>4. QueuedAreDrawable
    BY DEF ReferencesInv, QueueInv, QueueOK, QueuedAreDrawable
  <2>. QED  BY <2>3, <2>4 DEF ReferencesSound
<1>. QED  BY <1>1, InvariantHolds, PTL
===============================================================================
