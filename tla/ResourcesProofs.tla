---------------------------- MODULE ResourcesProofs ----------------------------
(***************************************************************************)
(* Theorems about what elements share: descriptors, styles and fonts, for  *)
(* any elements, any types in single inheritance and any list of styles.   *)
(***************************************************************************)
EXTENDS Resources, FiniteSetTheorems, WellFoundedInduction, TLAPS

-------------------------------------------------------------------------------
(***************************************************************************)
(* Types and their supertypes                                              *)
(***************************************************************************)
Base == Head(Chain[Win])

Supers(n) ==
  {m \in Type : \E e \in Elem : \E i, j \in DOMAIN Chain[e] : j < i /\ Chain[e][i] = n /\ Chain[e][j] = m}

Constants ==
  /\ Win \in Elem /\ IsFiniteSet(Elem) /\ MaxAttached \in Nat
  /\ None \notin Address /\ None \notin Descriptor /\ None \notin TextureFont
  /\ \A e \in Elem : Chain[e] \in Seq(Type) /\ Chain[e] # <<>> /\ Chain[e][1] = Base
  /\ \A d, e \in Elem : \A i \in DOMAIN Chain[d], j \in DOMAIN Chain[e] :
       Chain[d][i] = Chain[e][j] => i = j /\ \A k \in 1 .. i : Chain[d][k] = Chain[e][k]

LEMMA ConstantsHold == Constants
BY ResourcesAssumption DEF Constants, Base

LEMMA ChainFacts ==
  ASSUME NEW e \in Elem
  PROVE  /\ Len(Chain[e]) \in Nat /\ Len(Chain[e]) >= 1 /\ DOMAIN Chain[e] = 1 .. Len(Chain[e])
         /\ \A i \in 1 .. Len(Chain[e]) : Chain[e][i] \in Type
         /\ Names(e) = {Chain[e][i] : i \in 1 .. Len(Chain[e])} /\ Names(e) \subseteq Type
         /\ \A i \in 1 .. Len(Chain[e]) : Supers(Chain[e][i]) = {Chain[e][j] : j \in 1 .. i - 1}
         /\ \A i, j \in 1 .. Len(Chain[e]) : Chain[e][i] = Chain[e][j] => i = j
<1>. DEFINE c == Chain[e]
            n == Len(c)
<1>1. c \in Seq(Type) /\ c # <<>>
  BY ConstantsHold DEF Constants
<1>2. n \in Nat /\ n >= 1 /\ DOMAIN c = 1 .. n /\ \A i \in 1 .. n : c[i] \in Type
  BY <1>1
<1>3. Names(e) = {c[i] : i \in 1 .. n} /\ Names(e) \subseteq Type
  BY <1>2 DEF Names, ToSet, Type
<1>4. \A d \in Elem : \A i \in 1 .. n, j \in DOMAIN Chain[d] :
        c[i] = Chain[d][j] => i = j /\ \A k \in 1 .. i : c[k] = Chain[d][k]
  BY <1>2, ConstantsHold DEF Constants
<1>5. \A i, j \in 1 .. n : c[i] = c[j] => i = j
  BY <1>2, <1>4
<1>6. ASSUME NEW i \in 1 .. n PROVE Supers(c[i]) = {c[j] : j \in 1 .. i - 1}
  <2>1. ASSUME NEW m \in Supers(c[i]) PROVE m \in {c[j] : j \in 1 .. i - 1}
    <3>1. PICK d \in Elem : \E k, j \in DOMAIN Chain[d] : j < k /\ Chain[d][k] = c[i] /\ Chain[d][j] = m
      BY DEF Supers
    <3>2. PICK k \in DOMAIN Chain[d], j \in DOMAIN Chain[d] : j < k /\ Chain[d][k] = c[i] /\ Chain[d][j] = m
      BY <3>1
    <3>3. i = k /\ \A l \in 1 .. i : c[l] = Chain[d][l]
      BY <1>4, <3>2
    <3>4. DOMAIN Chain[d] = 1 .. Len(Chain[d]) /\ Len(Chain[d]) \in Nat
      BY ConstantsHold DEF Constants
    <3>5. j \in 1 .. i - 1
      BY <3>2, <3>3, <3>4, <1>2
    <3>6. c[j] = m
      BY <1>2, <3>2, <3>3, <3>5
    <3>. QED  BY <3>5, <3>6
  <2>2. ASSUME NEW j \in 1 .. i - 1 PROVE c[j] \in Supers(c[i])
    <3>. HIDE DEF n
    <3>1. j \in 1 .. n /\ j < i
      BY <1>2
    <3>. QED  BY <1>2, <3>1 DEF Supers
  <2>. QED  BY <2>1, <2>2
<1>. QED  BY <1>2, <1>3, <1>5, <1>6

\* The type an element is of.
Class(e) == Last(Chain[e])

LEMMA NamesFacts ==
  ASSUME NEW e \in Elem
  PROVE  /\ Class(e) \in Names(e) /\ Names(e) = {Class(e)} \cup Supers(Class(e)) /\ Names(e) \subseteq Type
         /\ ToSet(Front(Chain[e])) = Supers(Class(e))
         /\ Base \in Names(e)
         /\ \A m \in Names(e) : Supers(m) \subseteq Names(e)
<1>. DEFINE c == Chain[e]
            n == Len(c)
<1>1. /\ n \in Nat /\ n >= 1 /\ c \in Seq(Type) /\ c[1] = Base
      /\ Names(e) = {c[i] : i \in 1 .. n} /\ Names(e) \subseteq Type
      /\ \A i \in 1 .. n : Supers(c[i]) = {c[j] : j \in 1 .. i - 1}
  BY ChainFacts, ConstantsHold DEF Constants
<1>2. Class(e) = c[n]
  BY DEF Class, Last
<1>3. ToSet(Front(c)) = {c[j] : j \in 1 .. n - 1}
  <2>1. /\ Front(c) = SubSeq(c, 1, n - 1) /\ Len(SubSeq(c, 1, n - 1)) = n - 1
        /\ \A j \in 1 .. n - 1 : SubSeq(c, 1, n - 1)[j] = c[j]
    BY <1>1 DEF Front
  <2>2. DOMAIN Front(c) = 1 .. n - 1
    BY <1>1, <2>1
  <2>. QED  BY <2>1, <2>2 DEF ToSet
<1>. HIDE DEF n, c
<1>4. Names(e) = {c[n]} \cup {c[j] : j \in 1 .. n - 1}
  <2>1. \A i \in 1 .. n : i = n \/ i \in 1 .. n - 1
    BY <1>1
  <2>2. n \in 1 .. n /\ \A i \in 1 .. n - 1 : i \in 1 .. n
    BY <1>1
  <2>. QED  BY <1>1, <2>1, <2>2
<1>5. Supers(c[n]) = {c[j] : j \in 1 .. n - 1}
  <2>1. n \in 1 .. n
    BY <1>1
  <2>. QED  BY <1>1, <2>1
<1>6. Base \in Names(e)
  <2>1. 1 \in 1 .. n
    BY <1>1
  <2>. QED  BY <1>1, <2>1
<1>7. \A m \in Names(e) : Supers(m) \subseteq Names(e)
  <2>. SUFFICES ASSUME NEW i \in 1 .. n PROVE Supers(c[i]) \subseteq Names(e)
    BY <1>1
  <2>1. \A j \in 1 .. i - 1 : j \in 1 .. n
    BY <1>1
  <2>2. Supers(c[i]) = {c[j] : j \in 1 .. i - 1}
    BY <1>1
  <2>. QED  BY <1>1, <2>1, <2>2
<1>. QED  BY <1>1, <1>2, <1>3, <1>4, <1>5, <1>6, <1>7 DEF c

LEMMA SupersFacts ==
  ASSUME NEW n \in Type
  PROVE  /\ \E e \in Elem : n \in Names(e)
         /\ n \notin Supers(n) /\ Supers(n) \subseteq Type /\ IsFiniteSet(Supers(n))
         /\ \A m \in Supers(n) : Supers(m) \subseteq Supers(n)
         /\ n = Base \/ Base \in Supers(n)
         /\ n = Base => Supers(n) = {}
<1>1. PICK e \in Elem : n \in Names(e)
  BY DEF Type
<1>. DEFINE c == Chain[e]
            l == Len(c)
<1>2. /\ l \in Nat /\ l >= 1 /\ c[1] = Base
      /\ Names(e) = {c[i] : i \in 1 .. l} /\ Names(e) \subseteq Type
      /\ \A i \in 1 .. l : Supers(c[i]) = {c[j] : j \in 1 .. i - 1}
      /\ \A i, j \in 1 .. l : c[i] = c[j] => i = j
  BY ChainFacts, ConstantsHold DEF Constants
<1>. HIDE DEF l, c
<1>3. PICK i \in 1 .. l : n = c[i]
  BY <1>1, <1>2
<1>4. i \in Nat /\ i >= 1 /\ i <= l /\ \A j \in 1 .. i - 1 : j \in 1 .. l /\ j < i /\ j >= 1
  BY <1>2
<1>5. Supers(n) = {c[j] : j \in 1 .. i - 1}
  BY <1>2, <1>3
<1>6. n \notin Supers(n)
  BY <1>2, <1>3, <1>4, <1>5
<1>7. \A m \in Supers(n) : Supers(m) \subseteq Supers(n)
  <2>. SUFFICES ASSUME NEW j \in 1 .. i - 1 PROVE Supers(c[j]) \subseteq Supers(n)
    BY <1>5
  <2>1. Supers(c[j]) = {c[k] : k \in 1 .. j - 1}
    BY <1>2, <1>4
  <2>2. \A k \in 1 .. j - 1 : k \in 1 .. i - 1
    BY <1>4
  <2>. QED  BY <1>5, <2>1, <2>2
<1>8. IsFiniteSet(Supers(n))
  <2>. DEFINE f == [j \in 1 .. i - 1 |-> c[j]]
  <2>1. f \in Surjection(1 .. i - 1, Supers(n))
    BY <1>5 DEF Surjection
  <2>2. IsFiniteSet(1 .. i - 1)
    BY <1>4, FS_Interval
  <2>. HIDE DEF f
  <2>. QED  BY <2>1, <2>2, FS_Surjection
<1>9. n = Base \/ Base \in Supers(n)
  <2>1. i = 1 \/ 1 \in 1 .. i - 1
    BY <1>4
  <2>. QED  BY <1>2, <1>3, <1>5, <2>1
<1>10. n = Base => Supers(n) = {}
  <2>1. n = Base => i = 1
    <3>1. 1 \in 1 .. l
      BY <1>2
    <3>. QED  BY <1>2, <1>3, <3>1
  <2>2. 1 .. 1 - 1 = {}
    OBVIOUS
  <2>. QED  BY <1>5, <2>1, <2>2
<1>. QED  BY <1>1, <1>2, <1>5, <1>6, <1>7, <1>8, <1>9, <1>10 DEF Supers

-------------------------------------------------------------------------------
(***************************************************************************)
(* Counting                                                                *)
(*                                                                         *)
(* d is what desc is, P[n] the attachments of elements that are of the     *)
(* type n, and lk the types that have leaked.  A descriptor counts its     *)
(* attachments, and a supertype more than a subtype by those that are not  *)
(* the subtype's: so none goes before its subtypes, leaked or not.         *)
(***************************************************************************)
IsOf(d, a, n) == a \in Address /\ d[a] # None /\ d[a].name = n
Has(d, n) == \E a \in Address : IsOf(d, a, n)

\* An attachment of an element: it may have several.
Slot == Elem \X (1 .. MaxAttached + 1)

SuperOK(d, a) ==
  /\ d[a].super = {b \in Address : d[b] # None /\ d[b].name \in Supers(d[a].name)}
  /\ \A m \in Supers(d[a].name) : Has(d, m)

CountOK(d, P, lk, a) ==
  /\ d[a].refs >= Cardinality(P[d[a].name])
  /\ d[a].name \notin lk => d[a].refs = Cardinality(P[d[a].name])
  /\ \A b \in d[a].super : d[b].refs >= d[a].refs + Cardinality(P[d[b].name] \ P[d[a].name])

HeapOK(d, P, lk) ==
  /\ d \in [Address -> Descriptor \cup {None}]
  /\ P \in [Type -> SUBSET Slot]
  /\ \A n \in Type : \A m \in Supers(n) : P[n] \subseteq P[m]
  /\ \A n \in Type : P[n] # {} => Has(d, n)
  /\ \A a, b \in Address : d[a] # None /\ d[b] # None /\ d[a].name = d[b].name => a = b
  /\ \A a \in Address : d[a] # None => SuperOK(d, a) /\ CountOK(d, P, lk, a)

LEMMA SlotsFinite ==
  /\ IsFiniteSet(Slot)
  /\ \A S \in SUBSET Slot : IsFiniteSet(S) /\ Cardinality(S) \in Nat
<1>1. IsFiniteSet(Slot)
  <2>1. IsFiniteSet(1 .. MaxAttached + 1) /\ IsFiniteSet(Elem)
    BY ConstantsHold, FS_Interval DEF Constants
  <2>. QED  BY <2>1, FS_Product DEF Slot
<1>. QED  BY <1>1, FS_Subset, FS_CardinalityType

\* What is at an address.
LEMMA HeapType ==
  ASSUME NEW d \in [Address -> Descriptor \cup {None}], NEW a \in Address, d[a] # None
  PROVE  /\ d[a] \in Descriptor /\ d[a].name \in Type /\ d[a].refs \in Nat /\ d[a].refs > 0
         /\ d[a].super \subseteq Address
         /\ d[a] = [name |-> d[a].name, refs |-> d[a].refs, super |-> d[a].super]
BY DEF Descriptor

\* at says where the types of e are, or are now put: what rtb_type_ref does.
Refs(e, at, d, h) ==
  /\ at \in [Names(e) -> Address] /\ \A m, n \in Names(e) : at[m] = at[n] => m = n
  /\ \A n \in Names(e) : IF d[at[n]] # None THEN d[at[n]].name = n ELSE ~Has(d, n)
  /\ h = [a \in Address |->
            IF \E n \in Names(e) : at[n] = a
            THEN LET i == CHOOSE i \in DOMAIN Chain[e] : at[Chain[e][i]] = a IN
                 IF d[a] # None THEN [d[a] EXCEPT !.refs = @ + 1]
                 ELSE [name |-> Chain[e][i], refs |-> 1, super |-> {at[Chain[e][j]] : j \in 1 .. i - 1}]
            ELSE d[a]]

LEMMA RefsFacts ==
  ASSUME NEW e \in Elem, NEW at, NEW d \in [Address -> Descriptor \cup {None}], NEW h, Refs(e, at, d, h)
  PROVE  /\ h \in [Address -> Descriptor \cup {None}]
         /\ \A n \in Names(e) :
              /\ at[n] \in Address
              /\ d[at[n]] # None => d[at[n]].name = n /\ h[at[n]] = [d[at[n]] EXCEPT !.refs = @ + 1]
              /\ d[at[n]] = None => h[at[n]] = [name |-> n, refs |-> 1, super |-> {at[m] : m \in Supers(n)}]
         /\ \A a \in Address : (\A n \in Names(e) : at[n] # a) => h[a] = d[a]
<1>. DEFINE c == Chain[e]
            l == Len(c)
            At(a) == CHOOSE i \in DOMAIN c : at[c[i]] = a
<1>1. /\ l \in Nat /\ DOMAIN c = 1 .. l /\ Names(e) = {c[i] : i \in 1 .. l} /\ Names(e) \subseteq Type
      /\ \A i \in 1 .. l : Supers(c[i]) = {c[j] : j \in 1 .. i - 1}
      /\ \A i, j \in 1 .. l : c[i] = c[j] => i = j
  BY ChainFacts
<1>2. at \in [Names(e) -> Address] /\ \A m, n \in Names(e) : at[m] = at[n] => m = n
  BY DEF Refs
<1>3. h = [a \in Address |->
            IF \E n \in Names(e) : at[n] = a
            THEN IF d[a] # None THEN [d[a] EXCEPT !.refs = @ + 1]
                 ELSE [name |-> c[At(a)], refs |-> 1, super |-> {at[c[j]] : j \in 1 .. At(a) - 1}]
            ELSE d[a]]
  BY DEF Refs
<1>4. ASSUME NEW n \in Names(e)
      PROVE  /\ At(at[n]) \in 1 .. l /\ c[At(at[n])] = n
             /\ {at[c[j]] : j \in 1 .. At(at[n]) - 1} = {at[m] : m \in Supers(n)}
  <2>1. PICK k \in 1 .. l : c[k] = n
    BY <1>1
  <2>2. \A i \in 1 .. l : at[c[i]] = at[n] => i = k
    BY <1>1, <1>2, <2>1
  <2>3. At(at[n]) = k
    BY <1>1, <2>1, <2>2
  <2>4. Supers(n) = {c[j] : j \in 1 .. k - 1}
    BY <1>1, <2>1
  <2>. HIDE DEF At, c, l
  <2>. QED  BY <2>1, <2>3, <2>4
<1>. HIDE DEF At, c, l
<1>5. ASSUME NEW n \in Names(e)
      PROVE  /\ at[n] \in Address
             /\ d[at[n]] # None => d[at[n]].name = n /\ h[at[n]] = [d[at[n]] EXCEPT !.refs = @ + 1]
             /\ d[at[n]] = None => h[at[n]] = [name |-> n, refs |-> 1, super |-> {at[m] : m \in Supers(n)}]
  <2>1. at[n] \in Address /\ (d[at[n]] # None => d[at[n]].name = n)
    BY DEF Refs
  <2>2. d[at[n]] # None => h[at[n]] = [d[at[n]] EXCEPT !.refs = @ + 1]
    BY <1>3, <2>1
  <2>3. d[at[n]] = None => h[at[n]] = [name |-> c[At(at[n])], refs |-> 1,
                                       super |-> {at[c[j]] : j \in 1 .. At(at[n]) - 1}]
    BY <1>3, <2>1
  <2>. QED  BY <1>4, <2>1, <2>2, <2>3
<1>6. \A a \in Address : (\A n \in Names(e) : at[n] # a) => h[a] = d[a]
  BY <1>3
<1>7. ASSUME NEW a \in Address PROVE h[a] \in Descriptor \cup {None}
  <2>1. CASE \A n \in Names(e) : at[n] # a
    BY <1>6, <2>1
  <2>2. ASSUME NEW n \in Names(e), at[n] = a PROVE h[a] \in Descriptor \cup {None}
    <3>1. CASE d[a] # None
      <4>1. d[a] \in Descriptor /\ h[a] = [d[a] EXCEPT !.refs = @ + 1]
        BY <1>5, <2>2, <3>1
      <4>. QED  BY <4>1 DEF Descriptor
    <3>2. CASE d[a] = None
      <4>1. h[a] = [name |-> n, refs |-> 1, super |-> {at[m] : m \in Supers(n)}]
        BY <1>5, <2>2, <3>2
      <4>2. n \in Type /\ {at[m] : m \in Supers(n)} \subseteq Address
        BY <1>1, <1>2, NamesFacts
      <4>. QED  BY <4>1, <4>2 DEF Descriptor
    <3>. QED  BY <3>1, <3>2
  <2>. QED  BY <2>1, <2>2
<1>8. h \in [Address -> Descriptor \cup {None}]
  <2>1. h = [a \in Address |-> h[a]]
    BY <1>3
  <2>. QED  BY <1>7, <2>1
<1>. QED  BY <1>5, <1>6, <1>8

\* Attaching counts once more, and what is new counts one.
LEMMA RefsCount ==
  ASSUME NEW e \in Elem, NEW at, NEW d, NEW h, NEW P, NEW lk, NEW x \in Slot, NEW Q,
         HeapOK(d, P, lk), Refs(e, at, d, h), \A n \in Type : x \notin P[n],
         Q = [n \in Type |-> IF n \in Names(e) THEN P[n] \cup {x} ELSE P[n]]
  PROVE  /\ HeapOK(h, Q, lk)
         /\ \A a \in Address : d[a] # None => h[a] # None /\ h[a].name = d[a].name /\ h[a].super = d[a].super
         /\ \A n \in Names(e) : IsOf(h, at[n], n)
<1>1. /\ d \in [Address -> Descriptor \cup {None}]
      /\ P \in [Type -> SUBSET Slot]
      /\ \A n \in Type : \A m \in Supers(n) : P[n] \subseteq P[m]
      /\ \A n \in Type : P[n] # {} => Has(d, n)
      /\ \A a, b \in Address : d[a] # None /\ d[b] # None /\ d[a].name = d[b].name => a = b
      /\ \A a \in Address : d[a] # None => SuperOK(d, a) /\ CountOK(d, P, lk, a)
  BY DEF HeapOK
<1>2. /\ Names(e) \subseteq Type /\ None \notin Descriptor
      /\ \A n \in Names(e) : Supers(n) \subseteq Names(e)
  BY NamesFacts, ConstantsHold DEF Constants
<1>3. /\ at \in [Names(e) -> Address] /\ \A m, n \in Names(e) : at[m] = at[n] => m = n
      /\ \A n \in Names(e) : d[at[n]] = None => ~Has(d, n)
  BY DEF Refs
<1>4. /\ h \in [Address -> Descriptor \cup {None}]
      /\ \A n \in Names(e) :
           /\ at[n] \in Address
           /\ d[at[n]] # None => d[at[n]].name = n /\ h[at[n]] = [d[at[n]] EXCEPT !.refs = @ + 1]
           /\ d[at[n]] = None => h[at[n]] = [name |-> n, refs |-> 1, super |-> {at[m] : m \in Supers(n)}]
      /\ \A a \in Address : (\A n \in Names(e) : at[n] # a) => h[a] = d[a]
  BY <1>1, RefsFacts
<1>5. ASSUME NEW n \in Names(e), d[at[n]] # None
      PROVE  /\ h[at[n]] # None /\ h[at[n]].name = n /\ h[at[n]].super = d[at[n]].super
             /\ h[at[n]].refs = d[at[n]].refs + 1
  <2>1. d[at[n]] \in Descriptor /\ h[at[n]] = [d[at[n]] EXCEPT !.refs = @ + 1] /\ d[at[n]].name = n
    BY <1>1, <1>4, <1>5
  <2>2. h[at[n]] \in Descriptor
    BY <2>1 DEF Descriptor
  <2>. QED  BY <1>2, <2>1, <2>2 DEF Descriptor
<1>6. ASSUME NEW n \in Names(e), d[at[n]] = None
      PROVE  /\ h[at[n]] # None /\ h[at[n]].name = n /\ h[at[n]].super = {at[m] : m \in Supers(n)}
             /\ h[at[n]].refs = 1
  <2>1. h[at[n]] = [name |-> n, refs |-> 1, super |-> {at[m] : m \in Supers(n)}]
    BY <1>4, <1>6
  <2>2. n \in Type /\ {at[m] : m \in Supers(n)} \subseteq Address
    BY <1>2, <1>3
  <2>3. h[at[n]] \in Descriptor
    BY <2>1, <2>2 DEF Descriptor
  <2>4. h[at[n]] # None
    BY <1>2, <2>3
  <2>. QED  BY <2>1, <2>4
<1>7. \A n \in Names(e) : IsOf(h, at[n], n)
  BY <1>4, <1>5, <1>6 DEF IsOf
<1>8. ASSUME NEW a \in Address, d[a] # None
      PROVE  /\ h[a] # None /\ h[a].name = d[a].name /\ h[a].super = d[a].super
             /\ d[a].name \in Names(e) => a = at[d[a].name] /\ h[a].refs = d[a].refs + 1
             /\ d[a].name \notin Names(e) => h[a].refs = d[a].refs
  <2>1. CASE d[a].name \in Names(e)
    <3>1. a = at[d[a].name]
      <4>0. PICK n \in Names(e) : n = d[a].name
        BY <2>1
      <4>1. Has(d, n)
        BY <1>8, <4>0 DEF Has, IsOf
      <4>2. at[n] \in Address /\ d[at[n]] # None
        BY <1>3, <1>4, <4>1
      <4>3. d[at[n]].name = n
        BY <1>4, <4>2
      <4>. QED  BY <1>1, <1>8, <4>0, <4>2, <4>3
    <3>. QED  BY <1>5, <1>8, <2>1, <3>1
  <2>2. CASE d[a].name \notin Names(e)
    <3>1. ASSUME NEW n \in Names(e), at[n] = a PROVE FALSE
      <4>1. d[at[n]] # None
        BY <1>8, <3>1
      <4>2. d[at[n]].name = n
        BY <1>4, <4>1
      <4>. QED  BY <2>2, <3>1, <4>2
    <3>. QED  BY <1>4, <1>8, <2>2, <3>1
  <2>. QED  BY <2>1, <2>2
<1>9. ASSUME NEW a \in Address, h[a] # None, d[a] = None
      PROVE  \E n \in Names(e) : a = at[n] /\ h[a].name = n /\ ~Has(d, n)
  <2>1. PICK n \in Names(e) : at[n] = a
    BY <1>4, <1>9
  <2>. QED  BY <1>3, <1>6, <1>9, <2>1
<1>10. ASSUME NEW a \in Address, h[a] # None, h[a].name \in Names(e) PROVE a = at[h[a].name]
  BY <1>8, <1>9, <1>10
<1>11. ASSUME NEW a \in Address, h[a] # None, h[a].name \notin Names(e) PROVE d[a] # None
  BY <1>9, <1>11
<1>12. \A a, b \in Address : h[a] # None /\ h[b] # None /\ h[a].name = h[b].name => a = b
  <2>. SUFFICES ASSUME NEW a \in Address, NEW b \in Address, h[a] # None, h[b] # None, h[a].name = h[b].name
                PROVE  a = b
    OBVIOUS
  <2>1. CASE h[a].name \in Names(e)
    BY <1>10, <2>1
  <2>2. CASE h[a].name \notin Names(e)
    <3>1. d[a] # None /\ d[b] # None
      BY <1>11, <2>2
    <3>. QED  BY <1>1, <1>8, <3>1
  <2>. QED  BY <2>1, <2>2
<1>13. /\ Q \in [Type -> SUBSET Slot]
       /\ \A n \in Type : Q[n] = IF n \in Names(e) THEN P[n] \cup {x} ELSE P[n]
  BY <1>1
<1>14. \A n \in Type : \A m \in Supers(n) : Q[n] \subseteq Q[m]
  <2>. SUFFICES ASSUME NEW n \in Type, NEW m \in Supers(n) PROVE Q[n] \subseteq Q[m]
    OBVIOUS
  <2>1. m \in Type /\ P[n] \subseteq P[m] /\ (n \in Names(e) => m \in Names(e))
    BY <1>1, <1>2 DEF Supers
  <2>. QED  BY <1>13, <2>1
<1>15. \A n \in Type : Has(d, n) => Has(h, n)
  BY <1>8 DEF Has, IsOf
<1>16. \A n \in Names(e) : Has(h, n)
  BY <1>7 DEF Has, IsOf
<1>17. \A n \in Type : Q[n] # {} => Has(h, n)
  BY <1>1, <1>13, <1>15, <1>16
<1>18. ASSUME NEW a \in Address, h[a] # None PROVE SuperOK(h, a)
  <2>. DEFINE n == h[a].name
  <2>1. n \in Type /\ Supers(n) \subseteq Type
    BY <1>4, <1>18, HeapType DEF Supers
  <2>2. CASE d[a] # None
    <3>1. SuperOK(d, a) /\ n = d[a].name /\ h[a].super = d[a].super
      BY <1>1, <1>8, <2>2
    <3>2. \A m \in Supers(n) : Has(d, m)
      BY <3>1 DEF SuperOK
    <3>3. \A m \in Supers(n) : Has(h, m)
      BY <1>15, <2>1, <3>2
    <3>4. ASSUME NEW b \in Address, h[b] # None, h[b].name \in Supers(n) PROVE d[b] # None /\ d[b].name = h[b].name
      <4>1. d[b] # None
        BY <1>9, <3>2, <3>4
      <4>. QED  BY <1>8, <4>1
    <3>5. h[a].super = {b \in Address : h[b] # None /\ h[b].name \in Supers(n)}
      <4>1. h[a].super = {b \in Address : d[b] # None /\ d[b].name \in Supers(n)}
        BY <3>1 DEF SuperOK
      <4>. QED  BY <1>8, <3>4, <4>1
    <3>. QED  BY <3>3, <3>5 DEF SuperOK
  <2>3. CASE d[a] = None
    <3>1. n \in Names(e) /\ a = at[n]
      BY <1>9, <1>18, <2>3
    <3>2. h[a].super = {at[m] : m \in Supers(n)} /\ Supers(n) \subseteq Names(e)
      BY <1>2, <1>6, <2>3, <3>1
    <3>3. \A m \in Supers(n) : Has(h, m)
      BY <1>16, <3>2
    <3>4. h[a].super = {b \in Address : h[b] # None /\ h[b].name \in Supers(n)}
      <4>1. \A m \in Supers(n) : at[m] \in Address /\ h[at[m]] # None /\ h[at[m]].name = m
        BY <1>7, <3>2 DEF IsOf
      <4>2. \A b \in Address : h[b] # None /\ h[b].name \in Supers(n) => b = at[h[b].name]
        BY <1>10, <3>2
      <4>. QED  BY <3>2, <4>1, <4>2
    <3>. QED  BY <3>3, <3>4 DEF SuperOK
  <2>. QED  BY <2>2, <2>3
<1>19. ASSUME NEW a \in Address, h[a] # None PROVE CountOK(h, Q, lk, a)
  <2>. DEFINE n == h[a].name
  <2>1. n \in Type /\ h[a].refs \in Nat /\ h[a].super \subseteq Address
    BY <1>4, <1>19, HeapType
  <2>2. h[a].super = {b \in Address : h[b] # None /\ h[b].name \in Supers(n)}
    BY <1>18, <1>19 DEF SuperOK
  <2>3. \A m \in Type : /\ IsFiniteSet(P[m]) /\ Cardinality(P[m]) \in Nat
                        /\ Cardinality(P[m] \cup {x}) = Cardinality(P[m]) + 1
    <3>. SUFFICES ASSUME NEW m \in Type
                  PROVE  /\ IsFiniteSet(P[m]) /\ Cardinality(P[m]) \in Nat
                         /\ Cardinality(P[m] \cup {x}) = Cardinality(P[m]) + 1
      OBVIOUS
    <3>1. IsFiniteSet(P[m]) /\ Cardinality(P[m]) \in Nat /\ x \notin P[m]
      BY <1>1, SlotsFinite
    <3>. QED  BY <3>1, FS_AddElement
  <2>4. CASE d[a] # None
    <3>1. /\ CountOK(d, P, lk, a) /\ n = d[a].name /\ d[a].refs \in Nat /\ h[a].super = d[a].super
          /\ h[a].refs = IF n \in Names(e) THEN d[a].refs + 1 ELSE d[a].refs
      BY <1>1, <1>8, <2>4, HeapType
    <3>2. h[a].refs >= Cardinality(Q[n]) /\ (n \notin lk => h[a].refs = Cardinality(Q[n]))
      <4>1. d[a].refs >= Cardinality(P[n]) /\ (n \notin lk => d[a].refs = Cardinality(P[n]))
        BY <3>1 DEF CountOK
      <4>2. Cardinality(Q[n]) = IF n \in Names(e) THEN Cardinality(P[n]) + 1 ELSE Cardinality(P[n])
        BY <1>13, <2>1, <2>3
      <4>3. Cardinality(P[n]) \in Nat
        BY <2>1, <2>3
      <4>. HIDE DEF n
      <4>. QED  BY <3>1, <4>1, <4>2, <4>3
    <3>3. ASSUME NEW b \in h[a].super PROVE h[b].refs >= h[a].refs + Cardinality(Q[h[b].name] \ Q[n])
      <4>. DEFINE m == h[b].name
      <4>1. b \in Address /\ h[b] # None /\ m \in Supers(n) /\ m \in Type
        BY <2>2, <3>3 DEF Supers
      <4>2. d[b] # None /\ d[b].name = m /\ d[b].refs \in Nat
        <5>1. d[b] # None
          BY <1>1, <3>1, <3>3, <2>4 DEF SuperOK
        <5>. QED  BY <1>1, <1>8, <4>1, <5>1, HeapType
      <4>3. d[b].refs >= d[a].refs + Cardinality(P[m] \ P[n])
        BY <3>1, <3>3, <4>2 DEF CountOK
      <4>4. h[b].refs = IF m \in Names(e) THEN d[b].refs + 1 ELSE d[b].refs
        BY <1>8, <4>1, <4>2
      <4>5. n \in Names(e) => m \in Names(e)
        BY <1>2, <4>1
      <4>6. /\ Q[m] = (IF m \in Names(e) THEN P[m] \cup {x} ELSE P[m])
            /\ Q[n] = (IF n \in Names(e) THEN P[n] \cup {x} ELSE P[n])
            /\ x \notin P[m] /\ x \notin P[n]
        BY <1>13, <2>1, <4>1
      <4>7. P[m] \ P[n] \in SUBSET Slot
        BY <1>1, <4>1
      <4>8. IsFiniteSet(P[m] \ P[n]) /\ Cardinality(P[m] \ P[n]) \in Nat
        BY <4>7, SlotsFinite
      <4>9. Cardinality((P[m] \ P[n]) \cup {x}) = Cardinality(P[m] \ P[n]) + 1
        BY <4>6, <4>8, FS_AddElement
      <4>. HIDE DEF m, n
      <4>10. CASE n \in Names(e)
        <5>1. Q[m] \ Q[n] = P[m] \ P[n]
          BY <4>5, <4>6, <4>10
        <5>. QED  BY <3>1, <4>2, <4>3, <4>4, <4>5, <4>8, <4>10, <5>1 DEF m
      <4>11. CASE n \notin Names(e) /\ m \in Names(e)
        <5>0. Q[m] = P[m] \cup {x} /\ Q[n] = P[n] /\ x \notin P[n]
          BY <4>6, <4>11
        <5>1. Q[m] \ Q[n] = (P[m] \ P[n]) \cup {x}
          BY <5>0
        <5>2. Cardinality(Q[m] \ Q[n]) = Cardinality(P[m] \ P[n]) + 1
          BY <4>9, <5>1
        <5>. QED  BY <3>1, <4>2, <4>3, <4>4, <4>8, <4>11, <5>2 DEF m
      <4>12. CASE n \notin Names(e) /\ m \notin Names(e)
        <5>1. Q[m] \ Q[n] = P[m] \ P[n]
          BY <4>6, <4>12
        <5>. QED  BY <3>1, <4>2, <4>3, <4>4, <4>8, <4>12, <5>1 DEF m
      <4>. QED  BY <4>10, <4>11, <4>12
    <3>. QED  BY <3>2, <3>3 DEF CountOK
  <2>5. CASE d[a] = None
    <3>1. n \in Names(e) /\ a = at[n] /\ ~Has(d, n)
      BY <1>9, <1>19, <2>5
    <3>2. P[n] = {} /\ Q[n] = {x} /\ h[a].refs = 1
      <4>1. P[n] = {} /\ h[a].refs = 1
        BY <1>1, <1>6, <2>1, <2>5, <3>1
      <4>. QED  BY <1>13, <2>1, <3>1, <4>1
    <3>3. Cardinality(Q[n]) = 1
      BY <3>2, FS_Singleton
    <3>4. ASSUME NEW b \in h[a].super PROVE h[b].refs >= h[a].refs + Cardinality(Q[h[b].name] \ Q[n])
      <4>. DEFINE m == h[b].name
      <4>1. b \in Address /\ h[b] # None /\ m \in Supers(n) /\ m \in Type /\ m \in Names(e)
        BY <1>2, <2>2, <3>1, <3>4 DEF Supers
      <4>2. b = at[m]
        BY <1>10, <4>1
      <4>3. x \notin P[m] /\ Q[m] = P[m] \cup {x}
        BY <1>13, <4>1
      <4>4. Q[m] \ Q[n] = P[m]
        BY <3>2, <4>3
      <4>5. Cardinality(P[m]) \in Nat
        BY <2>3, <4>1
      <4>6. CASE d[b] # None
        <5>1. d[b].name = m /\ h[b].refs = d[b].refs + 1 /\ CountOK(d, P, lk, b) /\ d[b].refs \in Nat
          BY <1>1, <1>8, <4>1, <4>6, HeapType
        <5>2. d[b].refs >= Cardinality(P[m])
          BY <5>1 DEF CountOK
        <5>3. Cardinality(Q[m] \ Q[n]) = Cardinality(P[m])
          BY <4>4
        <5>. HIDE DEF m, n
        <5>. QED  BY <3>2, <4>5, <5>1, <5>2, <5>3 DEF m
      <4>7. CASE d[b] = None
        <5>1. h[b].refs = 1 /\ ~Has(d, m)
          BY <1>3, <1>6, <4>1, <4>2, <4>7
        <5>2. P[m] = {}
          BY <1>1, <4>1, <5>1
        <5>3. Cardinality(P[m]) = 0
          BY <5>2, FS_EmptySet
        <5>4. Cardinality(Q[m] \ Q[n]) = 0
          BY <4>4, <5>3
        <5>. HIDE DEF m, n
        <5>. QED  BY <3>2, <5>1, <5>4 DEF m
      <4>. QED  BY <4>6, <4>7
    <3>. QED  BY <3>2, <3>3, <3>4 DEF CountOK
  <2>. QED  BY <2>4, <2>5
<1>20. HeapOK(h, Q, lk)
  BY <1>4, <1>12, <1>13, <1>14, <1>17, <1>18, <1>19 DEF HeapOK
<1>. QED  BY <1>7, <1>8, <1>20

\* What rtb_type_unref makes of d, given the descriptor at a.
Unrefs(a, d) ==
  [b \in Address |->
     IF b # a /\ b \notin d[a].super THEN d[b]
     ELSE IF d[b].refs = 1 THEN None ELSE [d[b] EXCEPT !.refs = @ - 1]]

\* R are the attachments of e, and Q those without it; unless there was only one,
\* the types of e leak.
Without(e, R, P, Q, lk, lk2) ==
  /\ R \in SUBSET Slot /\ R # {}
  /\ \A n \in Names(e) : R \subseteq P[n]
  /\ \A n \in Type : n \notin Names(e) => R \cap P[n] = {}
  /\ Q = [n \in Type |-> P[n] \ R]
  /\ lk \subseteq lk2 /\ (Cardinality(R) = 1 \/ Names(e) \subseteq lk2)

\* Giving back one reference for the attachments R of an element: no descriptor
\* goes that another still counts on.
LEMMA UnrefCount ==
  ASSUME NEW e \in Elem, NEW a, NEW d, NEW P, NEW lk, NEW lk2, NEW R, NEW Q,
         HeapOK(d, P, lk), IsOf(d, a, Class(e)), Without(e, R, P, Q, lk, lk2)
  PROVE  /\ HeapOK(Unrefs(a, d), Q, lk2)
         /\ \A b \in Address : Unrefs(a, d)[b] # None =>
              d[b] # None /\ Unrefs(a, d)[b].name = d[b].name /\ Unrefs(a, d)[b].super = d[b].super
         /\ \A b \in Address : d[b] # None /\ Unrefs(a, d)[b] = None =>
              d[b].name \in Names(e) /\ \A p \in P[d[b].name] : p \in R
<1>. DEFINE h == Unrefs(a, d)
<1>0. /\ R \in SUBSET Slot /\ R # {}
      /\ \A n \in Names(e) : R \subseteq P[n]
      /\ \A n \in Type : n \notin Names(e) => R \cap P[n] = {}
      /\ Q = [n \in Type |-> P[n] \ R]
      /\ lk \subseteq lk2 /\ (Cardinality(R) = 1 \/ Names(e) \subseteq lk2)
  BY DEF Without
<1>1. /\ d \in [Address -> Descriptor \cup {None}]
      /\ P \in [Type -> SUBSET Slot]
      /\ \A n \in Type : \A m \in Supers(n) : P[n] \subseteq P[m]
      /\ \A n \in Type : P[n] # {} => Has(d, n)
      /\ \A b, c \in Address : d[b] # None /\ d[c] # None /\ d[b].name = d[c].name => b = c
      /\ \A b \in Address : d[b] # None => SuperOK(d, b) /\ CountOK(d, P, lk, b)
  BY DEF HeapOK
<1>2. /\ Names(e) \subseteq Type /\ None \notin Descriptor
      /\ Names(e) = {Class(e)} \cup Supers(Class(e))
      /\ \A n \in Names(e) : Supers(n) \subseteq Names(e)
  BY NamesFacts, ConstantsHold DEF Constants
<1>3. a \in Address /\ d[a] # None /\ d[a].name = Class(e)
  BY DEF IsOf
\* Those it takes a reference from are those of the types of e.
<1>4. \A b \in Address : b = a \/ b \in d[a].super <=> d[b] # None /\ d[b].name \in Names(e)
  <2>1. d[a].super = {b \in Address : d[b] # None /\ d[b].name \in Supers(Class(e))}
    BY <1>1, <1>3 DEF SuperOK
  <2>. QED  BY <1>1, <1>2, <1>3, <2>1
<1>5. ASSUME NEW b \in Address
      PROVE  h[b] = IF d[b] # None /\ d[b].name \in Names(e)
                    THEN IF d[b].refs = 1 THEN None ELSE [d[b] EXCEPT !.refs = @ - 1]
                    ELSE d[b]
  BY <1>4 DEF Unrefs
<1>6. IsFiniteSet(R) /\ Cardinality(R) \in Nat /\ Cardinality(R) >= 1
  BY <1>0, SlotsFinite, FS_EmptySet
<1>7. ASSUME NEW b \in Address, d[b] # None
      PROVE  /\ d[b].name \in Type /\ d[b].refs \in Nat /\ d[b].refs >= 1
             /\ h[b] # None =>
                  /\ h[b] \in Descriptor /\ h[b].name = d[b].name /\ h[b].super = d[b].super
                  /\ h[b].refs = IF d[b].name \in Names(e) THEN d[b].refs - 1 ELSE d[b].refs
             /\ h[b] = None <=> d[b].name \in Names(e) /\ d[b].refs = 1
  <2>0. d[b] \in Descriptor /\ d[b].name \in Type /\ d[b].refs \in Nat /\ d[b].refs > 0
    BY <1>1, <1>7, HeapType
  <2>1. /\ d[b] \in Descriptor /\ d[b].name \in Type /\ d[b].refs \in Nat /\ d[b].refs >= 1
    BY <2>0
  <2>2. CASE d[b].name \notin Names(e)
    BY <1>5, <1>7, <2>1, <2>2
  <2>3. CASE d[b].name \in Names(e) /\ d[b].refs = 1
    BY <1>5, <1>7, <2>1, <2>3
  <2>4. CASE d[b].name \in Names(e) /\ d[b].refs # 1
    <3>1. h[b] = [d[b] EXCEPT !.refs = @ - 1]
      BY <1>5, <1>7, <2>4
    <3>2. /\ h[b] \in Descriptor /\ h[b].name = d[b].name /\ h[b].super = d[b].super
          /\ h[b].refs = d[b].refs - 1
      BY <2>1, <2>4, <3>1 DEF Descriptor
    <3>3. h[b] # None
      BY <1>2, <3>2
    <3>. QED  BY <2>1, <2>4, <3>2, <3>3
  <2>. QED  BY <2>2, <2>3, <2>4
<1>8. \A b \in Address : d[b] = None => h[b] = None
  BY <1>5
<1>. HIDE DEF h
<1>9. \A n \in Type : Q[n] = P[n] \ R /\ Q[n] \in SUBSET Slot
  BY <1>0, <1>1
<1>10. ASSUME NEW n \in Type
       PROVE  /\ Cardinality(P[n]) \in Nat /\ Cardinality(Q[n]) \in Nat /\ IsFiniteSet(P[n])
              /\ n \in Names(e) => Cardinality(Q[n]) = Cardinality(P[n]) - Cardinality(R)
              /\ n \notin Names(e) => Q[n] = P[n]
  <2>1. /\ IsFiniteSet(P[n]) /\ Cardinality(P[n]) \in Nat /\ Cardinality(Q[n]) \in Nat
    BY <1>1, <1>9, SlotsFinite
  <2>2. Cardinality(P[n] \ R) = Cardinality(P[n]) - Cardinality(P[n] \cap R)
    BY <2>1, FS_Difference
  <2>3. CASE n \in Names(e)
    <3>1. P[n] \cap R = R
      BY <1>0, <2>3
    <3>. QED  BY <1>9, <2>1, <2>2, <2>3, <3>1
  <2>4. CASE n \notin Names(e)
    BY <1>0, <1>9, <2>1, <2>4
  <2>. QED  BY <2>3, <2>4
\* A descriptor goes with its last attachments.
<1>11. ASSUME NEW b \in Address, d[b] # None, h[b] = None
       PROVE  d[b].name \in Names(e) /\ P[d[b].name] = R /\ Q[d[b].name] = {}
  <2>1. d[b].name \in Names(e) /\ d[b].refs = 1 /\ d[b].name \in Type
    BY <1>7, <1>11
  <2>. DEFINE n == d[b].name
  <2>2. 1 >= Cardinality(P[n])
    BY <1>1, <1>11, <2>1 DEF CountOK
  <2>3. R \subseteq P[n] /\ IsFiniteSet(P[n]) /\ Cardinality(P[n]) \in Nat
    BY <1>0, <1>10, <2>1
  <2>4. Cardinality(R) <= Cardinality(P[n]) /\ (Cardinality(P[n]) = Cardinality(R) => P[n] = R)
    BY <2>3, FS_Subset
  <2>5. P[n] = R
    BY <1>6, <2>2, <2>3, <2>4
  <2>. QED  BY <1>9, <2>1, <2>5
<1>12. h \in [Address -> Descriptor \cup {None}]
  <2>1. \A b \in Address : h[b] \in Descriptor \cup {None}
    BY <1>7, <1>8
  <2>2. h = [b \in Address |-> h[b]]
    BY DEF h, Unrefs
  <2>. QED  BY <2>1, <2>2
<1>13. \A b \in Address : h[b] # None =>
         /\ d[b] # None /\ h[b].name = d[b].name /\ h[b].super = d[b].super /\ h[b].name \in Type
         /\ h[b].refs \in Nat
         /\ h[b].refs = IF d[b].name \in Names(e) THEN d[b].refs - 1 ELSE d[b].refs
  BY <1>7, <1>8
<1>14. Q \in [Type -> SUBSET Slot] /\ \A n \in Type : \A m \in Supers(n) : Q[n] \subseteq Q[m]
  <2>1. \A n \in Type : \A m \in Supers(n) : m \in Type
    BY DEF Supers
  <2>. QED  BY <1>0, <1>1, <1>9, <2>1
<1>15. ASSUME NEW n \in Type, Q[n] # {} PROVE Has(h, n)
  <2>1. P[n] # {}
    BY <1>9, <1>15
  <2>2. PICK b \in Address : d[b] # None /\ d[b].name = n
    BY <1>1, <2>1 DEF Has, IsOf
  <2>3. h[b] # None
    BY <1>11, <1>15, <2>2
  <2>. QED  BY <1>13, <2>2, <2>3 DEF Has, IsOf
<1>16. \A b, c \in Address : h[b] # None /\ h[c] # None /\ h[b].name = h[c].name => b = c
  BY <1>1, <1>13
\* What stays, its supertypes stay.
<1>17. ASSUME NEW b \in Address, h[b] # None, NEW c \in d[b].super
       PROVE  /\ c \in Address /\ d[c] # None /\ h[c] # None
              /\ h[c].refs >= h[b].refs + Cardinality(Q[h[c].name] \ Q[h[b].name])
  <2>. DEFINE n == d[b].name
              m == d[c].name
              D == P[m] \ P[n]
  <2>1. d[b] # None /\ SuperOK(d, b) /\ CountOK(d, P, lk, b)
    BY <1>1, <1>13, <1>17
  <2>2. c \in Address /\ d[c] # None /\ m \in Supers(n) /\ n \in Type /\ m \in Type
    BY <1>7, <1>17, <2>1 DEF SuperOK
  <2>3. d[c].refs >= d[b].refs + Cardinality(D)
    BY <1>17, <2>1 DEF CountOK
  <2>4. d[c].refs \in Nat /\ d[b].refs \in Nat /\ d[b].refs >= 1 /\ d[c].refs >= 1
    BY <1>7, <2>1, <2>2
  <2>5. IsFiniteSet(D) /\ Cardinality(D) \in Nat
    <3>1. D \in SUBSET Slot
      BY <1>1, <2>2
    <3>. QED  BY <3>1, SlotsFinite
  <2>6. n \in Names(e) => m \in Names(e)
    BY <1>2, <2>2
  <2>7. Q[m] \ Q[n] = D \ R \/ (R \subseteq P[n] /\ Q[m] \ Q[n] = D)
    BY <1>0, <1>9, <2>2
  <2>. HIDE DEF n, m, D
  <2>8. CASE n \in Names(e)
    <3>1. d[b].refs # 1 /\ h[b].refs = d[b].refs - 1
      BY <1>7, <1>13, <1>17, <2>1, <2>8 DEF n
    <3>2. d[c].refs >= 2
      BY <2>3, <2>4, <2>5, <3>1
    <3>3. h[c] # None
      BY <1>7, <2>2, <2>4, <3>2
    <3>4. h[c].refs = d[c].refs - 1
      BY <1>13, <2>2, <2>6, <2>8, <3>3 DEF m
    <3>5. Cardinality(Q[m] \ Q[n]) = Cardinality(D)
      <4>1. Q[m] \ Q[n] = D
        BY <1>0, <1>9, <2>2, <2>8 DEF D
      <4>. QED  BY <4>1
    <3>6. h[c].refs >= h[b].refs + Cardinality(Q[m] \ Q[n])
      BY <2>3, <2>4, <2>5, <3>1, <3>4, <3>5
    <3>. QED  BY <1>13, <1>17, <2>2, <3>3, <3>6 DEF n, m
  <2>9. CASE n \notin Names(e) /\ m \in Names(e)
    <3>1. R \subseteq D
      BY <1>0, <2>2, <2>9 DEF D
    <3>2. Cardinality(D) >= Cardinality(R)
      BY <2>5, <3>1, FS_Subset
    <3>3. h[b].refs = d[b].refs
      BY <1>13, <1>17, <2>9 DEF n
    <3>4. h[c] # None
      BY <1>6, <1>7, <2>2, <2>3, <2>4, <2>5, <3>2
    <3>5. h[c].refs = d[c].refs - 1
      BY <1>13, <2>2, <2>9, <3>4 DEF m
    <3>7. Cardinality(Q[m] \ Q[n]) = Cardinality(D) - Cardinality(R)
      <4>1. D \cap R = R
        BY <3>1
      <4>2. Q[m] \ Q[n] = D \ R
        BY <1>9, <1>10, <2>2, <2>9 DEF D
      <4>3. Cardinality(D \ R) = Cardinality(D) - Cardinality(R)
        BY <2>5, <4>1, FS_Difference
      <4>. QED  BY <4>2, <4>3
    <3>8. h[c].refs >= h[b].refs + Cardinality(Q[m] \ Q[n])
      BY <1>6, <2>3, <2>4, <2>5, <3>2, <3>3, <3>5, <3>7
    <3>. QED  BY <1>13, <1>17, <2>2, <3>4, <3>8 DEF n, m
  <2>10. CASE n \notin Names(e) /\ m \notin Names(e)
    <3>1. h[c] # None
      BY <1>7, <2>2, <2>10 DEF m
    <3>2. h[b].refs = d[b].refs /\ h[c].refs = d[c].refs
      BY <1>13, <1>17, <2>2, <2>10, <3>1 DEF n, m
    <3>3. Q[m] \ Q[n] = D
      BY <1>10, <2>2, <2>10 DEF D
    <3>4. h[c].refs >= h[b].refs + Cardinality(Q[m] \ Q[n])
      BY <2>3, <3>2, <3>3
    <3>. QED  BY <1>13, <1>17, <2>2, <3>1, <3>4 DEF n, m
  <2>. QED  BY <2>6, <2>8, <2>9, <2>10
<1>18. ASSUME NEW b \in Address, h[b] # None PROVE SuperOK(h, b) /\ CountOK(h, Q, lk2, b)
  <2>. DEFINE n == d[b].name
  <2>1. /\ d[b] # None /\ h[b].name = n /\ h[b].super = d[b].super /\ n \in Type
        /\ SuperOK(d, b) /\ CountOK(d, P, lk, b)
        /\ h[b].refs = IF n \in Names(e) THEN d[b].refs - 1 ELSE d[b].refs
    BY <1>1, <1>13, <1>18
  <2>2. /\ h[b].super = {c \in Address : d[c] # None /\ d[c].name \in Supers(n)}
        /\ \A m \in Supers(n) : Has(d, m)
    BY <2>1 DEF SuperOK
  <2>3. h[b].super = {c \in Address : h[c] # None /\ h[c].name \in Supers(n)}
    <3>1. \A c \in h[b].super : h[c] # None /\ h[c].name = d[c].name
      BY <1>13, <1>17, <1>18, <2>1
    <3>. QED  BY <1>13, <2>2, <3>1
  <2>4. ASSUME NEW m \in Supers(n) PROVE Has(h, m)
    <3>1. PICK c \in Address : d[c] # None /\ d[c].name = m
      BY <2>2 DEF Has, IsOf
    <3>2. c \in h[b].super
      BY <2>2, <3>1
    <3>3. h[c] # None
      BY <2>3, <3>2
    <3>. QED  BY <1>13, <3>1, <3>3 DEF Has, IsOf
  <2>5. h[b].refs >= Cardinality(Q[n]) /\ (n \notin lk2 => h[b].refs = Cardinality(Q[n]))
    <3>1. d[b].refs >= Cardinality(P[n]) /\ (n \notin lk => d[b].refs = Cardinality(P[n])) /\ d[b].refs \in Nat
      BY <1>7, <2>1 DEF CountOK
    <3>2. /\ Cardinality(P[n]) \in Nat /\ Cardinality(Q[n]) \in Nat
          /\ n \in Names(e) => Cardinality(Q[n]) = Cardinality(P[n]) - Cardinality(R)
          /\ n \notin Names(e) => Cardinality(Q[n]) = Cardinality(P[n])
      BY <1>10, <2>1
    <3>3. n \notin lk2 => n \notin lk
      BY <1>0
    <3>4. n \in Names(e) /\ n \notin lk2 => Cardinality(R) = 1
      BY <1>0
    <3>. HIDE DEF n
    <3>. QED  BY <1>6, <2>1, <3>1, <3>2, <3>3, <3>4
  <2>6. \A c \in h[b].super : h[c].refs >= h[b].refs + Cardinality(Q[h[c].name] \ Q[h[b].name])
    BY <1>17, <1>18, <2>1
  <2>. QED  BY <2>1, <2>3, <2>4, <2>5, <2>6 DEF SuperOK, CountOK
<1>19. HeapOK(h, Q, lk2)
  BY <1>12, <1>14, <1>15, <1>16, <1>18 DEF HeapOK
<1>. QED  BY <1>11, <1>13, <1>19 DEF h

-------------------------------------------------------------------------------
(***************************************************************************)
(* The types of elements                                                   *)
(***************************************************************************)
\* The attachments of elements that are of the type n.
SlotsOf(ty, tm) ==
  [n \in Type |-> {p \in Slot : ty[p[1]] # None /\ n \in Names(p[1]) /\ p[2] <= tm[p[1]]}]

\* A descriptor is there for each element that has a type, and the window goes
\* first and comes last.
LifeOK(ph, d, ty, tm, at) ==
  /\ ty \in [Elem -> Address \cup {None}] /\ tm \in [Elem -> Nat] /\ at \subseteq Elem
  /\ \A e \in Elem : /\ tm[e] <= MaxAttached + 1
                     /\ ty[e] # None => IsOf(d, ty[e], Class(e)) /\ tm[e] >= 1
                     /\ ty[e] = None /\ ph \in {"new", "open"} => tm[e] = 0
                     /\ ty[e] # None /\ ph = "open" => Win \in at
  /\ \A e \in at : ty[e] # None
  /\ ph \in {"new", "open", "closed", "freed"}
  /\ ph \in {"closed", "freed"} => ty[Win] = None /\ at = {}
  /\ tm[Win] <= 1 /\ (Win \notin at => ty[Win] = None)
  /\ ph = "new" => \A e \in Elem : ty[e] = None

TypesInv ==
  /\ HeapOK(desc, SlotsOf(type, times), leaked)
  /\ leaked \subseteq Type
  /\ LifeOK(phase, desc, type, times, attached)

LEMMA LookupFacts ==
  ASSUME NEW d, NEW n
  PROVE  /\ Lookup(d, n) = None => ~Has(d, n)
         /\ Lookup(d, n) # None => IsOf(d, Lookup(d, n), n)
         /\ ~Has(d, n) => Lookup(d, n) = None
<1>. DEFINE found == {a \in Address : d[a] # None /\ d[a].name = n}
<1>1. Lookup(d, n) = IF found = {} THEN None ELSE CHOOSE a \in found : TRUE
  BY DEF Lookup
<1>2. found = {} <=> ~Has(d, n)
  BY DEF Has, IsOf
<1>3. found # {} => Lookup(d, n) \in found
  BY <1>1
<1>4. None \notin Address
  BY ConstantsHold DEF Constants
<1>5. \A a \in found : IsOf(d, a, n)
  BY DEF IsOf
<1>. QED  BY <1>1, <1>2, <1>3, <1>4, <1>5 DEF IsOf

\* Where the types of e are, or are now put.
Placed(e, alloc) == [n \in Names(e) |-> IF n \in Missing(e) THEN alloc[n] ELSE Lookup(desc, n)]

LEMMA AttachRefs ==
  ASSUME TypesInv, NEW e \in Elem, NEW alloc \in [Missing(e) -> Free(desc)], IsInjective(alloc)
  PROVE  /\ Refs(e, Placed(e, alloc), desc, RefChain(e, Placed(e, alloc)))
         /\ Class(e) \in Names(e)
<1>. DEFINE at == Placed(e, alloc)
<1>1. \A n \in Missing(e) : n \in Names(e) /\ alloc[n] \in Address /\ desc[alloc[n]] = None /\ ~Has(desc, n)
  BY LookupFacts DEF Missing, Free
<1>2. \A n \in Names(e) : n \notin Missing(e) => IsOf(desc, Lookup(desc, n), n)
  BY LookupFacts DEF Missing
<1>3. \A n \in Names(e) : at[n] = IF n \in Missing(e) THEN alloc[n] ELSE Lookup(desc, n)
  BY DEF Placed
<1>4. \A n \in Names(e) : at[n] \in Address
  BY <1>1, <1>2, <1>3 DEF IsOf
<1>5. \A n \in Names(e) : IF desc[at[n]] # None THEN desc[at[n]].name = n ELSE ~Has(desc, n)
  BY <1>1, <1>2, <1>3 DEF IsOf
<1>6. at \in [Names(e) -> Address]
  BY <1>4 DEF Placed
<1>7. ASSUME NEW m \in Names(e), NEW n \in Names(e), at[m] = at[n] PROVE m = n
  <2>1. CASE m \in Missing(e) /\ n \in Missing(e)
    <3>1. alloc[m] = alloc[n] /\ DOMAIN alloc = Missing(e)
      BY <1>3, <1>7, <2>1
    <3>. QED  BY <2>1, <3>1 DEF IsInjective
  <2>2. CASE m \notin Missing(e) \/ n \notin Missing(e)
    BY <1>1, <1>2, <1>3, <1>7, <2>2 DEF IsOf
  <2>. QED  BY <2>1, <2>2
<1>8. RefChain(e, at) =
        [a \in Address |->
            IF \E n \in Names(e) : at[n] = a
            THEN LET i == CHOOSE i \in DOMAIN Chain[e] : at[Chain[e][i]] = a IN
                 IF desc[a] # None THEN [desc[a] EXCEPT !.refs = @ + 1]
                 ELSE [name |-> Chain[e][i], refs |-> 1, super |-> {at[Chain[e][j]] : j \in 1 .. i - 1}]
            ELSE desc[a]]
  BY DEF RefChain
<1>. HIDE DEF at
<1>9. Refs(e, at, desc, RefChain(e, at))
  BY <1>5, <1>6, <1>7, <1>8 DEF Refs
<1>. QED  BY <1>9, NamesFacts DEF at

LEMMA AttachTypes ==
  ASSUME TypesInv, NEW e \in Elem, NEW at, NEW h, Refs(e, at, desc, h),
         phase = "open", times[e] <= MaxAttached, e = Win => Win \notin attached, e = Win \/ Win \in attached,
         desc' = h, type' = [type EXCEPT ![e] = at[Class(e)]], attached' = attached \cup {e},
         times' = [times EXCEPT ![e] = @ + 1], UNCHANGED << phase, leaked >>
  PROVE  /\ TypesInv'
         /\ \A a \in Address : desc[a] # None =>
              desc'[a] # None /\ desc'[a].name = desc[a].name /\ desc'[a].super = desc[a].super
         /\ \A n \in Names(e) : IsOf(desc', at[n], n)
<1>. DEFINE P == SlotsOf(type, times)
            Q == SlotsOf(type', times')
            x == << e, times[e] + 1 >>
<1>1. /\ HeapOK(desc, P, leaked) /\ leaked \subseteq Type /\ LifeOK(phase, desc, type, times, attached)
  BY DEF TypesInv
<1>2. /\ type \in [Elem -> Address \cup {None}] /\ times \in [Elem -> Nat] /\ attached \subseteq Elem
      /\ \A f \in Elem : /\ times[f] <= MaxAttached + 1
                         /\ type[f] # None => IsOf(desc, type[f], Class(f)) /\ times[f] >= 1
                         /\ type[f] = None => times[f] = 0
                         /\ type[f] # None => Win \in attached
      /\ \A f \in attached : type[f] # None
      /\ times[Win] <= 1 /\ (Win \notin attached => type[Win] = None)
  BY <1>1 DEF LifeOK
<1>3. Win \in Elem /\ MaxAttached \in Nat /\ None \notin Address /\ Class(e) \in Names(e)
  BY ConstantsHold, NamesFacts DEF Constants
<1>4. x \in Slot
  <2>1. times[e] \in Nat
    BY <1>2
  <2>2. times[e] + 1 \in 1 .. MaxAttached + 1
    BY <1>3, <2>1
  <2>. QED  BY <2>2 DEF Slot
<1>5. \A n \in Type : x \notin P[n]
  <2>1. times[e] \in Nat /\ ~(times[e] + 1 <= times[e])
    BY <1>2
  <2>. QED  BY <2>1 DEF SlotsOf
<1>6. at[Class(e)] \in Address /\ type'[e] = at[Class(e)] /\ type'[e] # None /\ times'[e] = times[e] + 1
  BY <1>2, <1>3 DEF Refs
<1>7. \A f \in Elem : f # e => type'[f] = type[f] /\ times'[f] = times[f]
  BY <1>2
<1>8. Q = [n \in Type |-> IF n \in Names(e) THEN P[n] \cup {x} ELSE P[n]]
  <2>1. ASSUME NEW n \in Type, NEW p \in Slot
        PROVE  p \in Q[n] <=> p \in (IF n \in Names(e) THEN P[n] \cup {x} ELSE P[n])
    <3>1. PICK f \in Elem, k \in 1 .. MaxAttached + 1 : p = << f, k >>
      BY DEF Slot
    <3>2. /\ p \in Q[n] <=> type'[f] # None /\ n \in Names(f) /\ k <= times'[f]
          /\ p \in P[n] <=> type[f] # None /\ n \in Names(f) /\ k <= times[f]
      BY <3>1 DEF SlotsOf
    <3>3. CASE f # e
      BY <1>7, <3>1, <3>2, <3>3
    <3>4. CASE f = e
      <4>1. times[e] \in Nat /\ k \in Nat /\ k >= 1 /\ (type[e] = None => times[e] = 0)
        BY <1>2, <1>3
      <4>2. k <= times[e] + 1 <=> (type[e] # None /\ k <= times[e]) \/ k = times[e] + 1
        BY <1>2, <4>1
      <4>3. p = x <=> k = times[e] + 1
        BY <3>1, <3>4
      <4>. QED  BY <1>6, <3>2, <3>4, <4>2, <4>3
    <3>. QED  BY <3>3, <3>4
  <2>2. \A n \in Type : Q[n] \subseteq Slot /\ P[n] \subseteq Slot
    BY DEF SlotsOf
  <2>3. \A n \in Type : Q[n] = IF n \in Names(e) THEN P[n] \cup {x} ELSE P[n]
    BY <1>4, <2>1, <2>2
  <2>4. Q = [n \in Type |-> Q[n]]
    BY DEF SlotsOf
  <2>. QED  BY <2>3, <2>4
<1>. HIDE DEF x, P, Q
<1>9. /\ HeapOK(h, Q, leaked)
      /\ \A a \in Address : desc[a] # None => h[a] # None /\ h[a].name = desc[a].name /\ h[a].super = desc[a].super
      /\ \A n \in Names(e) : IsOf(h, at[n], n)
  BY <1>1, <1>4, <1>5, <1>8, RefsCount
<1>10. LifeOK(phase, h, type', times', attached')
  <2>1. type' \in [Elem -> Address \cup {None}] /\ times' \in [Elem -> Nat] /\ attached' \subseteq Elem
    BY <1>2, <1>6
  <2>2. \A a \in Address, n \in Type : IsOf(desc, a, n) => IsOf(h, a, n)
    BY <1>9 DEF IsOf
  <2>3. Win \in attached'
    OBVIOUS
  <2>4. ASSUME NEW f \in Elem
        PROVE  /\ times'[f] <= MaxAttached + 1
               /\ type'[f] # None => IsOf(h, type'[f], Class(f)) /\ times'[f] >= 1
               /\ type'[f] = None => times'[f] = 0
    <3>1. CASE f = e
      <4>1. times[e] \in Nat
        BY <1>2
      <4>. QED  BY <1>3, <1>6, <1>9, <3>1, <4>1
    <3>2. CASE f # e
      <4>1. Class(f) \in Type
        BY NamesFacts
      <4>. QED  BY <1>2, <1>7, <2>2, <3>2, <4>1 DEF IsOf
    <3>. QED  BY <3>1, <3>2
  <2>5. \A f \in attached' : type'[f] # None
    BY <1>2, <1>6, <1>7
  <2>6. times'[Win] <= 1
    <3>1. CASE e = Win
      BY <1>2, <1>3, <1>6, <3>1
    <3>2. CASE e # Win
      BY <1>2, <1>3, <1>7, <3>2
    <3>. QED  BY <3>1, <3>2
  <2>. QED  BY <2>1, <2>3, <2>4, <2>5, <2>6 DEF LifeOK
<1>. QED  BY <1>1, <1>9, <1>10 DEF TypesInv, Q

\* Finalising e, the window's closing included.
LEMMA UnrefTypes ==
  ASSUME TypesInv, NEW e \in Elem, type[e] # None,
         desc' = Unref(type[e]), type' = [type EXCEPT ![e] = None],
         \A f \in Elem : f # e => times'[f] = times[f],
         leaked' = leaked \cup IF times[e] > 1 THEN Names(e) ELSE {}
  PROVE  /\ HeapOK(desc', SlotsOf(type', times'), leaked') /\ leaked' \subseteq Type
         /\ \A f \in Elem : f # e => type'[f] = type[f]
         /\ \A f \in Elem : type'[f] # None => IsOf(desc', type'[f], Class(f))
         /\ \A b \in Address : desc'[b] # None =>
              desc[b] # None /\ desc'[b].name = desc[b].name /\ desc'[b].super = desc[b].super
         /\ \A b \in Address : desc[b] # None /\ desc'[b] = None =>
              /\ desc[b].name \in Names(e)
              /\ \A f \in Elem : f # e /\ type[f] # None => desc[b].name \notin Names(f)
<1>. DEFINE P == SlotsOf(type, times)
            Q == SlotsOf(type', times')
            R == {p \in Slot : p[1] = e /\ p[2] <= times[e]}
            lk2 == leaked'
<1>1. /\ HeapOK(desc, P, leaked) /\ leaked \subseteq Type /\ LifeOK(phase, desc, type, times, attached)
  BY DEF TypesInv
<1>2. /\ type \in [Elem -> Address \cup {None}] /\ times \in [Elem -> Nat]
      /\ \A f \in Elem : type[f] # None => IsOf(desc, type[f], Class(f)) /\ times[f] >= 1
  BY <1>1 DEF LifeOK
<1>3. type'[e] = None /\ \A f \in Elem : f # e => type'[f] = type[f]
  BY <1>2
<1>4. Names(e) \subseteq Type /\ MaxAttached \in Nat
  BY ConstantsHold, NamesFacts DEF Constants
<1>5. ASSUME NEW f \in Elem, type[f] # None, NEW n \in Names(f) PROVE << f, 1 >> \in P[n]
  <2>1. 1 \in 1 .. MaxAttached + 1 /\ 1 <= times[f]
    BY <1>2, <1>4, <1>5
  <2>2. n \in Type
    BY <1>5, NamesFacts
  <2>. QED  BY <1>5, <2>1, <2>2 DEF SlotsOf, Slot
<1>6. << e, 1 >> \in R
  <2>1. 1 \in 1 .. MaxAttached + 1 /\ 1 <= times[e]
    BY <1>2, <1>4
  <2>. QED  BY <2>1 DEF Slot
<1>7. \A n \in Names(e) : R \subseteq P[n]
  BY <1>4 DEF SlotsOf
<1>8. \A n \in Type : n \notin Names(e) => R \cap P[n] = {}
  BY DEF SlotsOf
<1>9. Q = [n \in Type |-> P[n] \ R]
  <2>1. ASSUME NEW n \in Type, NEW p \in Slot PROVE p \in Q[n] <=> p \in P[n] /\ p \notin R
    <3>1. PICK f \in Elem, k \in 1 .. MaxAttached + 1 : p = << f, k >>
      BY DEF Slot
    <3>2. /\ p \in Q[n] <=> type'[f] # None /\ n \in Names(f) /\ k <= times'[f]
          /\ p \in P[n] <=> type[f] # None /\ n \in Names(f) /\ k <= times[f]
          /\ p \in R <=> f = e /\ k <= times[e]
      BY <3>1 DEF SlotsOf
    <3>. QED  BY <1>3, <3>2
  <2>2. \A n \in Type : Q[n] \subseteq Slot /\ P[n] \subseteq Slot
    BY DEF SlotsOf
  <2>3. \A n \in Type : Q[n] = P[n] \ R
    BY <2>1, <2>2
  <2>4. Q = [n \in Type |-> Q[n]]
    BY DEF SlotsOf
  <2>. QED  BY <2>3, <2>4
<1>10. Cardinality(R) = 1 \/ Names(e) \subseteq lk2
  <2>1. CASE times[e] > 1
    BY <2>1
  <2>2. CASE ~(times[e] > 1)
    <3>1. times[e] = 1
      BY <1>2, <2>2
    <3>2. \A k \in 1 .. MaxAttached + 1 : k <= times[e] => k = 1
      BY <1>4, <3>1
    <3>3. R = {<< e, 1 >>}
      BY <1>6, <3>2 DEF Slot
    <3>. QED  BY <3>3, FS_Singleton
  <2>. QED  BY <2>1, <2>2
<1>11. leaked \subseteq lk2 /\ lk2 \subseteq Type
  BY <1>1, <1>4
<1>12. R \in SUBSET Slot /\ R # {} /\ IsOf(desc, type[e], Class(e))
  BY <1>2, <1>6
<1>13. \A b \in R : b[1] = e
  OBVIOUS
<1>14. desc' = Unrefs(type[e], desc)
  BY DEF Unref, Unrefs
<1>. HIDE DEF P, Q, R, lk2
<1>18. Without(e, R, P, Q, leaked, lk2)
  BY <1>7, <1>8, <1>9, <1>10, <1>11, <1>12 DEF Without
<1>15. /\ HeapOK(desc', Q, lk2)
       /\ \A b \in Address : desc'[b] # None =>
            desc[b] # None /\ desc'[b].name = desc[b].name /\ desc'[b].super = desc[b].super
       /\ \A b \in Address : desc[b] # None /\ desc'[b] = None =>
             desc[b].name \in Names(e) /\ \A p \in P[desc[b].name] : p \in R
  <2>. DEFINE g == Unrefs(type[e], desc)
  <2>1. /\ HeapOK(g, Q, lk2)
        /\ \A b \in Address : g[b] # None =>
             desc[b] # None /\ g[b].name = desc[b].name /\ g[b].super = desc[b].super
        /\ \A b \in Address : desc[b] # None /\ g[b] = None =>
             desc[b].name \in Names(e) /\ \A p \in P[desc[b].name] : p \in R
    BY <1>1, <1>12, <1>18, UnrefCount, ZenonT(30)
  <2>. HIDE DEF g
  <2>2. desc' = g
    BY <1>14 DEF g
  <2>. QED  BY <2>1, <2>2
<1>16. ASSUME NEW b \in Address, desc[b] # None, desc'[b] = None, NEW f \in Elem, f # e, type[f] # None,
              desc[b].name \in Names(f)
       PROVE  FALSE
  <2>1. << f, 1 >> \in R
    BY <1>5, <1>15, <1>16
  <2>. QED  BY <1>13, <1>16, <2>1
<1>17. ASSUME NEW f \in Elem, type'[f] # None PROVE IsOf(desc', type'[f], Class(f))
  <2>1. f # e /\ type'[f] = type[f]
    BY <1>3, <1>17
  <2>2. IsOf(desc, type[f], Class(f)) /\ Class(f) \in Names(f)
    BY <1>2, <1>17, <2>1, NamesFacts
  <2>3. desc'[type[f]] # None
    BY <1>16, <1>17, <2>1, <2>2 DEF IsOf
  <2>. QED  BY <1>15, <2>1, <2>2, <2>3 DEF IsOf
<1>. QED  BY <1>3, <1>11, <1>15, <1>16, <1>17 DEF Q, lk2

LEMMA EmptyHeap ==
  ASSUME NEW d, NEW ty, NEW tm, NEW lk, d = [a \in Address |-> None], ty = [e \in Elem |-> None]
  PROVE  HeapOK(d, SlotsOf(ty, tm), lk)
<1>1. \A n \in Type : SlotsOf(ty, tm)[n] = {}
  BY DEF SlotsOf, Slot
<1>2. SlotsOf(ty, tm) \in [Type -> SUBSET Slot]
  BY DEF SlotsOf
<1>3. \A n \in Type : \A m \in Supers(n) : m \in Type
  BY DEF Supers
<1>. QED  BY <1>1, <1>2, <1>3 DEF HeapOK

LEMMA TypesInit == Init => TypesInv
<1>. SUFFICES ASSUME Init PROVE TypesInv
  OBVIOUS
<1>1. HeapOK(desc, SlotsOf(type, times), leaked)
  BY EmptyHeap DEF Init
<1>2. Win \in Elem /\ MaxAttached \in Nat
  BY ConstantsHold DEF Constants
<1>3. LifeOK(phase, desc, type, times, attached)
  BY <1>2 DEF Init, LifeOK
<1>. QED  BY <1>1, <1>3 DEF TypesInv, Init

LEMMA TypesNext == TypesInv /\ [Next]_vars => TypesInv'
<1>. SUFFICES ASSUME TypesInv, [Next]_vars PROVE TypesInv'
  OBVIOUS
<1>1. /\ HeapOK(desc, SlotsOf(type, times), leaked) /\ leaked \subseteq Type
      /\ LifeOK(phase, desc, type, times, attached)
  BY DEF TypesInv
<1>2. Win \in Elem /\ MaxAttached \in Nat
  BY ConstantsHold DEF Constants
<1>3. /\ type \in [Elem -> Address \cup {None}] /\ times \in [Elem -> Nat] /\ attached \subseteq Elem
      /\ \A e \in Elem : /\ times[e] <= MaxAttached + 1
                         /\ type[e] # None => IsOf(desc, type[e], Class(e)) /\ times[e] >= 1
                         /\ type[e] = None /\ phase \in {"new", "open"} => times[e] = 0
                         /\ type[e] # None /\ phase = "open" => Win \in attached
      /\ \A e \in attached : type[e] # None
      /\ phase \in {"closed", "freed"} => type[Win] = None /\ attached = {}
      /\ times[Win] <= 1 /\ (Win \notin attached => type[Win] = None)
      /\ phase = "new" => \A e \in Elem : type[e] = None
  BY <1>1 DEF LifeOK
<1>4. ASSUME NEW e \in Elem, Attach(e) PROVE TypesInv'
  <2>1. /\ phase = "open" /\ e \notin attached /\ (e = Win \/ Win \in attached)
        /\ times[e] < IF Last(Chain[e]) \in leaked THEN 1 ELSE MaxAttached
        /\ times' = [times EXCEPT ![e] = @ + 1] /\ UNCHANGED << phase, leaked >>
    BY <1>4 DEF Attach
  <2>2. PICK alloc \in [Missing(e) -> Free(desc)] :
          /\ IsInjective(alloc)
          /\ LET at == Placed(e, alloc) IN
             /\ desc' = RefChain(e, at) /\ type' = [type EXCEPT ![e] = at[Last(Chain[e])]]
             /\ attached' = attached \cup {e}
    BY <1>4 DEF Attach, Placed
  <2>3. Refs(e, Placed(e, alloc), desc, RefChain(e, Placed(e, alloc)))
    BY <2>2, AttachRefs
  <2>4. times[e] <= MaxAttached
    <3>1. times[e] \in Nat /\ (type[e] = None => times[e] = 0)
      BY <1>3, <2>1
    <3>. QED  BY <1>2, <2>1, <3>1
  <2>. QED  BY <2>1, <2>2, <2>3, <2>4, AttachTypes DEF Class
<1>5. ASSUME NEW e \in Elem, Detach(e) PROVE TypesInv'
  <2>1. /\ phase = "open" /\ e # Win /\ attached' = attached \ {e}
        /\ UNCHANGED << phase, desc, type, times, leaked >>
    BY <1>5 DEF Detach
  <2>2. LifeOK(phase', desc', type', times', attached')
    BY <1>3, <2>1 DEF LifeOK
  <2>. QED  BY <1>1, <2>1, <2>2 DEF TypesInv
<1>6. ASSUME NEW e \in Elem, Fini(e) PROVE TypesInv'
  <2>1. /\ phase \in {"open", "closed"} /\ e \notin attached /\ type[e] # None
        /\ desc' = Unref(type[e]) /\ type' = [type EXCEPT ![e] = None] /\ times' = [times EXCEPT ![e] = 0]
        /\ leaked' = leaked \cup IF times[e] > 1 THEN Names(e) ELSE {}
        /\ UNCHANGED << phase, attached >>
    BY <1>6 DEF Fini
  <2>2. times'[e] = 0 /\ type'[e] = None /\ \A f \in Elem : f # e => times'[f] = times[f]
    BY <1>3, <2>1
  <2>3. /\ HeapOK(desc', SlotsOf(type', times'), leaked') /\ leaked' \subseteq Type
        /\ \A f \in Elem : f # e => type'[f] = type[f]
        /\ \A f \in Elem : type'[f] # None => IsOf(desc', type'[f], Class(f))
    BY <2>1, <2>2, UnrefTypes
  <2>4. type' \in [Elem -> Address \cup {None}] /\ times' \in [Elem -> Nat]
    BY <1>3, <2>1
  <2>5. ASSUME NEW f \in Elem
        PROVE  /\ times'[f] <= MaxAttached + 1
               /\ type'[f] # None => IsOf(desc', type'[f], Class(f)) /\ times'[f] >= 1
               /\ type'[f] = None /\ phase' \in {"new", "open"} => times'[f] = 0
               /\ type'[f] # None /\ phase' = "open" => Win \in attached'
    BY <1>2, <1>3, <2>1, <2>2, <2>3
  <2>6. times'[Win] <= 1 /\ (Win \notin attached' => type'[Win] = None)
    BY <1>2, <1>3, <2>1, <2>2, <2>3
  <2>7. /\ attached' \subseteq Elem /\ phase' \in {"new", "open", "closed", "freed"} /\ phase' # "new"
        /\ \A f \in attached' : type'[f] # None
        /\ phase' \in {"closed", "freed"} => type'[Win] = None /\ attached' = {}
    BY <1>2, <1>3, <2>1, <2>2, <2>3
  <2>8. LifeOK(phase', desc', type', times', attached')
    BY <2>4, <2>5, <2>6, <2>7 DEF LifeOK
  <2>. QED  BY <2>3, <2>8 DEF TypesInv
<1>7. CASE Close
  <2>1. /\ phase = "open" /\ phase' = "closed" /\ attached' = {} /\ UNCHANGED << times, leaked >>
        /\ desc' = IF type[Win] = None THEN desc ELSE Unref(type[Win])
        /\ type' = [type EXCEPT ![Win] = None]
    BY <1>7 DEF Close
  <2>2. /\ HeapOK(desc', SlotsOf(type', times'), leaked') /\ leaked' \subseteq Type
        /\ \A f \in Elem : type'[f] # None => IsOf(desc', type'[f], Class(f))
        /\ \A f \in Elem : f # Win => type'[f] = type[f]
    <3>1. CASE type[Win] = None
      <4>1. type' = type
        BY <1>2, <1>3, <2>1, <3>1
      <4>. QED  BY <1>1, <1>3, <2>1, <3>1, <4>1
    <3>2. CASE type[Win] # None
      <4>1. leaked' = leaked \cup IF times[Win] > 1 THEN Names(Win) ELSE {}
        <5>1. ~(times[Win] > 1)
          BY <1>2, <1>3
        <5>. QED  BY <2>1, <5>1
      <4>2. desc' = Unref(type[Win])
        BY <2>1, <3>2
      <4>. QED  BY <1>2, <2>1, <3>2, <4>1, <4>2, UnrefTypes
    <3>. QED  BY <3>1, <3>2
  <2>3. type' \in [Elem -> Address \cup {None}] /\ type'[Win] = None
    BY <1>2, <1>3, <2>1
  <2>4. LifeOK(phase', desc', type', times', attached')
    BY <1>3, <2>1, <2>2, <2>3 DEF LifeOK
  <2>. QED  BY <2>2, <2>4 DEF TypesInv
<1>8. CASE FreeAllTypes
  <2>1. /\ phase' = "freed" /\ desc' = [a \in Address |-> None] /\ type' = [e \in Elem |-> None]
        /\ phase = "closed" /\ UNCHANGED << times, leaked, attached >>
    BY <1>8 DEF FreeAllTypes
  <2>2. HeapOK(desc', SlotsOf(type', times'), leaked')
    BY <2>1, EmptyHeap
  <2>3. LifeOK(phase', desc', type', times', attached')
    BY <1>2, <1>3, <2>1 DEF LifeOK
  <2>. QED  BY <1>1, <2>1, <2>2, <2>3 DEF TypesInv
<1>9. CASE Open
  <2>1. phase' = "open" /\ phase = "new" /\ UNCHANGED << desc, type, times, leaked, attached >>
    BY <1>9 DEF Open, types
  <2>2. LifeOK(phase', desc', type', times', attached')
    BY <1>3, <2>1 DEF LifeOK
  <2>. QED  BY <1>1, <2>1, <2>2 DEF TypesInv
<1>10. ASSUME UNCHANGED << phase, types >> PROVE TypesInv'
  <2>1. UNCHANGED << phase, desc, type, times, leaked, attached >>
    BY <1>10 DEF types
  <2>. QED  BY <2>1 DEF TypesInv
<1>11. ASSUME NEW f \in External, LoadExternal(f) \/ FreeExternal(f) PROVE TypesInv'
  BY <1>10, <1>11 DEF LoadExternal, FreeExternal
<1>12. CASE SetDpi
  BY <1>10, <1>12 DEF SetDpi
<1>13. CASE UNCHANGED vars
  BY <1>10, <1>13 DEF vars
<1>. QED  BY <1>4, <1>5, <1>6, <1>7, <1>8, <1>9, <1>11, <1>12, <1>13 DEF Next

LEMMA TypesCount == TypesInv => TypesLive /\ FreedWithLast
<1>. SUFFICES ASSUME TypesInv PROVE TypesLive /\ FreedWithLast
  OBVIOUS
<1>. DEFINE P == SlotsOf(type, times)
<1>1. /\ HeapOK(desc, P, leaked) /\ LifeOK(phase, desc, type, times, attached)
  BY DEF TypesInv
<1>2. /\ desc \in [Address -> Descriptor \cup {None}]
      /\ P \in [Type -> SUBSET Slot]
      /\ \A a \in Address : desc[a] # None => SuperOK(desc, a) /\ CountOK(desc, P, leaked, a)
  BY <1>1 DEF HeapOK
<1>3. ASSUME NEW e \in Elem, type[e] # None
      PROVE  /\ desc[type[e]] # None /\ desc[type[e]].name = Last(Chain[e])
             /\ \A a \in desc[type[e]].super : desc[a] # None
             /\ {desc[a].name : a \in desc[type[e]].super} = ToSet(Front(Chain[e]))
  <2>1. type[e] \in Address /\ desc[type[e]] # None /\ desc[type[e]].name = Class(e)
    BY <1>1, <1>3 DEF LifeOK, IsOf
  <2>2. /\ desc[type[e]].super = {b \in Address : desc[b] # None /\ desc[b].name \in Supers(Class(e))}
        /\ \A m \in Supers(Class(e)) : Has(desc, m)
    BY <1>2, <2>1 DEF SuperOK
  <2>3. {desc[a].name : a \in desc[type[e]].super} = Supers(Class(e))
    BY <2>2 DEF Has, IsOf
  <2>. QED  BY <2>1, <2>2, <2>3, NamesFacts DEF Class
<1>4. ASSUME NEW a \in Address, desc[a] # None, desc[a].name \notin leaked
      PROVE  \E e \in Elem : type[e] # None /\ desc[a].name \in Names(e)
  <2>1. desc[a].refs = Cardinality(P[desc[a].name])
    BY <1>2, <1>4 DEF CountOK
  <2>2. desc[a].refs > 0 /\ desc[a].name \in Type
    BY <1>2, <1>4, HeapType
  <2>3. P[desc[a].name] # {}
    <3>1. Cardinality({}) = 0
      BY FS_EmptySet
    <3>. HIDE DEF P
    <3>. QED  BY <2>1, <2>2, <3>1
  <2>4. PICK p \in P[desc[a].name] : TRUE
    BY <2>3
  <2>5. p \in Slot /\ type[p[1]] # None /\ desc[a].name \in Names(p[1])
    BY <2>2, <2>4 DEF SlotsOf
  <2>. QED  BY <2>5 DEF Slot
<1>5. TypesLive
  BY <1>3 DEF TypesLive
<1>6. FreedWithLast
  <2>1. \A a \in Address : desc[a] # None =>
          desc[a].name \in leaked \cup UNION {Names(e) : e \in {e \in Elem : type[e] # None}}
    BY <1>4
  <2>. QED  BY <2>1 DEF FreedWithLast
<1>. QED  BY <1>5, <1>6

-------------------------------------------------------------------------------
(***************************************************************************)
(* Fonts                                                                   *)
(***************************************************************************)
Users(tf, a) == {f \in Font : tf[f] = a}

FontInv ==
  /\ tx \in [Address -> TextureFont \cup {None}] /\ txfont \in [Font -> Address \cup {None}]
  /\ managed \subseteq Style /\ dpi \in Nat
  /\ \A a \in Address :
       IF Users(txfont, a) = {} THEN tx[a] = None
       ELSE tx[a] # None /\ tx[a].refs = Cardinality(Users(txfont, a))
  /\ \A f, g \in managed : Key[f] = Key[g] <=> txfont[f] = txfont[g]
  /\ \A f \in managed : tx[txfont[f]].key = Key[f] /\ tx[txfont[f]].dpi = dpi
  /\ \A s \in Style : txfont[s] # None <=> s \in managed

LEMMA FontConstants ==
  /\ Style = 1 .. Len(Styles) /\ Len(Styles) \in Nat /\ Len(Styles) >= 1
  /\ IsFiniteSet(Style) /\ IsFiniteSet(Font) /\ External \cap Style = {}
  /\ \A S \in SUBSET Font : IsFiniteSet(S) /\ Cardinality(S) \in Nat /\ (Cardinality(S) = 0 <=> S = {})
  /\ None \notin Address /\ None \notin TextureFont
<1>1. Style = 1 .. Len(Styles) /\ Len(Styles) \in Nat /\ Len(Styles) >= 1
  BY ResourcesAssumption DEF Style
<1>2. IsFiniteSet(Style)
  BY <1>1, FS_Interval
<1>3. IsFiniteSet(Font)
  BY <1>2, FS_Union, ResourcesAssumption DEF Font
<1>4. \A S \in SUBSET Font : IsFiniteSet(S) /\ Cardinality(S) \in Nat /\ (Cardinality(S) = 0 <=> S = {})
  BY <1>3, FS_Subset, FS_CardinalityType, FS_EmptySet
<1>. QED  BY <1>1, <1>2, <1>3, <1>4, ResourcesAssumption

\* A managed font is where its key is.
LEMMA ManagedFacts ==
  ASSUME FontInv, NEW f \in managed
  PROVE  /\ f \in Font /\ f \in Style /\ txfont[f] \in Address /\ tx[txfont[f]] # None
         /\ tx[txfont[f]] \in TextureFont
<1>1. f \in Style /\ txfont[f] # None /\ f \in Font
  BY DEF FontInv, Font
<1>2. txfont[f] \in Address
  BY <1>1 DEF FontInv
<1>3. f \in Users(txfont, txfont[f])
  BY <1>1 DEF Users
<1>. QED  BY <1>1, <1>2, <1>3 DEF FontInv

LEMMA FontsLoaded ==
  ASSUME FontInv, NEW new \in SUBSET Font, NEW where, \A f \in new : where[f] \in Address /\ txfont[f] = None,
         LoadFonts(new, where), UNCHANGED dpi
  PROVE  FontInv'
<1>1. /\ tx \in [Address -> TextureFont \cup {None}] /\ txfont \in [Font -> Address \cup {None}]
      /\ managed \subseteq Style /\ dpi \in Nat
      /\ \A a \in Address :
           IF Users(txfont, a) = {} THEN tx[a] = None
           ELSE tx[a] # None /\ tx[a].refs = Cardinality(Users(txfont, a))
      /\ \A f, g \in managed : Key[f] = Key[g] <=> txfont[f] = txfont[g]
      /\ \A f \in managed : tx[txfont[f]].key = Key[f] /\ tx[txfont[f]].dpi = dpi
      /\ \A s \in Style : txfont[s] # None <=> s \in managed
  BY DEF FontInv
<1>. DEFINE N(a) == {f \in new : where[f] = a}
<1>2. /\ \A f, g \in new : where[f] = where[g] <=> Key[f] = Key[g]
      /\ \A f \in new : IF Duplicate(f) # {} THEN where[f] \in Duplicate(f) ELSE tx[where[f]] = None
      /\ txfont' = [f \in Font |-> IF f \in new THEN where[f] ELSE txfont[f]]
      /\ tx' = [a \in Address |->
                  IF N(a) = {} THEN tx[a]
                  ELSE IF tx[a] # None THEN [tx[a] EXCEPT !.refs = @ + Cardinality(N(a))]
                  ELSE [key |-> Key[CHOOSE f \in N(a) : TRUE], refs |-> Cardinality(N(a)), dpi |-> dpi]]
      /\ managed' = managed \cup (new \ External)
  BY DEF LoadFonts
<1>3. /\ \A S \in SUBSET Font : IsFiniteSet(S) /\ Cardinality(S) \in Nat /\ (Cardinality(S) = 0 <=> S = {})
      /\ None \notin Address /\ None \notin TextureFont /\ External \cap Style = {}
      /\ Font = Style \cup External
  BY FontConstants DEF Font
<1>4. \A f \in Font : txfont'[f] = IF f \in new THEN where[f] ELSE txfont[f]
  BY <1>2
<1>5. txfont' \in [Font -> Address \cup {None}]
  <2>1. \A f \in Font : txfont'[f] \in Address \cup {None}
    BY <1>1, <1>4
  <2>. QED  BY <1>2, <2>1
<1>6. ASSUME NEW a \in Address
      PROVE  /\ N(a) \in SUBSET Font /\ Users(txfont, a) \in SUBSET Font
             /\ Users(txfont', a) = Users(txfont, a) \cup N(a)
             /\ Cardinality(Users(txfont', a)) = Cardinality(Users(txfont, a)) + Cardinality(N(a))
  <2>1. N(a) \in SUBSET Font /\ Users(txfont, a) \in SUBSET Font
    BY DEF Users
  <2>2. Users(txfont', a) = Users(txfont, a) \cup N(a)
    BY <1>3, <1>4 DEF Users
  <2>3. Users(txfont, a) \cap N(a) = {}
    BY <1>3 DEF Users
  <2>. DEFINE U == Users(txfont, a)
  <2>4. IsFiniteSet(U) /\ IsFiniteSet(N(a))
    BY <1>3, <2>1
  <2>5. Cardinality(U \cup N(a)) = Cardinality(U) + Cardinality(N(a)) - Cardinality(U \cap N(a))
    BY <2>4, FS_Union
  <2>6. Cardinality(U \cap N(a)) = 0
    BY <2>3, FS_EmptySet
  <2>7. Cardinality(U) \in Nat /\ Cardinality(N(a)) \in Nat
    BY <1>3, <2>1
  <2>8. Cardinality(Users(txfont', a)) = Cardinality(U \cup N(a))
    BY <2>2
  <2>. QED  BY <2>1, <2>2, <2>5, <2>6, <2>7, <2>8
<1>7. ASSUME NEW a \in Address, N(a) # {}
      PROVE  /\ tx'[a] \in TextureFont /\ tx'[a].refs = Cardinality(Users(txfont', a))
             /\ tx[a] # None => tx'[a].key = tx[a].key /\ tx'[a].dpi = tx[a].dpi
             /\ tx[a] = None => tx'[a].dpi = dpi /\ \E f \in N(a) : tx'[a].key = Key[f]
  <2>1. Cardinality(N(a)) \in Nat /\ Cardinality(N(a)) # 0
    BY <1>3, <1>6, <1>7
  <2>2. CASE tx[a] # None
    <3>1. tx'[a] = [tx[a] EXCEPT !.refs = @ + Cardinality(N(a))]
      BY <1>2, <1>7, <2>2
    <3>2. tx[a] \in TextureFont /\ tx[a].refs = Cardinality(Users(txfont, a))
      BY <1>1, <2>2
    <3>3. tx[a].refs \in Nat
      BY <3>2 DEF TextureFont
    <3>. HIDE DEF N
    <3>4. tx'[a] \in TextureFont /\ tx'[a].refs = tx[a].refs + Cardinality(N(a))
          /\ tx'[a].key = tx[a].key /\ tx'[a].dpi = tx[a].dpi
      BY <2>1, <3>1, <3>2 DEF TextureFont
    <3>. QED  BY <1>6, <2>2, <3>2, <3>4
  <2>3. CASE tx[a] = None
    <3>. DEFINE g == CHOOSE f \in N(a) : TRUE
    <3>1. g \in N(a)
      BY <1>7
    <3>2. tx'[a] = [key |-> Key[g], refs |-> Cardinality(N(a)), dpi |-> dpi]
      BY <1>2, <1>7, <2>3
    <3>3. g \in Font
      BY <1>6, <3>1
    <3>4. Users(txfont, a) = {}
      BY <1>1, <2>3
    <3>5. Cardinality(Users(txfont, a)) = 0
      BY <3>4, FS_EmptySet
    <3>. HIDE DEF N, g
    <3>6. tx'[a] \in TextureFont
      BY <1>1, <2>1, <3>2, <3>3 DEF TextureFont
    <3>7. Cardinality(Users(txfont', a)) = Cardinality(N(a))
      BY <1>6, <2>1, <3>5
    <3>. QED  BY <2>3, <3>1, <3>2, <3>6, <3>7
  <2>. QED  BY <2>2, <2>3
<1>8. \A a \in Address : N(a) = {} => tx'[a] = tx[a]
  BY <1>2
<1>9. tx' \in [Address -> TextureFont \cup {None}]
  <2>1. \A a \in Address : tx'[a] \in TextureFont \cup {None}
    BY <1>1, <1>7, <1>8
  <2>2. tx' = [a \in Address |-> tx'[a]]
    BY <1>2
  <2>. QED  BY <2>1, <2>2
<1>10. ASSUME NEW a \in Address
       PROVE  IF Users(txfont', a) = {} THEN tx'[a] = None
              ELSE tx'[a] # None /\ tx'[a].refs = Cardinality(Users(txfont', a))
  <2>1. CASE N(a) = {}
    <3>1. Users(txfont', a) = Users(txfont, a) /\ tx'[a] = tx[a]
      BY <1>6, <1>8, <2>1
    <3>. QED  BY <1>1, <3>1
  <2>2. CASE N(a) # {}
    BY <1>3, <1>6, <1>7, <2>2, ZenonT(30)
  <2>. QED  BY <2>1, <2>2
<1>11. managed' \subseteq Style /\ \A s \in Style : txfont'[s] # None <=> s \in managed'
  <2>1. managed' \subseteq Style
    BY <1>1, <1>2, <1>3
  <2>2. \A s \in Style : s \in new => s \in managed' /\ txfont'[s] # None
    BY <1>2, <1>3, <1>4
  <2>3. \A s \in Style : s \notin new => txfont'[s] = txfont[s] /\ (s \in managed' <=> s \in managed)
    BY <1>2, <1>3, <1>4
  <2>. QED  BY <1>1, <2>1, <2>2, <2>3
\* A new font among the managed ones.
<1>12. ASSUME NEW f \in new, f \notin External, NEW g \in managed
       PROVE  Key[f] = Key[g] <=> where[f] = txfont[g]
  <2>1. Duplicate(f) = {txfont[h] : h \in {h \in managed : Key[h] = Key[f]}}
    BY <1>12 DEF Duplicate
  <2>2. CASE Duplicate(f) = {}
    <3>1. Key[f] # Key[g]
      BY <2>1, <2>2
    <3>2. tx[where[f]] = None
      BY <1>2, <2>2
    <3>3. tx[txfont[g]] # None
      BY ManagedFacts
    <3>. QED  BY <3>1, <3>2, <3>3
  <2>3. CASE Duplicate(f) # {}
    <3>1. PICK h \in managed : Key[h] = Key[f] /\ where[f] = txfont[h]
      BY <1>2, <2>1, <2>3
    <3>. QED  BY <1>1, <3>1
  <2>. QED  BY <2>2, <2>3
<1>13. ASSUME NEW f \in managed', f \in new
       PROVE  /\ f \notin External /\ txfont'[f] = where[f] /\ where[f] \in Address
              /\ tx'[where[f]].key = Key[f] /\ tx'[where[f]].dpi = dpi
  <2>1. f \notin External /\ txfont'[f] = where[f] /\ where[f] \in Address /\ f \in N(where[f])
    BY <1>1, <1>2, <1>3, <1>4, <1>13
  <2>2. CASE tx[where[f]] = None
    <3>1. tx'[where[f]].dpi = dpi /\ \E g \in N(where[f]) : tx'[where[f]].key = Key[g]
      BY <1>7, <2>1, <2>2
    <3>2. \A g \in N(where[f]) : Key[g] = Key[f]
      BY <1>2, <1>13
    <3>. QED  BY <2>1, <3>1, <3>2
  <2>3. CASE tx[where[f]] # None
    <3>1. Duplicate(f) # {}
      BY <1>2, <1>13, <2>3
    <3>2. PICK h \in managed : Key[h] = Key[f] /\ where[f] = txfont[h]
      BY <1>2, <1>13, <2>1, <3>1 DEF Duplicate
    <3>3. tx[where[f]].key = Key[f] /\ tx[where[f]].dpi = dpi
      BY <1>1, <3>2
    <3>4. tx'[where[f]].key = tx[where[f]].key /\ tx'[where[f]].dpi = tx[where[f]].dpi
      BY <1>7, <2>1, <2>3
    <3>. QED  BY <2>1, <3>3, <3>4
  <2>. QED  BY <2>2, <2>3
<1>14. ASSUME NEW f \in managed', f \notin new
       PROVE  f \in managed /\ txfont'[f] = txfont[f] /\ tx'[txfont[f]].key = Key[f] /\ tx'[txfont[f]].dpi = dpi
  <2>1. f \in managed /\ f \in Font
    BY <1>1, <1>2, <1>3, <1>14
  <2>2. txfont'[f] = txfont[f] /\ txfont[f] \in Address /\ tx[txfont[f]] # None
    BY <1>4, <1>14, <2>1, ManagedFacts
  <2>3. tx'[txfont[f]].key = tx[txfont[f]].key /\ tx'[txfont[f]].dpi = tx[txfont[f]].dpi
    <3>1. CASE N(txfont[f]) = {}
      BY <1>8, <2>2, <3>1
    <3>2. CASE N(txfont[f]) # {}
      BY <1>7, <2>2, <3>2
    <3>. QED  BY <3>1, <3>2
  <2>. QED  BY <1>1, <2>1, <2>2, <2>3
<1>. HIDE DEF N
<1>15. \A f \in managed' : tx'[txfont'[f]].key = Key[f] /\ tx'[txfont'[f]].dpi = dpi'
  BY <1>13, <1>14
<1>16. \A f, g \in managed' : Key[f] = Key[g] <=> txfont'[f] = txfont'[g]
  <2>. SUFFICES ASSUME NEW f \in managed', NEW g \in managed' PROVE Key[f] = Key[g] <=> txfont'[f] = txfont'[g]
    OBVIOUS
  <2>1. CASE f \in new /\ g \in new
    BY <1>2, <1>13, <2>1
  <2>2. CASE f \in new /\ g \notin new
    BY <1>12, <1>13, <1>14, <2>2
  <2>3. CASE f \notin new /\ g \in new
    BY <1>12, <1>13, <1>14, <2>3
  <2>4. CASE f \notin new /\ g \notin new
    BY <1>1, <1>14, <2>4
  <2>. QED  BY <2>1, <2>2, <2>3, <2>4
<1>17. dpi' \in Nat
  BY <1>1
<1>. QED  BY <1>5, <1>9, <1>10, <1>11, <1>15, <1>16, <1>17 DEF FontInv

LEMMA FontsUnreferred ==
  ASSUME FontInv, NEW gone \in SUBSET Font, tx' = UnrefFonts(gone), \A f \in gone : txfont[f] # None,
         txfont' = [f \in Font |-> IF f \in gone THEN None ELSE txfont[f]], managed' = managed \ gone,
         UNCHANGED dpi
  PROVE  FontInv'
<1>1. /\ tx \in [Address -> TextureFont \cup {None}] /\ txfont \in [Font -> Address \cup {None}]
      /\ managed \subseteq Style /\ dpi \in Nat
      /\ \A a \in Address :
           IF Users(txfont, a) = {} THEN tx[a] = None
           ELSE tx[a] # None /\ tx[a].refs = Cardinality(Users(txfont, a))
      /\ \A f, g \in managed : Key[f] = Key[g] <=> txfont[f] = txfont[g]
      /\ \A f \in managed : tx[txfont[f]].key = Key[f] /\ tx[txfont[f]].dpi = dpi
      /\ \A s \in Style : txfont[s] # None <=> s \in managed
  BY DEF FontInv
<1>. DEFINE N(a) == {f \in gone : txfont[f] = a}
            C(a) == Cardinality(N(a))
<1>2. tx' = [a \in Address |->
               IF tx[a] = None \/ C(a) = 0 THEN tx[a]
               ELSE IF tx[a].refs = C(a) THEN None ELSE [tx[a] EXCEPT !.refs = @ - C(a)]]
  BY DEF UnrefFonts
<1>3. /\ \A S \in SUBSET Font : IsFiniteSet(S) /\ Cardinality(S) \in Nat /\ (Cardinality(S) = 0 <=> S = {})
      /\ None \notin Address /\ None \notin TextureFont /\ Font = Style \cup External
  BY FontConstants DEF Font
<1>4. \A f \in Font : txfont'[f] = IF f \in gone THEN None ELSE txfont[f]
  OBVIOUS
<1>5. ASSUME NEW a \in Address
      PROVE  /\ N(a) \in SUBSET Users(txfont, a) /\ Users(txfont, a) \in SUBSET Font
             /\ Users(txfont', a) = Users(txfont, a) \ N(a)
             /\ Cardinality(Users(txfont', a)) = Cardinality(Users(txfont, a)) - C(a)
             /\ C(a) \in Nat /\ Cardinality(Users(txfont, a)) \in Nat
             /\ C(a) = 0 <=> N(a) = {}
             /\ Cardinality(Users(txfont', a)) = 0 <=> Users(txfont', a) = {}
  <2>. DEFINE U == Users(txfont, a)
  <2>1. N(a) \in SUBSET U /\ U \in SUBSET Font /\ N(a) \in SUBSET Font
    BY DEF Users
  <2>2. Users(txfont', a) = U \ N(a)
    BY <1>3, <1>4 DEF Users
  <2>3. IsFiniteSet(U) /\ Cardinality(U) \in Nat /\ Cardinality(N(a)) \in Nat /\ (Cardinality(N(a)) = 0 <=> N(a) = {})
    BY <1>3, <2>1
  <2>4. Cardinality(U \ N(a)) = Cardinality(U) - Cardinality(U \cap N(a))
    BY <2>3, FS_Difference
  <2>5. U \cap N(a) = N(a)
    BY <2>1
  <2>6. Cardinality(U \ N(a)) = 0 <=> U \ N(a) = {}
    <3>1. U \ N(a) \in SUBSET Font
      BY <2>1
    <3>. QED  BY <1>3, <3>1
  <2>. HIDE DEF U, N
  <2>7. Cardinality(U \ N(a)) = Cardinality(U) - Cardinality(N(a))
    BY <2>4, <2>5
  <2>8. Users(txfont, a) = U
    BY DEF U
  <2>. QED  BY <2>1, <2>2, <2>3, <2>6, <2>7, <2>8
<1>. HIDE DEF N, C
<1>6. ASSUME NEW a \in Address, tx[a] # None
      PROVE  /\ C(a) = 0 => tx'[a] = tx[a]
             /\ C(a) # 0 /\ Users(txfont', a) = {} => tx'[a] = None
             /\ C(a) # 0 /\ Users(txfont', a) # {} =>
                  /\ tx'[a] \in TextureFont /\ tx'[a].refs = Cardinality(Users(txfont', a))
                  /\ tx'[a].key = tx[a].key /\ tx'[a].dpi = tx[a].dpi
  <2>1. tx[a].refs = Cardinality(Users(txfont, a)) /\ tx[a] \in TextureFont
    BY <1>1, <1>6
  <2>2. C(a) = 0 => tx'[a] = tx[a]
    BY <1>2
  <2>3. ASSUME C(a) # 0, Users(txfont', a) = {} PROVE tx'[a] = None
    <3>1. tx[a].refs = C(a)
      BY <1>5, <2>1, <2>3
    <3>. QED  BY <1>2, <1>6, <2>3, <3>1
  <2>4. ASSUME C(a) # 0, Users(txfont', a) # {}
        PROVE  /\ tx'[a] \in TextureFont /\ tx'[a].refs = Cardinality(Users(txfont', a))
               /\ tx'[a].key = tx[a].key /\ tx'[a].dpi = tx[a].dpi
    <3>. DEFINE k == Cardinality(Users(txfont', a))
    <3>1. k = tx[a].refs - C(a) /\ k # 0 /\ C(a) \in Nat /\ tx[a].refs \in Nat
      BY <1>5, <2>1, <2>4
    <3>2. k \in Nat
      <4>1. Users(txfont', a) \in SUBSET Font
        BY DEF Users
      <4>. QED  BY <1>3, <4>1
    <3>. HIDE DEF k
    <3>3. tx[a].refs # C(a)
      BY <3>1
    <3>4. tx'[a] = [tx[a] EXCEPT !.refs = @ - C(a)]
      BY <1>2, <1>6, <2>4, <3>3
    <3>5. tx'[a] = [tx[a] EXCEPT !.refs = k]
      BY <2>1, <3>1, <3>4 DEF TextureFont
    <3>6. tx'[a] \in TextureFont /\ tx'[a].refs = k /\ tx'[a].key = tx[a].key /\ tx'[a].dpi = tx[a].dpi
      BY <2>1, <3>1, <3>2, <3>5 DEF TextureFont
    <3>. QED  BY <3>6 DEF k
  <2>. QED  BY <2>2, <2>3, <2>4
<1>7. \A a \in Address : tx[a] = None => tx'[a] = None
  BY <1>2
<1>8. tx' \in [Address -> TextureFont \cup {None}]
  <2>1. \A a \in Address : tx'[a] \in TextureFont \cup {None}
    BY <1>1, <1>6, <1>7
  <2>2. tx' = [a \in Address |-> tx'[a]]
    BY <1>2
  <2>. QED  BY <2>1, <2>2
<1>9. ASSUME NEW a \in Address
      PROVE  IF Users(txfont', a) = {} THEN tx'[a] = None
             ELSE tx'[a] # None /\ tx'[a].refs = Cardinality(Users(txfont', a))
  <2>1. CASE tx[a] = None
    <3>1. Users(txfont, a) = {}
      BY <1>1, <2>1
    <3>2. Users(txfont', a) = {}
      BY <1>5, <3>1
    <3>. QED  BY <1>7, <2>1, <3>2
  <2>2. CASE tx[a] # None /\ C(a) = 0
    <3>1. Users(txfont', a) = Users(txfont, a)
      BY <1>5, <2>2
    <3>. QED  BY <1>1, <1>6, <2>2, <3>1
  <2>3. CASE tx[a] # None /\ C(a) # 0
    BY <1>3, <1>6, <2>3
  <2>. QED  BY <2>1, <2>2, <2>3
<1>10. txfont' \in [Font -> Address \cup {None}]
  BY <1>1
<1>11. managed' \subseteq Style /\ \A s \in Style : txfont'[s] # None <=> s \in managed'
  BY <1>1, <1>3, <1>4
<1>12. ASSUME NEW f \in managed'
       PROVE  /\ f \in managed /\ txfont'[f] = txfont[f]
              /\ tx'[txfont[f]].key = Key[f] /\ tx'[txfont[f]].dpi = dpi
  <2>1. f \in managed /\ f \notin gone
    OBVIOUS
  <2>2. f \in Font /\ txfont[f] \in Address /\ tx[txfont[f]] # None /\ txfont'[f] = txfont[f]
    BY <1>4, <2>1, ManagedFacts
  <2>3. f \in Users(txfont', txfont[f])
    BY <2>2 DEF Users
  <2>4. tx'[txfont[f]].key = tx[txfont[f]].key /\ tx'[txfont[f]].dpi = tx[txfont[f]].dpi
    BY <1>6, <2>2, <2>3
  <2>. QED  BY <1>1, <2>1, <2>2, <2>4
<1>13. \A f, g \in managed' : Key[f] = Key[g] <=> txfont'[f] = txfont'[g]
  BY <1>1, <1>12
<1>14. \A f \in managed' : tx'[txfont'[f]].key = Key[f] /\ tx'[txfont'[f]].dpi = dpi'
  BY <1>12
<1>15. dpi' \in Nat
  BY <1>1
<1>. QED  BY <1>8, <1>9, <1>10, <1>11, <1>13, <1>14, <1>15 DEF FontInv

LEMMA FontsRebuilt ==
  ASSUME FontInv, SetDpi
  PROVE  FontInv'
<1>1. /\ tx \in [Address -> TextureFont \cup {None}] /\ txfont \in [Font -> Address \cup {None}]
      /\ managed \subseteq Style /\ dpi \in Nat
      /\ \A a \in Address :
           IF Users(txfont, a) = {} THEN tx[a] = None
           ELSE tx[a] # None /\ tx[a].refs = Cardinality(Users(txfont, a))
      /\ \A f, g \in managed : Key[f] = Key[g] <=> txfont[f] = txfont[g]
      /\ \A f \in managed : tx[txfont[f]].key = Key[f] /\ tx[txfont[f]].dpi = dpi
      /\ \A s \in Style : txfont[s] # None <=> s \in managed
  BY DEF FontInv
<1>2. /\ dpi' = dpi + 1 /\ txfont' = txfont /\ managed' = managed
      /\ tx' = [a \in Address |-> IF a \in Rebuilt THEN [tx[a] EXCEPT !.dpi = dpi'] ELSE tx[a]]
  BY DEF SetDpi
<1>3. None \notin TextureFont
  BY FontConstants
<1>4. dpi' \in Nat
  BY <1>1, <1>2
<1>5. ASSUME NEW a \in Address, a \in Rebuilt
      PROVE  /\ tx[a] # None /\ tx'[a] \in TextureFont
             /\ tx'[a].refs = tx[a].refs /\ tx'[a].key = tx[a].key /\ tx'[a].dpi = dpi'
  <2>1. PICK f \in managed : a = txfont[f]
    BY <1>5 DEF Rebuilt
  <2>2. tx[a] # None /\ tx[a] \in TextureFont
    BY <2>1, ManagedFacts
  <2>3. tx'[a] = [tx[a] EXCEPT !.dpi = dpi']
    BY <1>2, <1>5
  <2>. QED  BY <1>4, <2>2, <2>3 DEF TextureFont
<1>6. \A a \in Address : a \notin Rebuilt => tx'[a] = tx[a]
  BY <1>2
<1>7. tx' \in [Address -> TextureFont \cup {None}]
  <2>1. \A a \in Address : tx'[a] \in TextureFont \cup {None}
    BY <1>1, <1>5, <1>6
  <2>2. tx' = [a \in Address |-> tx'[a]]
    BY <1>2
  <2>. QED  BY <2>1, <2>2
<1>8. ASSUME NEW a \in Address
      PROVE  IF Users(txfont', a) = {} THEN tx'[a] = None
             ELSE tx'[a] # None /\ tx'[a].refs = Cardinality(Users(txfont', a))
  <2>1. Users(txfont', a) = Users(txfont, a)
    BY <1>2
  <2>2. CASE a \in Rebuilt
    <3>1. tx'[a] # None /\ Users(txfont, a) # {} /\ tx'[a].refs = tx[a].refs
      BY <1>1, <1>3, <1>5, <2>2
    <3>. QED  BY <1>1, <2>1, <3>1
  <2>3. CASE a \notin Rebuilt
    BY <1>1, <1>6, <2>1, <2>3
  <2>. QED  BY <2>2, <2>3
<1>9. ASSUME NEW f \in managed PROVE tx'[txfont[f]].key = Key[f] /\ tx'[txfont[f]].dpi = dpi'
  <2>1. txfont[f] \in Rebuilt /\ txfont[f] \in Address
    BY ManagedFacts DEF Rebuilt
  <2>. QED  BY <1>1, <1>5, <2>1
<1>10. /\ txfont' \in [Font -> Address \cup {None}] /\ managed' \subseteq Style
       /\ \A s \in Style : txfont'[s] # None <=> s \in managed'
       /\ \A f, g \in managed' : Key[f] = Key[g] <=> txfont'[f] = txfont'[g]
       /\ \A f \in managed' : tx'[txfont'[f]].key = Key[f] /\ tx'[txfont'[f]].dpi = dpi'
  BY <1>1, <1>2, <1>9
<1>. QED  BY <1>4, <1>7, <1>8, <1>10 DEF FontInv

\* A style's font is loaded when the style is resolved.
LoadedResolved == \A s \in managed : resolved[s] # None

LEMMA FontInit == Init => FontInv /\ LoadedResolved
<1>. SUFFICES ASSUME Init PROVE FontInv /\ LoadedResolved
  OBVIOUS
<1>1. /\ tx = [a \in Address |-> None] /\ txfont = [f \in Font |-> None] /\ managed = {} /\ dpi = 0
  BY DEF Init
<1>2. /\ None \notin Address /\ Style \subseteq Font
  BY FontConstants DEF Font
<1>3. \A a \in Address : Users(txfont, a) = {}
  BY <1>1, <1>2 DEF Users
<1>. QED  BY <1>1, <1>2, <1>3 DEF FontInv, LoadedResolved

LEMMA FontNext == FontInv /\ LoadedResolved /\ [Next]_vars => FontInv' /\ LoadedResolved'
<1>. SUFFICES ASSUME FontInv, LoadedResolved, [Next]_vars PROVE FontInv' /\ LoadedResolved'
  OBVIOUS
<1>1. /\ txfont \in [Font -> Address \cup {None}] /\ managed \subseteq Style
      /\ \A s \in Style : txfont[s] # None <=> s \in managed
  BY DEF FontInv
<1>2. Font = Style \cup External /\ External \cap Style = {} /\ None \notin Address
  BY FontConstants DEF Font
<1>3. ASSUME UNCHANGED fonts PROVE FontInv'
  BY <1>3 DEF fonts, FontInv, Users
<1>4. ASSUME UNCHANGED << managed, resolved >> PROVE LoadedResolved'
  BY <1>4 DEF LoadedResolved
<1>5. ASSUME NEW e \in Elem, Attach(e) PROVE FontInv' /\ LoadedResolved'
  <2>1. PICK heap : \E where :
          LET res == Resolve(heap)
              new == {s \in Unresolved : res[s] # None /\ HasFont(s)}
          IN  resolved' = res /\ where \in [new -> Address] /\ LoadFonts(new, where)
    BY <1>5 DEF Attach
  <2>. DEFINE new == {s \in Unresolved : resolved'[s] # None /\ HasFont(s)}
  <2>2. PICK where \in [new -> Address] : LoadFonts(new, where)
    BY <2>1
  <2>3. resolved' = [s \in Style |-> IF s \in Unresolved THEN Lookup(heap, Styles[s].for) ELSE resolved[s]]
    BY <2>1 DEF Resolve
  <2>4. \A s \in Unresolved : s \in Style /\ resolved[s] = None /\ s \notin managed /\ txfont[s] = None
    BY <1>1 DEF Unresolved, LoadedResolved
  <2>5. new \in SUBSET Font /\ \A f \in new : where[f] \in Address /\ txfont[f] = None
    BY <1>2, <2>2, <2>4
  <2>6. UNCHANGED dpi
    BY <1>5 DEF Attach
  <2>7. managed' = managed \cup (new \ External)
    BY <2>2 DEF LoadFonts
  <2>8. LoadedResolved'
    <3>. SUFFICES ASSUME NEW s \in managed' PROVE resolved'[s] # None
      BY DEF LoadedResolved
    <3>1. CASE s \in new
      BY <3>1
    <3>2. CASE s \in managed
      <4>1. s \in Style /\ s \notin Unresolved
        BY <1>1, <2>4, <3>2
      <4>2. resolved'[s] = resolved[s]
        BY <2>3, <4>1
      <4>. QED  BY <3>2, <4>2 DEF LoadedResolved
    <3>. QED  BY <2>7, <3>1, <3>2
  <2>9. FontInv'
    <3>. HIDE DEF new
    <3>. QED  BY <2>2, <2>5, <2>6, FontsLoaded
  <2>. QED  BY <2>8, <2>9
<1>6. ASSUME NEW e \in Elem, Detach(e) \/ Fini(e) PROVE FontInv' /\ LoadedResolved'
  <2>1. UNCHANGED fonts /\ UNCHANGED resolved
    BY <1>6 DEF Detach, Fini
  <2>. QED  BY <1>3, <1>4, <2>1 DEF fonts
<1>7. ASSUME NEW f \in External, LoadExternal(f) PROVE FontInv' /\ LoadedResolved'
  <2>1. PICK a \in Free(tx) : LoadFonts({f}, [g \in {f} |-> a])
    BY <1>7 DEF LoadExternal
  <2>2. txfont[f] = None /\ UNCHANGED << resolved, dpi >> /\ a \in Address
    BY <1>7 DEF LoadExternal, styles, Free
  <2>. DEFINE where == [g \in {f} |-> a]
              new == {f}
  <2>3. new \in SUBSET Font /\ \A g \in new : where[g] \in Address /\ txfont[g] = None
    BY <1>2, <2>2
  <2>4. managed' = managed
    BY <2>1 DEF LoadFonts
  <2>5. LoadFonts(new, where)
    BY <2>1
  <2>. HIDE DEF new, where
  <2>6. FontInv'
    BY <2>2, <2>3, <2>5, FontsLoaded
  <2>. QED  BY <1>4, <2>2, <2>4, <2>6
<1>8. ASSUME NEW f \in External, FreeExternal(f) PROVE FontInv' /\ LoadedResolved'
  <2>1. /\ txfont[f] # None /\ tx' = UnrefFonts({f}) /\ txfont' = [txfont EXCEPT ![f] = None]
        /\ UNCHANGED << resolved, managed, dpi >>
    BY <1>8 DEF FreeExternal, styles
  <2>. DEFINE gone == {f}
  <2>2. txfont' = [g \in Font |-> IF g \in gone THEN None ELSE txfont[g]]
    BY <1>1, <2>1
  <2>3. managed' = managed \ gone /\ gone \in SUBSET Font /\ \A g \in gone : txfont[g] # None
    BY <1>1, <1>2, <2>1
  <2>4. tx' = UnrefFonts(gone)
    BY <2>1
  <2>. HIDE DEF gone
  <2>5. FontInv'
    BY <2>1, <2>2, <2>3, <2>4, FontsUnreferred
  <2>. QED  BY <1>4, <2>1, <2>5
<1>9. CASE Close
  <2>1. /\ \A f \in External : txfont[f] = None
        /\ tx' = UnrefFonts(managed) /\ txfont' = [f \in Font |-> None] /\ managed' = {} /\ UNCHANGED dpi
    BY <1>9 DEF Close
  <2>2. \A f \in Font : f \notin managed => txfont[f] = None
    BY <1>1, <1>2, <2>1
  <2>3. txfont' = [g \in Font |-> IF g \in managed THEN None ELSE txfont[g]]
    BY <2>1, <2>2
  <2>4. managed' = managed \ managed /\ managed \in SUBSET Font /\ \A g \in managed : txfont[g] # None
    BY <1>1, <1>2, <2>1
  <2>5. FontInv'
    BY <2>1, <2>3, <2>4, FontsUnreferred
  <2>. QED  BY <2>1, <2>5 DEF LoadedResolved
<1>10. CASE SetDpi
  <2>1. UNCHANGED << managed, resolved >>
    BY <1>10 DEF SetDpi, styles
  <2>. QED  BY <1>4, <1>10, <2>1, FontsRebuilt
<1>11. CASE Open \/ FreeAllTypes \/ UNCHANGED vars
  <2>1. UNCHANGED fonts /\ UNCHANGED resolved
    BY <1>11 DEF Open, FreeAllTypes, styles, vars
  <2>. QED  BY <1>3, <1>4, <2>1 DEF fonts
<1>. QED  BY <1>5, <1>6, <1>7, <1>8, <1>9, <1>10, <1>11 DEF Next

LEMMA FontShare == FontInv => FontsShared
<1>. SUFFICES ASSUME FontInv PROVE FontsShared
  OBVIOUS
<1>1. \A a \in Address : LET users == {f \in Font : txfont[f] = a}
        IN  IF users = {} THEN tx[a] = None ELSE tx[a] # None /\ tx[a].refs = Cardinality(users)
  BY DEF FontInv, Users
<1>. QED  BY <1>1 DEF FontInv, FontsShared

\* Texture fonts are counted and shared, and built for the resolution: for any
\* styles and fonts of the application's, loaded and freed in any order.
THEOREM FontsAreShared == Spec => []FontsShared
<1>1. Init => FontInv /\ LoadedResolved
  BY FontInit
<1>2. FontInv /\ LoadedResolved /\ [Next]_vars => FontInv' /\ LoadedResolved'
  BY FontNext
<1>3. FontInv => FontsShared
  BY FontShare
<1>. QED  BY <1>1, <1>2, <1>3, PTL DEF Spec

-------------------------------------------------------------------------------
(***************************************************************************)
(* Styles                                                                  *)
(*                                                                         *)
(* What the list says of a style holds up to the styles gone astray: of    *)
(* the two it compares, one is stale or they are the same.                 *)
(***************************************************************************)
LEMMA NatMin ==
  ASSUME NEW T \in SUBSET Nat, T # {}
  PROVE  \E x \in T : \A y \in T : x <= y
<1>. DEFINE R == OpToRel(<, Nat)
<1>1. IsWellFoundedOn(R, Nat)
  BY NatLessThanWellFounded
<1>2. \A x, y \in Nat : x < y => << x, y >> \in R
  BY DEF OpToRel
<1>. HIDE DEF R
<1>3. PICK x \in T : \A y \in T : ~(<< y, x >> \in R)
  BY <1>1, WFMin
<1>4. \A y \in T : x \in Nat /\ y \in Nat /\ ~(y < x)
  BY <1>2, <1>3
<1>5. \A y \in T : x <= y
  BY <1>4
<1>. QED  BY <1>5

LEMMA FirstStyleFacts ==
  ASSUME NEW S \in SUBSET Style
  PROVE  IF S = {} THEN FirstStyle(S) = 0
         ELSE FirstStyle(S) \in S /\ \A t \in S : FirstStyle(S) <= t
<1>1. S \in SUBSET Nat
  BY FontConstants
<1>2. CASE S # {}
  <2>1. \E x \in S : \A t \in S : x <= t
    BY <1>1, <1>2, NatMin
  <2>2. Min(S) \in S /\ \A t \in S : Min(S) <= t
    BY <2>1 DEF Min
  <2>. QED  BY <1>2, <2>2 DEF FirstStyle
<1>. QED  BY <1>2 DEF FirstStyle

Off(x, y, st) == x = y \/ x \in st \/ y \in st

LEMMA ZeroFacts == 0 \notin Style /\ \A s \in Style : s \in Nat
BY FontConstants

LEMMA FirstOff ==
  ASSUME NEW S \in SUBSET Style, NEW T \in SUBSET Style, NEW st \in SUBSET Style,
         \A s \in Style : s \notin st => (s \in S <=> s \in T)
  PROVE  Off(FirstStyle(S), FirstStyle(T), st)
<1>. DEFINE x == FirstStyle(S)
            y == FirstStyle(T)
<1>1. /\ S = {} => x = 0
      /\ S # {} => x \in S /\ \A t \in S : x <= t
      /\ T = {} => y = 0
      /\ T # {} => y \in T /\ \A t \in T : y <= t
  BY FirstStyleFacts
<1>. HIDE DEF x, y
<1>2. SUFFICES ASSUME x \notin st, y \notin st PROVE x = y
  BY DEF Off, x, y
<1>3. CASE S = {} \/ T = {}
  BY <1>1, <1>2, <1>3
<1>4. CASE S # {} /\ T # {}
  <2>1. x \in S /\ y \in T /\ x \in Nat /\ y \in Nat
    BY <1>1, <1>4, ZeroFacts
  <2>2. x \in T /\ y \in S
    BY <1>2, <2>1
  <2>3. x <= y /\ y <= x
    BY <1>1, <2>2
  <2>. QED  BY <2>1, <2>3
<1>. QED  BY <1>3, <1>4

LEMMA HeapNames ==
  ASSUME NEW h, NEW Q, NEW lk, HeapOK(h, Q, lk)
  PROVE  /\ \A a, n : IsOf(h, a, n) => Lookup(h, n) = a /\ n \in Type
         /\ \A n : Lookup(h, n) # None <=> Has(h, n)
         /\ \A n : Has(h, n) => IsOf(h, Lookup(h, n), n)
<1>1. /\ h \in [Address -> Descriptor \cup {None}]
      /\ \A a, b \in Address : h[a] # None /\ h[b] # None /\ h[a].name = h[b].name => a = b
  BY DEF HeapOK
<1>2. \A n : /\ Lookup(h, n) # None <=> Has(h, n)
             /\ Has(h, n) => IsOf(h, Lookup(h, n), n)
  BY LookupFacts
<1>3. ASSUME NEW a, NEW n, IsOf(h, a, n) PROVE Lookup(h, n) = a /\ n \in Type
  <2>1. Has(h, n)
    BY <1>3 DEF Has, IsOf
  <2>2. IsOf(h, Lookup(h, n), n)
    BY <1>2, <2>1
  <2>3. n \in Type
    BY <1>1, <1>3, HeapType DEF IsOf
  <2>. QED  BY <1>1, <1>3, <2>2, <2>3 DEF IsOf
<1>. QED  BY <1>2, <1>3

Agree(res, h, st) == \A s \in Style : s \notin st => res[s] = Lookup(h, Styles[s].for)

\* B is where the types named are, each of them.
TypesAt(h, names, B) ==
  /\ \A m \in names : Has(h, m)
  /\ B = {b \in Address : h[b] # None /\ h[b].name \in names}

\* Where a style is sought by the addresses of types, it is sought by their names.
LEMMA SoughtByName ==
  ASSUME NEW h, NEW Q, NEW lk, NEW res, NEW st \in SUBSET Style, NEW names, NEW B,
         HeapOK(h, Q, lk), Agree(res, h, st), TypesAt(h, names, B)
  PROVE  Off(FirstStyle({t \in Style : res[t] \in B}), Listed(names), st)
<1>. DEFINE S == {t \in Style : res[t] \in B}
            T == {t \in Style : Styles[t].for \in names}
<1>0. B = {b \in Address : h[b] # None /\ h[b].name \in names} /\ \A m \in names : Has(h, m)
  BY DEF TypesAt
<1>1. /\ \A a, n : IsOf(h, a, n) => Lookup(h, n) = a /\ n \in Type
      /\ \A n : Lookup(h, n) # None <=> Has(h, n)
      /\ \A n : Has(h, n) => IsOf(h, Lookup(h, n), n)
  BY HeapNames
<1>2. ASSUME NEW t \in Style, t \notin st PROVE t \in S <=> t \in T
  <2>1. res[t] = Lookup(h, Styles[t].for)
    BY <1>2 DEF Agree
  <2>. DEFINE n == Styles[t].for
  <2>. HIDE DEF n
  <2>2. res[t] = Lookup(h, n)
    BY <2>1 DEF n
  <2>3. ASSUME res[t] \in B PROVE n \in names
    <3>1. res[t] \in Address /\ h[res[t]].name \in names
      BY <1>0, <2>3
    <3>2. IsOf(h, res[t], n)
      <4>1. res[t] # None
        BY <3>1, FontConstants
      <4>. QED  BY <1>1, <2>2, <4>1
    <3>. QED  BY <3>1, <3>2 DEF IsOf
  <2>4. ASSUME n \in names PROVE res[t] \in B
    <3>1. IsOf(h, res[t], n)
      BY <1>0, <1>1, <2>2, <2>4
    <3>. QED  BY <1>0, <2>4, <3>1 DEF IsOf
  <2>. QED  BY <2>3, <2>4 DEF n
<1>3. S \in SUBSET Style /\ T \in SUBSET Style
  OBVIOUS
<1>4. Listed(names) = FirstStyle(T)
  BY DEF Listed
<1>. HIDE DEF S, T
<1>5. Off(FirstStyle(S), FirstStyle(T), st)
  BY <1>2, <1>3, FirstOff
<1>. QED  BY <1>4, <1>5 DEF S

\* A supertype has fewer supertypes: of any styles there is one that is for a type
\* of which none of the others' is a supertype.
LEMMA TopStyle ==
  ASSUME NEW S \in SUBSET Style, S # {}, \A s \in S : Styles[s].for \in Type
  PROVE  \E s \in S : \A t \in S : Styles[t].for \notin Supers(Styles[s].for)
<1>. DEFINE C(s) == Cardinality(Supers(Styles[s].for))
            T == {C(s) : s \in S}
<1>1. ASSUME NEW s \in S PROVE C(s) \in Nat /\ \A t \in S : Styles[t].for \in Supers(Styles[s].for) => C(t) < C(s)
  <2>1. ASSUME NEW m \in Type PROVE IsFiniteSet(Supers(m)) /\ Cardinality(Supers(m)) \in Nat
    BY SupersFacts, FS_CardinalityType
  <2>2. ASSUME NEW n \in Type, NEW m \in Supers(n) PROVE Cardinality(Supers(m)) < Cardinality(Supers(n))
    <3>1. /\ m \in Type /\ Supers(m) \in SUBSET Supers(n) /\ m \notin Supers(m)
      BY SupersFacts
    <3>2. /\ Cardinality(Supers(m)) <= Cardinality(Supers(n))
          /\ Cardinality(Supers(n)) = Cardinality(Supers(m)) => Supers(n) = Supers(m)
      BY <2>1, <3>1, FS_Subset
    <3>3. Supers(n) # Supers(m)
      BY <3>1
    <3>4. Cardinality(Supers(m)) \in Nat /\ Cardinality(Supers(n)) \in Nat
      BY <2>1, <3>1
    <3>. QED  BY <3>2, <3>3, <3>4
  <2>. QED  BY <2>1, <2>2
<1>2. T \in SUBSET Nat /\ T # {}
  BY <1>1
<1>3. PICK x \in T : \A y \in T : x <= y
  BY <1>2, NatMin
<1>4. PICK s \in S : x = C(s)
  BY <1>3
<1>. HIDE DEF C
<1>5. ASSUME NEW t \in S, Styles[t].for \in Supers(Styles[s].for) PROVE FALSE
  <2>1. C(t) < C(s) /\ C(t) \in Nat /\ C(s) \in Nat /\ C(t) \in T
    BY <1>1, <1>5
  <2>2. C(s) <= C(t)
    BY <1>3, <1>4, <2>1
  <2>. QED  BY <2>1, <2>2
<1>. QED  BY <1>5

StyleInv ==
  /\ resolved \in [Style -> Address \cup {None}] /\ inherit \in [Style -> {0} \cup Style]
  /\ style \in [Elem -> {0} \cup Style] /\ stale \in SUBSET Style
  /\ phase \in {"closed", "freed"} =>
       stale = {} /\ \A s \in Style : resolved[s] = None /\ inherit[s] = 0
  /\ phase \in {"new", "open"} => Agree(resolved, desc, stale)
  /\ \A s \in stale : resolved[s] # None
  /\ \A s \in Style : s \notin stale /\ resolved[s] # None => Off(inherit[s], Listed(Supers(Styles[s].for)), stale)
  /\ \A s \in Style : inherit[s] # 0 => resolved[s] # None /\ resolved[inherit[s]] # None
  /\ \A s \in Style : resolved[s] # None /\ inherit[s] = 0 => s \notin stale /\ Styles[s].for = Base
  /\ \A s \in Style : Styles[s].for = Base => s \notin stale
  /\ \A e \in attached : Off(style[e], Listed(Names(e)), stale)
  /\ \A e \in Elem : e \notin attached => style[e] = 0
  /\ QueriesEnd

LEMMA StyleInit == Init => StyleInv
<1>. SUFFICES ASSUME Init PROVE StyleInv
  OBVIOUS
<1>1. \A n : Lookup(desc, n) = None
  BY LookupFacts DEF Init, Has, IsOf
<1>2. Agree(resolved, desc, stale)
  BY <1>1 DEF Agree, Init
<1>3. QueriesEnd
  BY ZeroFacts DEF QueriesEnd, Init
<1>. QED  BY <1>2, <1>3 DEF Init, StyleInv

\* What of a style holds, holds as more of them go astray.
LEMMA OffMore ==
  ASSUME NEW x, NEW y, NEW st, NEW st2, Off(x, y, st), st \subseteq st2
  PROVE  Off(x, y, st2)
BY DEF Off

\* Attaching resolves the styles, on the heap h.
LEMMA AttachStyles ==
  ASSUME StyleInv, NEW e \in Elem, NEW h, NEW Q, NEW lk, HeapOK(h, Q, lk), phase = "open",
         \A a \in Address : desc[a] # None => h[a] # None /\ h[a].name = desc[a].name,
         resolved' = Resolve(h), inherit' = Inherit(h, resolved'), attached' = attached \cup {e},
         style' = [x \in Elem |-> IF x \in attached' /\ style[x] = 0
                                  THEN StyleForType(h, resolved', type'[x]) ELSE style[x]],
         attached' \subseteq Elem, \A x \in attached' : IsOf(h, type'[x], Class(x)),
         UNCHANGED << phase, stale >>, desc' = h
  PROVE  StyleInv'
<1>. DEFINE res == resolved'
<1>1. /\ resolved \in [Style -> Address \cup {None}] /\ inherit \in [Style -> {0} \cup Style]
      /\ style \in [Elem -> {0} \cup Style] /\ stale \in SUBSET Style
      /\ Agree(resolved, desc, stale)
      /\ \A s \in stale : resolved[s] # None
      /\ \A s \in Style : s \notin stale /\ resolved[s] # None => Off(inherit[s], Listed(Supers(Styles[s].for)), stale)
      /\ \A s \in Style : inherit[s] # 0 => resolved[s] # None /\ resolved[inherit[s]] # None
      /\ \A s \in Style : resolved[s] # None /\ inherit[s] = 0 => s \notin stale /\ Styles[s].for = Base
      /\ \A s \in Style : Styles[s].for = Base => s \notin stale
      /\ \A x \in attached : Off(style[x], Listed(Names(x)), stale)
      /\ \A x \in Elem : x \notin attached => style[x] = 0
      /\ QueriesEnd
  BY DEF StyleInv
<1>2. /\ \A a, n : IsOf(h, a, n) => Lookup(h, n) = a /\ n \in Type
      /\ \A n : Lookup(h, n) # None <=> Has(h, n)
      /\ \A n : Has(h, n) => IsOf(h, Lookup(h, n), n)
  BY HeapNames
<1>3. /\ None \notin Address /\ 0 \notin Style
      /\ h \in [Address -> Descriptor \cup {None}]
      /\ \A a \in Address : h[a] # None => SuperOK(h, a)
  BY FontConstants, ZeroFacts DEF HeapOK
<1>4. \A s \in Style : res[s] = IF resolved[s] = None THEN Lookup(h, Styles[s].for) ELSE resolved[s]
  BY DEF Resolve, Unresolved
<1>5. \A n : Lookup(h, n) \in Address \cup {None}
  BY <1>2 DEF IsOf
<1>6. res \in [Style -> Address \cup {None}]
  <2>1. \A s \in Style : res[s] \in Address \cup {None}
    BY <1>1, <1>4, <1>5
  <2>2. res = [s \in Style |-> res[s]]
    BY DEF Resolve
  <2>. QED  BY <2>1, <2>2
\* What was resolved still is as it would be.
<1>7. Agree(res, h, stale)
  <2>. SUFFICES ASSUME NEW s \in Style, s \notin stale PROVE res[s] = Lookup(h, Styles[s].for)
    BY DEF Agree
  <2>1. CASE resolved[s] = None
    BY <1>4, <2>1
  <2>2. CASE resolved[s] # None
    <3>1. res[s] = Lookup(desc, Styles[s].for) /\ res[s] # None
      BY <1>1, <1>4, <2>2 DEF Agree
    <3>2. IsOf(desc, res[s], Styles[s].for)
      BY <3>1, LookupFacts
    <3>3. IsOf(h, res[s], Styles[s].for)
      BY <3>2 DEF IsOf
    <3>. QED  BY <1>2, <3>3
  <2>. QED  BY <2>1, <2>2
\* A style that has not gone astray is resolved to the type it is for.
<1>8. ASSUME NEW s \in Style, s \notin stale, res[s] # None
      PROVE  /\ IsOf(h, res[s], Styles[s].for) /\ Styles[s].for \in Type
             /\ h[res[s]].super = {b \in Address : h[b] # None /\ h[b].name \in Supers(Styles[s].for)}
             /\ \A m \in Supers(Styles[s].for) : Has(h, m)
  <2>1. res[s] = Lookup(h, Styles[s].for)
    BY <1>7, <1>8 DEF Agree
  <2>2. IsOf(h, res[s], Styles[s].for)
    BY <1>2, <1>8, <2>1
  <2>3. SuperOK(h, res[s]) /\ h[res[s]].name = Styles[s].for
    BY <1>3, <2>2 DEF IsOf
  <2>. QED  BY <1>2, <2>2, <2>3 DEF SuperOK
<1>. DEFINE Of(s) == {t \in Style : res[t] \in h[res[s]].super}
<1>9. \A s \in Style :
        inherit'[s] = IF res[s] # None /\ inherit[s] = 0
                      THEN IF h[res[s]] = None THEN 0 ELSE FirstStyle(Of(s)) ELSE inherit[s]
  BY DEF Inherit, Orphans, InheritsFrom
<1>10. ASSUME NEW s \in Style
       PROVE  IF Of(s) = {} THEN FirstStyle(Of(s)) = 0 ELSE FirstStyle(Of(s)) \in Of(s)
  <2>1. Of(s) \in SUBSET Style
    OBVIOUS
  <2>. HIDE DEF Of
  <2>. QED  BY <2>1, FirstStyleFacts
<1>11. \A s \in Style : inherit[s] # 0 => inherit'[s] = inherit[s] /\ resolved[s] # None /\ res[s] = resolved[s]
  BY <1>1, <1>4, <1>9
<1>12. \A s \in Style : resolved[s] # None => res[s] = resolved[s]
  BY <1>4
<1>13. inherit' \in [Style -> {0} \cup Style]
  <2>1. \A s \in Style : inherit'[s] \in {0} \cup Style
    BY <1>1, <1>9, <1>10
  <2>2. inherit' = [s \in Style |-> inherit'[s]]
    BY DEF Inherit
  <2>. QED  BY <2>1, <2>2
<1>14. \A s \in Style : s \notin stale /\ resolved'[s] # None =>
         Off(inherit'[s], Listed(Supers(Styles[s].for)), stale)
  <2>. SUFFICES ASSUME NEW s \in Style, s \notin stale, res[s] # None
                PROVE  Off(inherit'[s], Listed(Supers(Styles[s].for)), stale)
    OBVIOUS
  <2>1. CASE inherit[s] # 0
    BY <1>1, <1>11, <2>1
  <2>2. CASE inherit[s] = 0
    <3>. DEFINE B == h[res[s]].super
                names == Supers(Styles[s].for)
    <3>1. h[res[s]] # None
      BY <1>8 DEF IsOf
    <3>2. inherit'[s] = FirstStyle(Of(s))
      BY <1>9, <2>2, <3>1
    <3>3. TypesAt(h, names, B)
      BY <1>8 DEF TypesAt
    <3>. HIDE DEF B, names, res
    <3>4. Off(FirstStyle({t \in Style : res[t] \in B}), Listed(names), stale)
      BY <1>1, <1>7, <3>3, SoughtByName
    <3>. QED  BY <3>2, <3>4 DEF B, names, res
  <2>. QED  BY <2>1, <2>2
<1>15. \A s \in Style : inherit'[s] # 0 => resolved'[s] # None /\ resolved'[inherit'[s]] # None
  <2>. SUFFICES ASSUME NEW s \in Style, inherit'[s] # 0 PROVE res[s] # None /\ res[inherit'[s]] # None
    OBVIOUS
  <2>1. CASE inherit[s] # 0
    <3>1. inherit[s] \in Style /\ resolved[inherit[s]] # None
      BY <1>1, <2>1
    <3>. QED  BY <1>11, <1>12, <2>1, <3>1
  <2>2. CASE inherit[s] = 0
    <3>1. res[s] # None /\ h[res[s]] # None /\ inherit'[s] = FirstStyle(Of(s))
      BY <1>9, <2>2
    <3>2. inherit'[s] \in Of(s)
      BY <1>10, <3>1
    <3>3. res[inherit'[s]] \in h[res[s]].super /\ res[s] \in Address
      BY <1>6, <3>1, <3>2
    <3>4. h[res[s]].super \subseteq Address
      BY <1>3, <3>1, <3>3, HeapType
    <3>. QED  BY <1>3, <3>1, <3>3, <3>4
  <2>. QED  BY <2>1, <2>2
\* Only a style for the base type inherits from none.
<1>16. \A s \in Style : resolved'[s] # None /\ inherit'[s] = 0 => s \notin stale /\ Styles[s].for = Base
  <2>. SUFFICES ASSUME NEW s \in Style, res[s] # None, inherit'[s] = 0, ~(s \notin stale /\ Styles[s].for = Base)
                PROVE  FALSE
    OBVIOUS
  <2>1. inherit[s] = 0
    BY <1>11
  <2>2. s \notin stale
    BY <1>1, <2>1
  <2>3. Styles[s].for # Base /\ Styles[s].for \in Type
    BY <1>8, <2>2
  <2>4. Base \in Supers(Styles[s].for) /\ h[res[s]] # None
    BY <1>8, <2>2, <2>3, SupersFacts DEF IsOf
  <2>. DEFINE t == Len(Styles)
  <2>5. t \in Style /\ Styles[t].for = Base
    BY FontConstants, ResourcesAssumption DEF Last, Base
  <2>6. t \notin stale /\ Has(h, Base)
    BY <1>1, <1>8, <2>2, <2>4, <2>5
  <2>7. res[t] = Lookup(h, Base)
    BY <1>7, <2>5, <2>6 DEF Agree
  <2>8. IsOf(h, res[t], Base)
    BY <1>2, <2>6, <2>7
  <2>9. t \in Of(s)
    BY <1>8, <2>2, <2>4, <2>5, <2>8 DEF IsOf
  <2>10. FirstStyle(Of(s)) \in Of(s) /\ Of(s) \subseteq Style
    BY <1>10, <2>9
  <2>11. inherit'[s] = FirstStyle(Of(s))
    BY <1>9, <2>1, <2>4
  <2>. QED  BY <1>3, <2>10, <2>11
<1>17. QueriesEnd'
  <2>. SUFFICES ASSUME NEW S \in SUBSET Style, S # {} PROVE \E s \in S : inherit'[s] \notin S
    BY DEF QueriesEnd
  <2>1. CASE \E s \in S : resolved[s] # None
    <3>. DEFINE O == {s \in S : resolved[s] # None}
    <3>1. PICK s \in O : inherit[s] \notin O
      BY <1>1, <2>1 DEF QueriesEnd
    <3>2. CASE inherit[s] # 0
      <4>1. inherit'[s] = inherit[s] /\ resolved[inherit[s]] # None
        BY <1>1, <1>11, <3>2
      <4>. QED  BY <3>1, <4>1
    <3>3. CASE inherit[s] = 0
      <4>1. s \notin stale /\ Styles[s].for = Base /\ res[s] # None /\ s \in Style
        BY <1>1, <1>12, <3>1, <3>3
      <4>2. Supers(Base) = {}
        BY <1>8, <4>1, SupersFacts
      <4>3. h[res[s]].super = {} /\ h[res[s]] # None
        BY <1>8, <4>1, <4>2 DEF IsOf
      <4>4. inherit'[s] = FirstStyle(Of(s)) /\ Of(s) = {}
        BY <1>9, <3>3, <4>1, <4>3
      <4>5. inherit'[s] = 0
        BY <1>10, <4>1, <4>4
      <4>. QED  BY <1>3, <4>5
    <3>. QED  BY <3>2, <3>3
  <2>2. CASE (\A s \in S : resolved[s] = None) /\ \E s \in S : res[s] = None
    <3>1. PICK s \in S : resolved[s] = None /\ res[s] = None
      BY <2>2
    <3>2. inherit[s] = 0
      BY <1>1, <3>1
    <3>3. inherit'[s] = 0
      BY <1>9, <3>1, <3>2
    <3>. QED  BY <1>3, <3>3
  <2>3. CASE \A s \in S : resolved[s] = None /\ res[s] # None
    <3>1. \A s \in S : s \notin stale /\ inherit[s] = 0
      BY <1>1, <2>3
    <3>2. \A s \in S : Styles[s].for \in Type
      BY <1>8, <2>3, <3>1
    <3>3. PICK s \in S : \A t \in S : Styles[t].for \notin Supers(Styles[s].for)
      BY <3>2, TopStyle
    <3>4. ASSUME inherit'[s] \in S PROVE FALSE
      <4>. DEFINE t == inherit'[s]
      <4>1. t # 0 /\ h[res[s]] # None /\ t = FirstStyle(Of(s))
        BY <1>3, <1>9, <2>3, <3>1, <3>4
      <4>2. t \in Of(s)
        BY <1>10, <4>1
      <4>3. res[t] \in h[res[s]].super
        BY <4>2
      <4>4. IsOf(h, res[t], Styles[t].for)
        BY <1>8, <2>3, <3>1, <3>4
      <4>5. h[res[t]].name \in Supers(Styles[s].for)
        BY <1>8, <2>3, <3>1, <4>3
      <4>6. Styles[t].for \in Supers(Styles[s].for)
        BY <4>4, <4>5 DEF IsOf
      <4>. QED  BY <3>3, <3>4, <4>6
    <3>. QED  BY <3>4
  <2>. QED  BY <2>1, <2>2, <2>3
\* The styles of elements.
<1>18. ASSUME NEW x \in attached', style[x] = 0
       PROVE  /\ style'[x] \in {0} \cup Style
              /\ Off(style'[x], Listed(Names(x)), stale)
  <2>. DEFINE a == type'[x]
              B == {a} \cup h[a].super
              names == Names(x)
  <2>1. x \in Elem /\ IsOf(h, a, Class(x))
    OBVIOUS
  <2>2. style'[x] = FirstStyle({s \in Style : res[s] \in B})
    BY <1>18, <2>1 DEF StyleForType
  <2>3. SuperOK(h, a) /\ h[a] # None /\ h[a].name = Class(x) /\ a \in Address
    BY <1>3, <2>1 DEF IsOf
  <2>4. names = {Class(x)} \cup Supers(Class(x))
    BY <2>1, NamesFacts
  <2>5. h[a].super = {b \in Address : h[b] # None /\ h[b].name \in Supers(Class(x))}
    BY <2>3 DEF SuperOK
  <2>6. ASSUME NEW b \in Address, h[b] # None, h[b].name = Class(x) PROVE b = a
    BY <1>2, <2>1, <2>6 DEF IsOf
  <2>7. B = {b \in Address : h[b] # None /\ h[b].name \in names}
    BY <2>3, <2>4, <2>5, <2>6
  <2>8. \A m \in names : Has(h, m)
    BY <2>1, <2>3, <2>4 DEF Has, SuperOK
  <2>. DEFINE S == {s \in Style : res[s] \in B}
  <2>9. S \in SUBSET Style /\ TypesAt(h, names, B)
    BY <2>7, <2>8 DEF TypesAt
  <2>. HIDE DEF B, names, res
  <2>10. Off(FirstStyle({s \in Style : res[s] \in B}), Listed(names), stale)
    BY <1>1, <1>7, <2>9, SoughtByName
  <2>11. FirstStyle(S) \in {0} \cup Style
    <3>. HIDE DEF S
    <3>. QED  BY <2>9, FirstStyleFacts
  <2>. QED  BY <2>2, <2>10, <2>11 DEF names, res
<1>19. style' \in [Elem -> {0} \cup Style]
  <2>1. \A x \in Elem : style'[x] \in {0} \cup Style
    BY <1>1, <1>18
  <2>2. style' = [x \in Elem |-> style'[x]]
    OBVIOUS
  <2>. QED  BY <2>1, <2>2
<1>20. \A x \in attached' : Off(style'[x], Listed(Names(x)), stale')
  <2>. SUFFICES ASSUME NEW x \in attached' PROVE Off(style'[x], Listed(Names(x)), stale)
    OBVIOUS
  <2>1. CASE style[x] = 0
    BY <1>18, <2>1
  <2>2. CASE style[x] # 0
    <3>1. x \in attached /\ style'[x] = style[x]
      BY <1>1, <2>2
    <3>. QED  BY <1>1, <3>1
  <2>. QED  BY <2>1, <2>2
<1>21. \A x \in Elem : x \notin attached' => style'[x] = 0
  BY <1>1
<1>22. \A s \in stale : resolved'[s] # None
  BY <1>1, <1>12
<1>23. Agree(resolved', desc', stale')
  BY <1>7
<1>. HIDE DEF res
<1>. QED  BY <1>1, <1>6, <1>13, <1>14, <1>15, <1>16, <1>17, <1>19, <1>20, <1>21, <1>22, <1>23 DEF StyleInv, res

\* Finalising an element leads styles astray; those for the base type never.
LEMMA FiniStyles ==
  ASSUME TypesInv, StyleInv, NEW e \in Elem, Fini(e)
  PROVE  StyleInv'
<1>1. /\ resolved \in [Style -> Address \cup {None}] /\ inherit \in [Style -> {0} \cup Style]
      /\ style \in [Elem -> {0} \cup Style] /\ stale \in SUBSET Style
      /\ phase \in {"closed", "freed"} =>
           stale = {} /\ \A s \in Style : resolved[s] = None /\ inherit[s] = 0
      /\ phase \in {"new", "open"} => Agree(resolved, desc, stale)
      /\ \A s \in stale : resolved[s] # None
      /\ \A s \in Style : s \notin stale /\ resolved[s] # None => Off(inherit[s], Listed(Supers(Styles[s].for)), stale)
      /\ \A s \in Style : inherit[s] # 0 => resolved[s] # None /\ resolved[inherit[s]] # None
      /\ \A s \in Style : resolved[s] # None /\ inherit[s] = 0 => s \notin stale /\ Styles[s].for = Base
      /\ \A s \in Style : Styles[s].for = Base => s \notin stale
      /\ \A x \in attached : Off(style[x], Listed(Names(x)), stale)
      /\ \A x \in Elem : x \notin attached => style[x] = 0
      /\ QueriesEnd
  BY DEF StyleInv
<1>2. /\ phase \in {"open", "closed"} /\ e \notin attached /\ type[e] # None
      /\ desc' = Unref(type[e]) /\ type' = [type EXCEPT ![e] = None] /\ times' = [times EXCEPT ![e] = 0]
      /\ leaked' = leaked \cup IF times[e] > 1 THEN Names(e) ELSE {}
      /\ stale' = stale \cup {s \in Style : resolved[s] # None /\ desc[resolved[s]] # None
                                              /\ desc'[resolved[s]] = None}
      /\ UNCHANGED << phase, attached, resolved, inherit, style >>
  BY DEF Fini
<1>3. /\ HeapOK(desc, SlotsOf(type, times), leaked) /\ LifeOK(phase, desc, type, times, attached)
  BY DEF TypesInv
<1>4. \A f \in Elem : f # e => times'[f] = times[f]
  BY <1>2, <1>3 DEF LifeOK
<1>5. /\ HeapOK(desc', SlotsOf(type', times'), leaked')
      /\ \A b \in Address : desc'[b] # None => desc[b] # None /\ desc'[b].name = desc[b].name
      /\ \A b \in Address : desc[b] # None /\ desc'[b] = None =>
           /\ desc[b].name \in Names(e)
           /\ \A f \in Elem : f # e /\ type[f] # None => desc[b].name \notin Names(f)
  BY <1>2, <1>4, UnrefTypes
<1>6. /\ \A a, n : IsOf(desc', a, n) => Lookup(desc', n) = a
      /\ \A n : Lookup(desc', n) # None <=> Has(desc', n)
  BY <1>5, HeapNames
<1>7. stale \subseteq stale' /\ stale' \in SUBSET Style
  BY <1>1, <1>2
<1>8. CASE phase = "closed"
  <2>1. stale' = {} /\ phase' = "closed"
    BY <1>1, <1>2, <1>8
  <2>. QED  BY <1>1, <1>2, <1>8, <2>1 DEF StyleInv, QueriesEnd
<1>9. CASE phase = "open"
  <2>1. Agree(resolved, desc, stale)
    BY <1>1, <1>9
  <2>2. Agree(resolved', desc', stale')
    <3>. SUFFICES ASSUME NEW s \in Style, s \notin stale' PROVE resolved[s] = Lookup(desc', Styles[s].for)
      BY <1>2 DEF Agree
    <3>. DEFINE n == Styles[s].for
    <3>1. resolved[s] = Lookup(desc, n)
      BY <1>7, <2>1 DEF Agree
    <3>. HIDE DEF n
    <3>2. CASE resolved[s] = None
      <4>1. ~Has(desc, n)
        BY <3>1, <3>2, LookupFacts
      <4>2. ~Has(desc', n)
        BY <1>5, <4>1 DEF Has, IsOf
      <4>. QED  BY <1>6, <3>2, <4>2 DEF n
    <3>3. CASE resolved[s] # None
      <4>1. IsOf(desc, resolved[s], n)
        BY <3>1, <3>3, LookupFacts
      <4>2. desc'[resolved[s]] # None
        BY <1>2, <3>3, <4>1 DEF IsOf
      <4>3. IsOf(desc', resolved[s], n)
        BY <1>5, <4>1, <4>2 DEF IsOf
      <4>. QED  BY <1>6, <4>3 DEF n
    <3>. QED  BY <3>2, <3>3
  <2>3. \A s \in stale' : resolved'[s] # None
    BY <1>1, <1>2
  <2>4. ASSUME NEW s \in Style, Styles[s].for = Base, s \in stale' PROVE FALSE
    <3>1. s \notin stale /\ resolved[s] # None /\ desc'[resolved[s]] = None
      BY <1>1, <1>2, <2>4
    <3>2. IsOf(desc, resolved[s], Base)
      <4>1. resolved[s] = Lookup(desc, Base)
        BY <2>1, <2>4, <3>1 DEF Agree
      <4>. QED  BY <3>1, <4>1, LookupFacts
    <3>3. Win \in Elem /\ Base \in Names(Win)
      BY ConstantsHold, NamesFacts DEF Constants
    <3>4. Win \in attached /\ e # Win /\ type[Win] # None
      BY <1>2, <1>3, <1>9 DEF LifeOK
    <3>. QED  BY <1>5, <3>1, <3>2, <3>3, <3>4 DEF IsOf
  <2>5. \A s \in Style : s \notin stale' /\ resolved'[s] # None =>
          Off(inherit'[s], Listed(Supers(Styles[s].for)), stale')
    <3>. SUFFICES ASSUME NEW s \in Style, s \notin stale', resolved[s] # None
                  PROVE  Off(inherit[s], Listed(Supers(Styles[s].for)), stale')
      BY <1>2
    <3>1. Off(inherit[s], Listed(Supers(Styles[s].for)), stale)
      BY <1>1, <1>7
    <3>. QED  BY <1>7, <3>1, OffMore
  <2>6. \A x \in attached' : Off(style'[x], Listed(Names(x)), stale')
    <3>. SUFFICES ASSUME NEW x \in attached PROVE Off(style[x], Listed(Names(x)), stale')
      BY <1>2
    <3>1. Off(style[x], Listed(Names(x)), stale)
      BY <1>1
    <3>. QED  BY <1>7, <3>1, OffMore
  <2>7. \A s \in Style : resolved'[s] # None /\ inherit'[s] = 0 => s \notin stale' /\ Styles[s].for = Base
    BY <1>1, <1>2, <2>4
  <2>8. QueriesEnd'
    BY <1>1, <1>2 DEF QueriesEnd
  <2>9. phase' = "open"
    BY <1>2, <1>9
  <2>. QED  BY <1>1, <1>2, <1>7, <2>2, <2>3, <2>4, <2>5, <2>6, <2>7, <2>8, <2>9 DEF StyleInv
<1>. QED  BY <1>2, <1>8, <1>9

LEMMA StyleNext == TypesInv /\ TypesInv' /\ StyleInv /\ [Next]_vars => StyleInv'
<1>. SUFFICES ASSUME TypesInv, TypesInv', StyleInv, [Next]_vars PROVE StyleInv'
  OBVIOUS
<1>1. ASSUME NEW e \in Elem, Attach(e) PROVE StyleInv'
  <2>1. /\ phase = "open" /\ e \notin attached /\ (e = Win \/ Win \in attached)
        /\ times[e] < IF Last(Chain[e]) \in leaked THEN 1 ELSE MaxAttached
        /\ times' = [times EXCEPT ![e] = @ + 1] /\ UNCHANGED << phase, leaked, stale >>
    BY <1>1 DEF Attach
  <2>2. PICK alloc \in [Missing(e) -> Free(desc)] :
          /\ IsInjective(alloc)
          /\ LET at == Placed(e, alloc)
                 heap == RefChain(e, at)
                 res == Resolve(heap)
             IN
             /\ desc' = heap /\ resolved' = res /\ inherit' = Inherit(heap, res)
             /\ type' = [type EXCEPT ![e] = at[Last(Chain[e])]]
             /\ attached' = attached \cup {e}
             /\ style' = [x \in Elem |-> IF x \in attached' /\ style[x] = 0
                                         THEN StyleForType(heap, res, type'[x]) ELSE style[x]]
    BY <1>1 DEF Attach, Placed
  <2>. DEFINE h == RefChain(e, Placed(e, alloc))
  <2>3. /\ desc' = h /\ resolved' = Resolve(h) /\ inherit' = Inherit(h, resolved')
        /\ type' = [type EXCEPT ![e] = Placed(e, alloc)[Class(e)]]
        /\ attached' = attached \cup {e}
        /\ style' = [x \in Elem |-> IF x \in attached' /\ style[x] = 0
                                    THEN StyleForType(h, resolved', type'[x]) ELSE style[x]]
    BY <2>2 DEF Class
  <2>4. Refs(e, Placed(e, alloc), desc, h)
    BY <2>2, AttachRefs
  <2>5. times[e] <= MaxAttached
    <3>1. times[e] \in Nat /\ (type[e] = None => times[e] = 0) /\ MaxAttached \in Nat
      BY <2>1, ConstantsHold DEF TypesInv, LifeOK, Constants
    <3>. QED  BY <2>1, <3>1
  <2>. HIDE DEF h
  <2>6. \A a \in Address : desc[a] # None => desc'[a] # None /\ desc'[a].name = desc[a].name
    BY <2>1, <2>3, <2>4, <2>5, AttachTypes
  <2>7. /\ HeapOK(h, SlotsOf(type', times'), leaked') /\ attached' \subseteq Elem
        /\ \A x \in attached' : IsOf(h, type'[x], Class(x))
    BY <2>3 DEF TypesInv, LifeOK
  <2>8. \A a \in Address : desc[a] # None => h[a] # None /\ h[a].name = desc[a].name
    BY <2>3, <2>6
  <2>. QED  BY <2>1, <2>3, <2>7, <2>8, AttachStyles
<1>2. ASSUME NEW e \in Elem, Detach(e) PROVE StyleInv'
  <2>1. /\ attached' = attached \ {e} /\ style' = [style EXCEPT ![e] = 0]
        /\ UNCHANGED << phase, desc, resolved, inherit, stale >>
    BY <1>2 DEF Detach
  <2>2. /\ style \in [Elem -> {0} \cup Style]
        /\ \A x \in attached : Off(style[x], Listed(Names(x)), stale)
        /\ \A x \in Elem : x \notin attached => style[x] = 0
        /\ QueriesEnd /\ attached \subseteq Elem
    BY DEF StyleInv, TypesInv, LifeOK
  <2>3. \A x \in attached' : Off(style'[x], Listed(Names(x)), stale')
    BY <2>1, <2>2
  <2>4. \A x \in Elem : x \notin attached' => style'[x] = 0
    BY <2>1, <2>2
  <2>5. style' \in [Elem -> {0} \cup Style] /\ QueriesEnd'
    BY <2>1, <2>2 DEF QueriesEnd
  <2>. QED  BY <2>1, <2>3, <2>4, <2>5 DEF StyleInv
<1>3. ASSUME NEW e \in Elem, Fini(e) PROVE StyleInv'
  BY <1>3, FiniStyles
<1>4. CASE Close
  <2>1. /\ phase' = "closed" /\ attached' = {} /\ style' = [e \in Elem |-> 0]
        /\ resolved' = [s \in Style |-> None] /\ inherit' = [s \in Style |-> 0] /\ stale' = {}
    BY <1>4 DEF Close
  <2>2. QueriesEnd'
    BY <2>1, ZeroFacts DEF QueriesEnd
  <2>. QED  BY <2>1, <2>2 DEF StyleInv
<1>5. ASSUME UNCHANGED styles, UNCHANGED attached,
             \/ phase' = phase /\ desc' = desc
             \/ phase' = "freed" /\ phase = "closed"
             \/ phase' = "open" /\ phase = "new" /\ desc' = desc
      PROVE  StyleInv'
  <2>1. UNCHANGED << resolved, inherit, style, stale, attached >>
    BY <1>5 DEF styles
  <2>2. QueriesEnd'
    BY <2>1 DEF StyleInv, QueriesEnd
  <2>3. phase' \in {"new", "open"} => Agree(resolved', desc', stale')
    BY <1>5, <2>1 DEF StyleInv
  <2>4. phase' \in {"closed", "freed"} => phase \in {"closed", "freed"}
    BY <1>5
  <2>. QED  BY <2>1, <2>2, <2>3, <2>4 DEF StyleInv
<1>6. CASE FreeAllTypes
  <2>1. UNCHANGED styles /\ UNCHANGED attached /\ phase' = "freed" /\ phase = "closed"
    BY <1>6 DEF FreeAllTypes
  <2>. QED  BY <1>5, <2>1
<1>7. CASE Open
  <2>1. UNCHANGED styles /\ UNCHANGED attached /\ phase' = "open" /\ phase = "new" /\ desc' = desc
    BY <1>7 DEF Open, types
  <2>. QED  BY <1>5, <2>1
<1>8. ASSUME NEW f \in External, LoadExternal(f) \/ FreeExternal(f) PROVE StyleInv'
  <2>1. UNCHANGED styles /\ UNCHANGED attached /\ phase' = phase /\ desc' = desc
    BY <1>8 DEF LoadExternal, FreeExternal, types
  <2>. QED  BY <1>5, <2>1
<1>9. CASE SetDpi \/ UNCHANGED vars
  <2>1. UNCHANGED styles /\ UNCHANGED attached /\ phase' = phase /\ desc' = desc
    BY <1>9 DEF SetDpi, vars, types
  <2>. QED  BY <1>5, <2>1
<1>. QED  BY <1>1, <1>2, <1>3, <1>4, <1>6, <1>7, <1>8, <1>9 DEF Next

LEMMA StylesAreListed == TypesInv /\ StyleInv => StylesSound
<1>. SUFFICES ASSUME TypesInv, StyleInv PROVE StylesSound
  OBVIOUS
<1>1. ASSUME NEW x, NEW y, Off(x, y, stale) PROVE x = y \/ {x, y} \cap stale # {}
  BY <1>1 DEF Off
<1>2. ASSUME NEW e \in attached PROVE style[e] = Listed(Names(e)) \/ {style[e], Listed(Names(e))} \cap stale # {}
  <2>1. Off(style[e], Listed(Names(e)), stale)
    BY DEF StyleInv
  <2>. QED  BY <1>1, <2>1
<1>3. ASSUME NEW e \in attached, NEW s \in Style, Styles[s].for = Last(Chain[e]), s \notin stale
      PROVE  LET first == Listed(ToSet(Front(Chain[e])))
             IN  inherit[s] = first \/ {inherit[s], first} \cap stale # {}
  <2>1. e \in Elem /\ IsOf(desc, type[e], Class(e)) /\ phase \in {"new", "open"}
    BY DEF TypesInv, LifeOK
  <2>2. resolved[s] = Lookup(desc, Class(e))
    BY <1>3, <2>1 DEF StyleInv, Agree, Class
  <2>3. resolved[s] # None
    BY <2>1, <2>2, LookupFacts DEF Has, IsOf
  <2>4. Off(inherit[s], Listed(Supers(Class(e))), stale)
    BY <1>3, <2>3 DEF StyleInv, Class
  <2>5. ToSet(Front(Chain[e])) = Supers(Class(e))
    BY <2>1, NamesFacts
  <2>. QED  BY <1>1, <2>4, <2>5
<1>4. QueriesEnd
  BY DEF StyleInv
<1>. QED  BY <1>2, <1>3, <1>4 DEF StylesSound, StyledByList

-------------------------------------------------------------------------------
\* Descriptors are there as long as they are used and no longer: for any elements,
\* attached, detached and finalised in any order.
THEOREM TypesAreCounted == Spec => []TypesCounted
<1>1. Init => TypesInv /\ StyleInv /\ FontInv /\ LoadedResolved
  BY TypesInit, StyleInit, FontInit
<1>2. TypesInv /\ StyleInv /\ FontInv /\ LoadedResolved /\ [Next]_vars =>
        TypesInv' /\ StyleInv' /\ FontInv' /\ LoadedResolved'
  BY TypesNext, StyleNext, FontNext
<1>3. TypesInv /\ StyleInv /\ FontInv => TypesCounted
  <2>. SUFFICES ASSUME TypesInv, StyleInv, FontInv PROVE TypesCounted
    OBVIOUS
  <2>1. TypeOK
    BY DEF TypeOK, TypesInv, HeapOK, LifeOK, StyleInv, FontInv
  <2>. QED  BY <2>1, TypesCount DEF TypesCounted
<1>. QED  BY <1>1, <1>2, <1>3, PTL DEF Spec

\* The style of an element and those a style inherits from are the first of the
\* list, up to the styles gone astray, and every query of a style ends.
THEOREM StylesAreSound == Spec => []StylesSound
<1>1. Init => TypesInv /\ StyleInv
  BY TypesInit, StyleInit
<1>2. TypesInv /\ StyleInv /\ [Next]_vars => TypesInv' /\ StyleInv'
  BY TypesNext, StyleNext
<1>3. TypesInv /\ StyleInv => StylesSound
  BY StylesAreListed
<1>. QED  BY <1>1, <1>2, <1>3, PTL DEF Spec
===============================================================================
