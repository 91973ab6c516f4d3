----------------------------- MODULE RenderProofs -----------------------------
(***************************************************************************)
(* Theorems about the redraw pipeline, for every element tree.             *)
(***************************************************************************)
EXTENDS Render, SequenceTheorems, FiniteSetTheorems, WellFoundedInduction, TLAPS

-------------------------------------------------------------------------------
(***************************************************************************)
(* Facts about the tree                                                    *)
(***************************************************************************)

\* The nearest surface of an element is a surface above it, and is unique.
LEMMA SurfaceFacts ==
  ASSUME NEW e \in Elem \ Roots
  PROVE  /\ SurfaceOf[e] \in Above[e] \cap Surface
         /\ Above[e] \cap Surface \subseteq {SurfaceOf[e]} \cup Above[SurfaceOf[e]]
BY NearestAssumption DEF SurfaceOf

LEMMA SurfaceUnique ==
  ASSUME NEW e \in Elem \ Roots,
         NEW s \in Above[e] \cap Surface,
         Above[e] \cap Surface \subseteq {s} \cup Above[s]
  PROVE  SurfaceOf[e] = s
<1>1. /\ SurfaceOf[e] \in {s} \cup Above[s]
      /\ s \in {SurfaceOf[e]} \cup Above[SurfaceOf[e]]
  BY SurfaceFacts
<1>2. \A x \in Elem : x \notin Above[x]
  BY TreeAssumption DEF Roots
<1>. QED  BY <1>1, <1>2, SurfaceFacts, TreeAssumption

LEMMA RootFacts ==
  ASSUME NEW r \in Roots
  PROVE  r \in Surface /\ SurfaceOf[r] = r
BY TreeAssumption DEF Roots, SurfaceOf

\* What mark_dirty queues for e is drawn on the same surface as e.
LEMMA TargetFacts ==
  ASSUME NEW e \in Elem \ Roots
  PROVE  Target[e] \in Elem \ Roots /\ SurfaceOf[Target[e]] = SurfaceOf[e]
<1>. DEFINE t == Target[e]
            s == SurfaceOf[e]
<1>1. t \in {e} \cup Between(e)
  BY NearestAssumption DEF Target
<1>2. CASE t = e
  BY <1>2
<1>3. CASE t \in Between(e)
  <2>1. t \in Above[e] /\ s \in Above[t] /\ t \in Elem
    BY <1>3, TreeAssumption DEF Between
  <2>2. t \notin Roots
    BY <2>1, TreeAssumption
  <2>3. Above[t] \cap Surface \subseteq {s} \cup Above[s]
    BY <2>1, SurfaceFacts, TreeAssumption
  <2>4. s \in Surface
    BY SurfaceFacts
  <2>. QED  BY <2>1, <2>2, <2>3, <2>4, SurfaceUnique
<1>. QED  BY <1>1, <1>2, <1>3

LEMMA InsideFacts ==
  ASSUME NEW s \in Surface
  PROVE  Inside(s) \subseteq Elem \ Roots
BY DEF Inside

-------------------------------------------------------------------------------
(***************************************************************************)
(* Facts about queues, as sets of elements                                 *)
(***************************************************************************)

LEMMA ConcatFacts ==
  ASSUME NEW S, NEW p \in Seq(S), NEW q \in Seq(S)
  PROVE  /\ p \o q \in Seq(S)
         /\ ToSet(p \o q) = ToSet(p) \cup ToSet(q)
         /\ IsInjective(p) /\ IsInjective(q) /\ ToSet(p) \cap ToSet(q) = {} => IsInjective(p \o q)
<1>. DEFINE r == p \o q
<1>1. /\ r \in Seq(S) /\ Len(r) = Len(p) + Len(q)
      /\ Len(p) \in Nat /\ Len(q) \in Nat
      /\ DOMAIN p = 1..Len(p) /\ DOMAIN q = 1..Len(q) /\ DOMAIN r = 1..(Len(p) + Len(q))
      /\ \A i \in 1..(Len(p) + Len(q)) :
           r[i] = IF i <= Len(p) THEN p[i] ELSE q[i - Len(p)]
  BY ConcatProperties, LenProperties
<1>. HIDE DEF r
<1>2. \A i \in DOMAIN r : \/ i \in DOMAIN p /\ r[i] = p[i]
                          \/ i - Len(p) \in DOMAIN q /\ r[i] = q[i - Len(p)]
  BY <1>1
<1>3. \A i \in DOMAIN p : i \in DOMAIN r /\ r[i] = p[i]
  BY <1>1
<1>4. \A i \in DOMAIN q : i + Len(p) \in DOMAIN r /\ r[i + Len(p)] = q[i]
  BY <1>1
<1>5. ToSet(r) = ToSet(p) \cup ToSet(q)
  BY <1>2, <1>3, <1>4 DEF ToSet
<1>6. ASSUME IsInjective(p), IsInjective(q), ToSet(p) \cap ToSet(q) = {}
      PROVE  IsInjective(r)
  <2>1. SUFFICES ASSUME NEW i \in DOMAIN r, NEW j \in DOMAIN r, r[i] = r[j]
                 PROVE  i = j
    BY DEF IsInjective
  <2>6. \A k \in DOMAIN p, l \in DOMAIN q : p[k] # q[l]
    BY <1>6 DEF ToSet
  <2>2. CASE i <= Len(p) /\ j <= Len(p)
    BY <1>1, <1>6, <2>1, <2>2 DEF IsInjective
  <2>3. CASE ~(i <= Len(p)) /\ ~(j <= Len(p))
    <3>1. i - Len(p) \in DOMAIN q /\ j - Len(p) \in DOMAIN q
          /\ q[i - Len(p)] = q[j - Len(p)]
      BY <1>1, <2>1, <2>3
    <3>2. i - Len(p) = j - Len(p)
      BY <3>1, <1>6 DEF IsInjective
    <3>. QED  BY <3>2, <1>1
  <2>4. CASE i <= Len(p) /\ ~(j <= Len(p))
    <3>1. i \in DOMAIN p /\ j - Len(p) \in DOMAIN q /\ r[i] = p[i] /\ r[j] = q[j - Len(p)]
      BY <1>1, <2>4
    <3>. QED  BY <2>1, <2>6, <3>1
  <2>5. CASE ~(i <= Len(p)) /\ j <= Len(p)
    <3>1. j \in DOMAIN p /\ i - Len(p) \in DOMAIN q /\ r[j] = p[j] /\ r[i] = q[i - Len(p)]
      BY <1>1, <2>5
    <3>. QED  BY <2>1, <2>6, <3>1
  <2>. QED  BY <2>2, <2>3, <2>4, <2>5
<1>. QED  BY <1>1, <1>5, <1>6 DEF r

\* What is left of a queue when its head is unlinked.
LEMMA TailFacts ==
  ASSUME NEW S, NEW q \in Seq(S), q # <<>>
  PROVE  /\ Head(q) \in ToSet(q) /\ Head(q) \in S
         /\ Tail(q) \in Seq(S)
         /\ ToSet(Tail(q)) \subseteq ToSet(q)
         /\ IsInjective(q) => IsInjective(Tail(q)) /\ ToSet(Tail(q)) = ToSet(q) \ {Head(q)}
<1>. DEFINE r == Tail(q)
<1>1. /\ r \in Seq(S) /\ Len(r) = Len(q) - 1 /\ Head(q) \in S /\ Head(q) = q[1]
      /\ Len(q) \in Nat /\ Len(q) > 0
      /\ DOMAIN q = 1..Len(q) /\ DOMAIN r = 1..(Len(q) - 1)
      /\ \A i \in 1..(Len(q) - 1) : r[i] = q[i + 1]
  BY HeadTailProperties, LenProperties, EmptySeq
<1>. HIDE DEF r
<1>2. \A i \in DOMAIN r : i + 1 \in DOMAIN q /\ r[i] = q[i + 1] /\ i + 1 # 1
  BY <1>1
<1>3. 1 \in DOMAIN q
  BY <1>1
<1>4. \A i \in DOMAIN q : i = 1 \/ (i - 1 \in DOMAIN r /\ r[i - 1] = q[i])
  BY <1>1
<1>5. ToSet(r) \subseteq ToSet(q) /\ Head(q) \in ToSet(q)
  BY <1>1, <1>2, <1>3 DEF ToSet
<1>6. ASSUME IsInjective(q)
      PROVE  IsInjective(r) /\ ToSet(r) = ToSet(q) \ {Head(q)}
  <2>1. IsInjective(r)
    <3>1. SUFFICES ASSUME NEW i \in DOMAIN r, NEW j \in DOMAIN r, r[i] = r[j]
                   PROVE  i = j
      BY DEF IsInjective
    <3>2. i + 1 = j + 1
      BY <1>2, <1>6, <3>1 DEF IsInjective
    <3>. QED  BY <3>2, <1>1
  <2>2. q[1] \notin ToSet(r)
    BY <1>2, <1>3, <1>6 DEF ToSet, IsInjective
  <2>3. ToSet(q) \subseteq ToSet(r) \cup {q[1]}
    BY <1>4 DEF ToSet
  <2>. QED  BY <1>1, <1>5, <2>1, <2>2, <2>3
<1>. QED  BY <1>1, <1>5, <1>6 DEF r

LEMMA EmptyFacts ==
  ToSet(<<>>) = {} /\ IsInjective(<<>>)
BY DEF ToSet, IsInjective

-------------------------------------------------------------------------------
(***************************************************************************)
(* Facts about requests                                                    *)
(***************************************************************************)

Ledgers == [now : SUBSET Elem, next : SUBSET Elem, gap : [Elem -> Gap]]

\* Only elements that are not linked yet are inserted.
LEMMA MarksFacts ==
  ASSUME NEW e \in Elem
  PROVE  Marks(e) \subseteq (Elem \ Roots) \ render_entry
<1>1. Chain(e) \subseteq Elem \ Roots
  BY TreeAssumption DEF Chain
<1>2. \A x \in Chain(e) : ~Blocked(x) => Target[x] \in (Elem \ Roots) \ render_entry
  BY <1>1, TargetFacts DEF Blocked
<1>. QED  BY <1>2 DEF Marks

LEMMA ReinitFacts ==
  {Target[s] : s \in {x \in Surface \ Roots : ~Blocked(x)}} \subseteq (Elem \ Roots) \ render_entry
BY TargetFacts, TreeAssumption DEF Blocked

\* What one insertion does to the two queues of every surface.
LEMMA EnqueueFacts ==
  ASSUME render_queue \in [Surface -> Seq(Elem)],
         next_queue \in [Surface -> Seq(Elem)],
         NEW T \in SUBSET (Elem \ Roots),
         Enqueue(T)
  PROVE  /\ render_queue' \in [Surface -> Seq(Elem)]
         /\ next_queue' \in [Surface -> Seq(Elem)]
         /\ render_entry' = render_entry \cup T
         /\ \A s \in Surface :
              LET new == T \cap Inside(s)
              IN  /\ in_redraw[s] =>
                       /\ render_queue'[s] = render_queue[s]
                       /\ ToSet(next_queue'[s]) = ToSet(next_queue[s]) \cup new
                       /\ IsInjective(next_queue[s]) /\ ToSet(next_queue[s]) \cap new = {}
                            => IsInjective(next_queue'[s])
                  /\ ~in_redraw[s] =>
                       /\ next_queue'[s] = next_queue[s]
                       /\ ToSet(render_queue'[s]) = ToSet(render_queue[s]) \cup new
                       /\ IsInjective(render_queue[s]) /\ ToSet(render_queue[s]) \cap new = {}
                            => IsInjective(render_queue'[s])
<1>. DEFINE On(s) == {t \in T : SurfaceOf[t] = s}
<1>1. PICK o \in Orders(T) :
        /\ render_queue' = [s \in Surface |-> IF in_redraw[s] THEN render_queue[s]
                                              ELSE render_queue[s] \o o[s]]
        /\ next_queue' = [s \in Surface |-> IF in_redraw[s] THEN next_queue[s] \o o[s]
                                            ELSE next_queue[s]]
  BY DEF Enqueue
<1>2. ASSUME NEW s \in Surface
      PROVE  o[s] \in Seq(Elem) /\ ToSet(o[s]) = On(s) /\ IsInjective(o[s])
  <2>1. o[s] \in Listings(On(s))
    BY <1>1 DEF Orders
  <2>2. IsFiniteSet(On(s))
    BY FS_Subset, TreeAssumption
  <2>3. Cardinality(On(s)) \in Nat
    BY <2>2, FS_CardinalityType
  <2>4. o[s] \in [1..Cardinality(On(s)) -> Elem]
    BY <2>1 DEF Listings
  <2>. DEFINE n == Cardinality(On(s))
  <2>6. n \in Nat /\ o[s] \in [1..n -> Elem]
    BY <2>3, <2>4
  <2>. HIDE DEF n
  <2>5. o[s] \in Seq(Elem)
    BY <2>6, SeqDef
  <2>. QED  BY <2>1, <2>5 DEF Listings
<1>3. \A s \in Surface : On(s) = T \cap Inside(s)
  BY DEF Inside
<1>. HIDE DEF On
<1>4. ASSUME NEW s \in Surface
      PROVE  /\ render_queue[s] \o o[s] \in Seq(Elem)
             /\ next_queue[s] \o o[s] \in Seq(Elem)
             /\ ToSet(render_queue[s] \o o[s]) = ToSet(render_queue[s]) \cup On(s)
             /\ ToSet(next_queue[s] \o o[s]) = ToSet(next_queue[s]) \cup On(s)
             /\ IsInjective(render_queue[s]) /\ ToSet(render_queue[s]) \cap On(s) = {}
                  => IsInjective(render_queue[s] \o o[s])
             /\ IsInjective(next_queue[s]) /\ ToSet(next_queue[s]) \cap On(s) = {}
                  => IsInjective(next_queue[s] \o o[s])
  BY <1>2, ConcatFacts
<1>. QED  BY <1>1, <1>3, <1>4 DEF Enqueue

LEMMA GapFacts ==
  ASSUME NEW e \in Elem, NEW l \in Ledgers
  PROVE  GapOf(e, l) \in Gap
<1>. DEFINE on    == {SurfaceOf[x] : x \in Chain(e)}
            stuck == {s \in on : /\ surface_state[s] = "INVALID"
                                 /\ s \in l.now \cup l.next /\ l.gap[s] # "none"}
<1>1. ASSUME stuck # {}
      PROVE  l.gap[CHOOSE s \in stuck : TRUE] \in Gap
  BY <1>1 DEF Ledgers
<1>. QED  BY <1>1 DEF GapOf, Gap

LEMMA AskFacts ==
  ASSUME NEW l \in Ledgers, NEW E \in SUBSET Elem, NEW r,
         \A e \in E : r[e] \in Gap
  PROVE  Ask(l, E, r) \in Ledgers
BY DEF Ask, Ledgers

LEMMA PaintFacts ==
  ASSUME NEW l \in Ledgers, NEW e \in Elem
  PROVE  Paint(l, e) \in Ledgers
BY DEF Paint, Ledgers, Gap

-------------------------------------------------------------------------------
(***************************************************************************)
(* Facts about the stack of rtb_surface_draw_children calls                *)
(***************************************************************************)

LEMMA PushFacts ==
  ASSUME NEW S, NEW c \in S, NEW q \in Seq(S), NEW r, r = <<c>> \o q
  PROVE  /\ r \in Seq(S) /\ r # <<>>
         /\ Head(r) = c /\ Tail(r) = q /\ r[1] = c /\ 1 \in DOMAIN r
         /\ Len(q) \in Nat
         /\ DOMAIN q = 1..Len(q) /\ DOMAIN r = 1..(Len(q) + 1)
         /\ \A i \in DOMAIN r : i = 1 \/ (i - 1 \in DOMAIN q /\ r[i] = q[i - 1])
         /\ \A i \in DOMAIN q : i + 1 \in DOMAIN r /\ r[i + 1] = q[i]
<1>. DEFINE p == <<c>>
<1>1. r = p \o q
  OBVIOUS
<1>2. p \in Seq(S) /\ Len(p) = 1 /\ p[1] = c
  OBVIOUS
<1>. HIDE DEF p
<1>3. /\ r \in Seq(S) /\ Len(r) = Len(p) + Len(q)
      /\ \A i \in 1..(Len(p) + Len(q)) : r[i] = IF i <= Len(p) THEN p[i] ELSE q[i - Len(p)]
  BY <1>2, <1>1, ConcatProperties
<1>4. /\ Len(r) = Len(q) + 1 /\ Len(q) \in Nat
      /\ DOMAIN q = 1..Len(q) /\ DOMAIN r = 1..(Len(q) + 1)
      /\ \A i \in 1..(Len(q) + 1) : r[i] = IF i <= 1 THEN p[i] ELSE q[i - 1]
  BY <1>2, <1>3, LenProperties
<1>5. r[1] = c /\ 1 \in DOMAIN r
  BY <1>2, <1>3, <1>4
<1>6. \A i \in DOMAIN r : i = 1 \/ (i - 1 \in DOMAIN q /\ r[i] = q[i - 1])
  BY <1>3, <1>4
<1>7. \A i \in DOMAIN q : i + 1 \in DOMAIN r /\ r[i + 1] = q[i]
  BY <1>3, <1>4
<1>8. r # <<>> /\ Head(r) = c
  BY <1>3, <1>5, <1>4, EmptySeq, HeadTailProperties
<1>9. Tail(r) = q
  <2>1. /\ Tail(r) \in Seq(S) /\ Len(Tail(r)) = Len(r) - 1
        /\ \A i \in 1..Len(Tail(r)) : Tail(r)[i] = r[i + 1]
    BY <1>3, <1>8, HeadTailProperties
  <2>2. Len(Tail(r)) = Len(q)
    BY <1>2, <1>3, <1>4, <2>1
  <2>. QED  BY <1>3, <1>7, <1>4, <2>1, <2>2, SeqEqual
<1>. QED  BY <1>3, <1>4, <1>5, <1>6, <1>7, <1>8, <1>9

LEMMA PopFacts ==
  ASSUME NEW S, NEW q \in Seq(S), q # <<>>
  PROVE  /\ Head(q) \in S /\ Head(q) = q[1] /\ 1 \in DOMAIN q
         /\ Tail(q) \in Seq(S) /\ Len(q) \in Nat /\ DOMAIN q = 1..Len(q)
         /\ \A i \in DOMAIN Tail(q) : i \in Nat /\ i + 1 \in DOMAIN q /\ Tail(q)[i] = q[i + 1]
         /\ \A i \in DOMAIN q : i = 1 \/ (i - 1 \in DOMAIN Tail(q) /\ q[i] = Tail(q)[i - 1])
<1>. DEFINE r == Tail(q)
<1>1. /\ r \in Seq(S) /\ Len(r) = Len(q) - 1 /\ Head(q) \in S /\ Head(q) = q[1]
      /\ Len(q) \in Nat /\ Len(q) > 0
      /\ DOMAIN q = 1..Len(q) /\ DOMAIN r = 1..(Len(q) - 1)
      /\ \A i \in 1..(Len(q) - 1) : r[i] = q[i + 1]
  BY HeadTailProperties, LenProperties, EmptySeq
<1>. HIDE DEF r
<1>. QED  BY <1>1 DEF r

\* Updating the innermost call changes no other entry of the stack.
LEMMA ReplaceFacts ==
  ASSUME NEW S, NEW q \in Seq(S), q # <<>>, NEW c \in S, NEW r, r = <<c>> \o Tail(q)
  PROVE  /\ r \in Seq(S) /\ r # <<>> /\ DOMAIN r = DOMAIN q
         /\ r[1] = c /\ Head(r) = c /\ Tail(r) = Tail(q)
         /\ \A i \in DOMAIN q : i # 1 => r[i] = q[i]
<1>. DEFINE t == Tail(q)
<1>1. /\ t \in Seq(S) /\ Len(q) \in Nat /\ DOMAIN q = 1..Len(q) /\ 1 \in DOMAIN q
      /\ \A i \in DOMAIN t : i \in Nat /\ i + 1 \in DOMAIN q /\ t[i] = q[i + 1]
      /\ \A i \in DOMAIN q : i = 1 \/ (i - 1 \in DOMAIN t /\ q[i] = t[i - 1])
      /\ Len(t) = Len(q) - 1
  BY PopFacts, HeadTailProperties
<1>2. r = <<c>> \o t
  OBVIOUS
<1>. HIDE DEF t
<1>3. /\ r \in Seq(S) /\ r # <<>>
      /\ Head(r) = c /\ Tail(r) = t /\ r[1] = c
      /\ DOMAIN t = 1..Len(t) /\ DOMAIN r = 1..(Len(t) + 1)
      /\ \A i \in DOMAIN r : i = 1 \/ (i - 1 \in DOMAIN t /\ r[i] = t[i - 1])
  BY <1>1, <1>2, PushFacts
<1>4. DOMAIN r = DOMAIN q
  BY <1>1, <1>3
<1>5. \A i \in DOMAIN q : i # 1 => r[i] = q[i]
  BY <1>1, <1>3, <1>4
<1>. QED  BY <1>3, <1>4, <1>5 DEF t

-------------------------------------------------------------------------------
(***************************************************************************)
(* Type correctness                                                        *)
(***************************************************************************)

QueuesTyped ==
  /\ render_queue \in [Surface -> Seq(Elem)]
  /\ next_queue \in [Surface -> Seq(Elem)]
  /\ \A s \in Surface : ToSet(render_queue[s]) \cup ToSet(next_queue[s]) \subseteq Inside(s)
  /\ render_entry \in SUBSET Elem

LEMMA EnqueueTyped ==
  ASSUME QueuesTyped, NEW T \in SUBSET (Elem \ Roots), Enqueue(T)
  PROVE  QueuesTyped'
<1>1. /\ render_queue' \in [Surface -> Seq(Elem)]
      /\ next_queue' \in [Surface -> Seq(Elem)]
      /\ render_entry' = render_entry \cup T
      /\ \A s \in Surface :
           /\ ToSet(render_queue'[s]) \subseteq ToSet(render_queue[s]) \cup (T \cap Inside(s))
           /\ ToSet(next_queue'[s]) \subseteq ToSet(next_queue[s]) \cup (T \cap Inside(s))
  BY EnqueueFacts DEF QueuesTyped
<1>. QED  BY <1>1 DEF QueuesTyped

Requested ==
  /\ QueuesTyped'
  /\ dirty' \in BOOLEAN
  /\ surface_state' \in [Surface -> {"VALID", "INVALID"}]
  /\ ledger' \in Ledgers

\* A request, whoever makes it, keeps the types of what it touches.
LEMMA MarkDirtyTyped ==
  ASSUME TypeOK, NEW e \in Elem, NEW l \in Ledgers, MarkDirty(e, l)
  PROVE  Requested
<1>1. QueuesTyped'
  <2>1. QueuesTyped
    BY DEF TypeOK, QueuesTyped
  <2>. QED  BY <2>1, MarksFacts, EnqueueTyped DEF MarkDirty
<1>2. dirty' \in BOOLEAN /\ surface_state' \in [Surface -> {"VALID", "INVALID"}]
  BY DEF MarkDirty, TypeOK, SetsDirty
<1>3. ledger' \in Ledgers
  <2>1. \A y \in {e} : [x \in {e} |-> GapOf(e, l)][y] \in Gap
    BY GapFacts
  <2>. QED  BY <2>1, AskFacts DEF MarkDirty
<1>. QED  BY <1>1, <1>2, <1>3 DEF Requested

LEMMA SurfaceInvalidateTyped ==
  ASSUME TypeOK, NEW s \in Surface, NEW l \in Ledgers, SurfaceInvalidate(s, l)
  PROVE  Requested
<1>. s \in Elem
  BY TreeAssumption
<1>1. QueuesTyped'
  <2>1. QueuesTyped
    BY DEF TypeOK, QueuesTyped
  <2>. QED  BY <2>1, MarksFacts, EnqueueTyped DEF SurfaceInvalidate
<1>2. dirty' \in BOOLEAN /\ surface_state' \in [Surface -> {"VALID", "INVALID"}]
  BY DEF SurfaceInvalidate, TypeOK
<1>3. ledger' \in Ledgers
  <2>. DEFINE own   == GapOf(s, l)
              inner == IF own = "none" /\ FullRedraw(s) THEN "full_redraw" ELSE own
              hit   == {s} \cup Inside(s)
              r     == [x \in hit |-> IF x = s THEN own ELSE inner]
  <2>1. own \in Gap /\ inner \in Gap
    BY GapFacts DEF Gap
  <2>2. hit \in SUBSET Elem
    BY InsideFacts
  <2>3. ledger' = Ask(l, hit, r)
    BY DEF SurfaceInvalidate
  <2>. HIDE DEF own, inner, hit
  <2>4. \A x \in hit : r[x] \in Gap
    BY <2>1
  <2>. QED  BY <2>2, <2>3, <2>4, AskFacts
<1>. QED  BY <1>1, <1>2, <1>3 DEF Requested

LEMMA NoRequestTyped ==
  ASSUME TypeOK, NEW l \in Ledgers, NoRequest(l)
  PROVE  Requested
BY DEF TypeOK, NoRequest, Requested, QueuesTyped, queues

LEMMA OpenSurfaceTyped ==
  ASSUME TypeOK, NEW s \in Surface, NEW below \in Seq(Call), OpenSurface(s, below)
  PROVE  /\ stack' \in Seq(Call)
         /\ in_redraw' \in [Surface -> BOOLEAN]
         /\ render_queue' \in [Surface -> Seq(Elem)]
         /\ \A t \in Surface : ToSet(render_queue'[t]) \subseteq Inside(t)
         /\ render_entry' \in SUBSET Elem
<1>1. CASE ~IsDirty(s)
  BY <1>1 DEF OpenSurface, TypeOK
<1>2. CASE IsDirty(s)
  <2>. DEFINE full == surface_state[s] = "INVALID"
              call == [surf |-> s, full |-> full, todo |-> IF full THEN Inside(s) ELSE {}]
  <2>1. call \in Call
    BY InsideFacts DEF Call
  <2>2. /\ stack' = <<call>> \o below
        /\ in_redraw' = [in_redraw EXCEPT ![s] = TRUE]
        /\ \/ /\ render_queue' = [render_queue EXCEPT ![s] = <<>>]
              /\ render_entry' = render_entry \ ToSet(render_queue[s])
           \/ UNCHANGED <<render_queue, render_entry>>
    BY <1>2 DEF OpenSurface
  <2>. HIDE DEF call
  <2>3. stack' \in Seq(Call)
    BY <2>1, <2>2, PushFacts
  <2>4. <<>> \in Seq(Elem)
    BY EmptySeq
  <2>. QED  BY <2>2, <2>3, <2>4, EmptyFacts DEF TypeOK
<1>. QED  BY <1>1, <1>2

LEMMA HeadTyped ==
  ASSUME TypeOK, stack # <<>>
  PROVE  /\ Head(stack) \in Call /\ Head(stack).surf \in Surface
         /\ Tail(stack) \in Seq(Call)
<1>1. stack \in Seq(Call)
  BY DEF TypeOK
<1>2. Head(stack) \in Call /\ Tail(stack) \in Seq(Call)
  BY <1>1, PopFacts
<1>. QED  BY <1>2 DEF Call

LEMMA DrawnTyped ==
  ASSUME TypeOK, NEW e \in Elem, Turn(e)
  PROVE  Drawn(e) \in Seq(Call)
<1>1. stack \in Seq(Call) /\ stack # <<>> /\ Head(stack) \in Call
  BY HeadTyped DEF TypeOK, Turn
<1>2. [Head(stack) EXCEPT !.todo = @ \ {e}] \in Call
  BY <1>1 DEF Call
<1>. QED  BY <1>1, <1>2, ReplaceFacts DEF Drawn

LEMMA InitTyped == Init => TypeOK
<1>. SUFFICES ASSUME Init PROVE TypeOK
  OBVIOUS
<1>1. <<>> \in Seq(Elem) /\ <<>> \in Seq(Call)
  BY EmptySeq
<1>. QED  BY <1>1, EmptyFacts DEF Init, TypeOK, Phase, Gap

LEMMA NextTyped == TypeOK /\ [Next]_vars => TypeOK'
<1>. SUFFICES ASSUME TypeOK, [Next]_vars PROVE TypeOK'
  OBVIOUS
<1>1. ASSUME NEW e \in Elem, AppMark(e) PROVE TypeOK'
  <2>1. Requested
    BY <1>1, MarkDirtyTyped DEF AppMark, TypeOK, Ledgers
  <2>. QED  BY <1>1, <2>1 DEF AppMark, TypeOK, Requested, QueuesTyped, Ledgers, window
<1>2. ASSUME NEW s \in Surface, AppInvalidate(s) PROVE TypeOK'
  <2>1. Requested
    BY <1>2, SurfaceInvalidateTyped DEF AppInvalidate, TypeOK, Ledgers
  <2>. QED  BY <1>2, <2>1 DEF AppInvalidate, TypeOK, Requested, QueuesTyped, Ledgers, window
<1>3. CASE Expose
  BY <1>3 DEF Expose, TypeOK, window, queues
<1>4. CASE VisibilityNotify
  BY <1>4 DEF VisibilityNotify, TypeOK, queues
<1>5. CASE Reinit
  <2>1. QueuesTyped
    BY DEF TypeOK, QueuesTyped
  <2>2. QueuesTyped'
    BY <1>5, <2>1, ReinitFacts, EnqueueTyped DEF Reinit
  <2>3. ledger' \in Ledgers
    BY <1>5 DEF Reinit, Ledgers, Gap
  <2>. QED  BY <1>5, <2>2, <2>3 DEF Reinit, TypeOK, QueuesTyped, Ledgers
<1>6. ASSUME NEW force \in ForceRedraw, FrameStart(force) PROVE TypeOK'
  BY <1>6, CallbackAssumption DEF FrameStart, TypeOK, Phase, queues
<1>7. CASE NothingToDraw
  BY <1>7 DEF NothingToDraw, TypeOK, Phase, window, queues
<1>8. CASE DrawWindow
  <2>1. ledger' \in Ledgers
    BY <1>8, PaintFacts, TreeAssumption DEF DrawWindow, TypeOK, Ledgers
  <2>2. <<>> \in Seq(Call) /\ Win \in Surface
    BY EmptySeq, TreeAssumption
  <2>. QED  BY <1>8, <2>1, <2>2, OpenSurfaceTyped
            DEF DrawWindow, TypeOK, Phase, Ledgers, window
<1>9. ASSUME NEW e \in Elem, DrawElem(e) PROVE TypeOK'
  <2>1. Paint(ledger, e) \in Ledgers
    BY PaintFacts DEF TypeOK, Ledgers
  <2>2. Requested
    BY <1>9, <2>1, MarkDirtyTyped, SurfaceInvalidateTyped, NoRequestTyped, CallbackAssumption
       DEF DrawElem
  <2>3. stack' \in Seq(Call)
    BY <1>9, DrawnTyped DEF DrawElem
  <2>. QED  BY <1>9, <2>2, <2>3 DEF DrawElem, TypeOK, Requested, QueuesTyped, Ledgers, window
<1>10. ASSUME NEW e \in Elem, DrawSurface(e) PROVE TypeOK'
  <2>1. ledger' \in Ledgers
    BY <1>10, PaintFacts DEF DrawSurface, TypeOK, Ledgers
  <2>2. Drawn(e) \in Seq(Call) /\ e \in Surface
    BY <1>10, DrawnTyped DEF DrawSurface
  <2>. QED  BY <1>10, <2>1, <2>2, OpenSurfaceTyped DEF DrawSurface, TypeOK, Ledgers, window
<1>11. CASE PopQueue
  <2>. DEFINE call == Head(stack)
              s    == call.surf
              h    == Head(render_queue[s])
  <2>1. call \in Call /\ s \in Surface
    BY <1>11, HeadTyped DEF PopQueue
  <2>2. render_queue[s] \in Seq(Elem) /\ render_queue[s] # <<>>
    BY <1>11, <2>1 DEF PopQueue, TypeOK
  <2>3. /\ Tail(render_queue[s]) \in Seq(Elem)
        /\ ToSet(Tail(render_queue[s])) \subseteq ToSet(render_queue[s])
    BY <2>2, TailFacts
  <2>4. [call EXCEPT !.todo = Below(h)] \in Call
    BY <2>1 DEF Call, Below, Inside
  <2>5. /\ stack # <<>>
        /\ stack' = <<[call EXCEPT !.todo = Below(h)]>> \o Tail(stack)
        /\ render_queue' = [render_queue EXCEPT ![s] = Tail(@)]
        /\ render_entry' = render_entry \ {h}
    BY <1>11 DEF PopQueue
  <2>6. stack' \in Seq(Call)
    BY <2>4, <2>5, ReplaceFacts DEF TypeOK
  <2>. HIDE DEF call, s, h
  <2>7. /\ render_queue' \in [Surface -> Seq(Elem)]
        /\ \A t \in Surface : ToSet(render_queue'[t]) \subseteq ToSet(render_queue[t])
    BY <2>1, <2>3, <2>5 DEF TypeOK
  <2>. QED  BY <1>11, <2>5, <2>6, <2>7 DEF PopQueue, TypeOK, window
<1>12. CASE CloseSurface
  <2>. DEFINE call == Head(stack)
              s    == call.surf
  <2>1. s \in Surface /\ stack' \in Seq(Call)
    BY <1>12, HeadTyped DEF CloseSurface
  <2>2. /\ surface_state' \in [Surface -> {"VALID", "INVALID"}]
        /\ in_redraw' = [in_redraw EXCEPT ![s] = FALSE]
        /\ render_queue' = [render_queue EXCEPT ![s] = @ \o next_queue[s]]
        /\ next_queue' = [next_queue EXCEPT ![s] = <<>>]
    BY <1>12 DEF CloseSurface, TypeOK
  <2>. HIDE DEF s
  <2>3. /\ render_queue[s] \o next_queue[s] \in Seq(Elem)
        /\ ToSet(render_queue[s] \o next_queue[s]) = ToSet(render_queue[s]) \cup ToSet(next_queue[s])
    BY <2>1, ConcatFacts DEF TypeOK
  <2>4. <<>> \in Seq(Elem)
    BY EmptySeq
  <2>5. /\ render_queue' \in [Surface -> Seq(Elem)]
        /\ next_queue' \in [Surface -> Seq(Elem)]
        /\ in_redraw' \in [Surface -> BOOLEAN]
        /\ \A t \in Surface : ToSet(render_queue'[t]) \cup ToSet(next_queue'[t]) \subseteq Inside(t)
    BY <2>1, <2>2, <2>3, <2>4, EmptyFacts DEF TypeOK
  <2>. QED  BY <1>12, <2>1, <2>2, <2>5 DEF CloseSurface, TypeOK, window
<1>13. CASE FrameEnd
  BY <1>13 DEF FrameEnd, TypeOK, Phase, window, queues
<1>14. CASE DrawOverlay
  <2>1. ledger' \in Ledgers
    BY <1>14, PaintFacts, TreeAssumption DEF DrawOverlay, TypeOK, Ledgers
  <2>2. <<>> \in Seq(Call) /\ Overlay \in Surface
    BY EmptySeq, TreeAssumption
  <2>. QED  BY <1>14, <2>1, <2>2, OpenSurfaceTyped
            DEF DrawOverlay, TypeOK, Phase, Ledgers, window
<1>15. CASE Finish
  BY <1>15 DEF Finish, TypeOK, Phase, window, queues
<1>16. CASE UNCHANGED vars
  BY <1>16 DEF vars, window, queues, TypeOK
<1>. QED
  BY <1>1, <1>2, <1>3, <1>4, <1>5, <1>6, <1>7, <1>8, <1>9, <1>10, <1>11, <1>12, <1>13,
     <1>14, <1>15, <1>16 DEF Next, FrameStep, DrawStep

\* Whatever the tree and whatever the draw callbacks ask for, the variables
\* keep their types and mark_dirty only ever inserts an element into a queue
\* of the surface it is drawn on.
THEOREM TypeCorrect == Spec => []TypeOK
<1>1. Init => TypeOK
  BY InitTyped
<1>2. TypeOK /\ [Next]_vars => TypeOK'
  BY NextTyped
<1>. QED  BY <1>1, <1>2, PTL DEF Spec

-------------------------------------------------------------------------------
(***************************************************************************)
(* Redraws in progress                                                     *)
(***************************************************************************)

\* RedrawBracketed is not inductive alone: that a surface is never opened
\* twice follows from the calls being nested the way the surfaces are.
StackNested ==
  /\ \A i \in DOMAIN stack : stack[i].todo \subseteq Inside(stack[i].surf)
  /\ \A i, j \in DOMAIN stack : i < j => stack[j].surf \in Above[stack[i].surf]

RedrawInv == TypeOK /\ RedrawBracketed /\ StackNested

\* Calls q are those of the stack, but for what is left to draw.
SameCalls(q) ==
  /\ DOMAIN q = DOMAIN stack
  /\ \A i \in DOMAIN stack : /\ q[i].surf = stack[i].surf
                             /\ q[i].full = stack[i].full
                             /\ q[i].todo \subseteq Inside(stack[i].surf)

LEMMA CallsTyped ==
  ASSUME TypeOK
  PROVE  \A i \in DOMAIN stack : stack[i] \in Call /\ stack[i].surf \in Surface
<1>1. stack \in Seq(Call) /\ DOMAIN stack = 1..Len(stack)
  BY LenProperties DEF TypeOK
<1>2. \A i \in DOMAIN stack : stack[i] \in Call
  BY <1>1, ElementOfSeq
<1>. QED  BY <1>2 DEF Call

LEMMA SameStack ==
  ASSUME RedrawInv
  PROVE  SameCalls(stack)
BY DEF RedrawInv, StackNested, SameCalls

LEMMA KeepBracketed ==
  ASSUME RedrawInv, SameCalls(stack'), in_redraw' = in_redraw,
         \A s \in Surface : ~in_redraw[s] => next_queue'[s] = <<>>,
         \A i \in DOMAIN stack : stack[i].full => render_queue'[stack[i].surf] = <<>>,
         pc' \notin {"window", "overlay"} => stack' = <<>>
  PROVE  (RedrawBracketed /\ StackNested)'
<1>1. RedrawBracketed'
  BY DEF RedrawInv, RedrawBracketed, SameCalls
<1>2. StackNested'
  BY DEF RedrawInv, StackNested, SameCalls
<1>. QED  BY <1>1, <1>2

\* Requests respect in_redraw.
LEMMA EnqueueBracketed ==
  ASSUME RedrawInv, NEW T \in SUBSET (Elem \ Roots), Enqueue(T)
  PROVE  /\ \A s \in Surface : ~in_redraw[s] => next_queue'[s] = <<>>
         /\ \A i \in DOMAIN stack : stack[i].full => render_queue'[stack[i].surf] = <<>>
<1>1. \A s \in Surface : /\ in_redraw[s] => render_queue'[s] = render_queue[s]
                         /\ ~in_redraw[s] => next_queue'[s] = next_queue[s]
  BY EnqueueFacts DEF RedrawInv, TypeOK
<1>2. \A i \in DOMAIN stack : stack[i].surf \in Surface
  BY CallsTyped DEF RedrawInv
<1>3. \A i \in DOMAIN stack : in_redraw[stack[i].surf]
  BY <1>2 DEF RedrawInv, RedrawBracketed
<1>. QED  BY <1>1, <1>2, <1>3 DEF RedrawInv, RedrawBracketed

\* A surface above which every open call lies can be opened.
LEMMA OpenBracketed ==
  ASSUME RedrawInv, NEW s \in Surface, NEW below \in Seq(Call), SameCalls(below),
         \A i \in DOMAIN stack : stack[i].surf \in Above[s],
         OpenSurface(s, below), next_queue' = next_queue, pc' \in {"window", "overlay"}
  PROVE  (RedrawBracketed /\ StackNested)'
<1>1. CASE ~IsDirty(s)
  <2>1. stack' = below /\ UNCHANGED <<render_queue, in_redraw>>
    BY <1>1 DEF OpenSurface
  <2>. QED  BY <2>1, KeepBracketed DEF RedrawInv, RedrawBracketed
<1>2. CASE IsDirty(s)
  <2>. DEFINE full == surface_state[s] = "INVALID"
              call == [surf |-> s, full |-> full, todo |-> IF full THEN Inside(s) ELSE {}]
  <2>1. call \in Call
    BY InsideFacts DEF Call
  <2>2. /\ stack' = <<call>> \o below
        /\ in_redraw' = [in_redraw EXCEPT ![s] = TRUE]
        /\ full => render_queue' = [render_queue EXCEPT ![s] = <<>>]
        /\ ~full => render_queue' = render_queue
    BY <1>2 DEF OpenSurface
  <2>3. call.surf = s /\ call.full = full /\ call.todo \subseteq Inside(s)
    OBVIOUS
  <2>. HIDE DEF call, full
  <2>4. /\ stack'[1] = call /\ 1 \in DOMAIN stack'
        /\ Len(below) \in Nat /\ DOMAIN below = 1..Len(below)
        /\ DOMAIN stack' = 1..(Len(below) + 1)
        /\ \A i \in DOMAIN stack' : i = 1 \/ (i - 1 \in DOMAIN below /\ stack'[i] = below[i - 1])
        /\ \A i \in DOMAIN below : i + 1 \in DOMAIN stack' /\ stack'[i + 1] = below[i]
    BY <2>1, <2>2, PushFacts
  <2>5. \A i \in DOMAIN stack' :
          \/ i = 1 /\ stack'[i].surf = s /\ stack'[i].full = full /\ stack'[i].todo \subseteq Inside(s)
          \/ /\ i # 1 /\ i - 1 \in DOMAIN stack
             /\ stack'[i].surf = stack[i - 1].surf
             /\ stack'[i].full = stack[i - 1].full
             /\ stack'[i].todo \subseteq Inside(stack[i - 1].surf)
    BY <2>3, <2>4 DEF SameCalls
  <2>6. \A i \in DOMAIN stack : stack[i].surf # s
    BY TreeAssumption DEF Roots
  <2>7. \A t \in Surface : (\E i \in DOMAIN stack' : stack'[i].surf = t)
                             <=> t = s \/ \E i \in DOMAIN stack : stack[i].surf = t
    <3>1. \A i \in DOMAIN stack : i + 1 \in DOMAIN stack' /\ stack'[i + 1].surf = stack[i].surf
      BY <2>4 DEF SameCalls
    <3>. QED  BY <2>3, <2>4, <2>5, <3>1
  <2>8. /\ in_redraw'[s] = TRUE
        /\ \A t \in Surface : t # s => in_redraw'[t] = in_redraw[t]
    BY <2>2 DEF RedrawInv, TypeOK
  <2>9. \A i, j \in DOMAIN stack' : stack'[i].surf = stack'[j].surf => i = j
    <3>1. SUFFICES ASSUME NEW i \in DOMAIN stack', NEW j \in DOMAIN stack',
                          stack'[i].surf = stack'[j].surf
                   PROVE  i = j
      OBVIOUS
    <3>2. CASE i = 1 \/ j = 1
      BY <2>5, <2>6, <3>1, <3>2
    <3>3. CASE i # 1 /\ j # 1
      <4>1. /\ i - 1 \in DOMAIN stack /\ j - 1 \in DOMAIN stack
            /\ stack[i - 1].surf = stack[j - 1].surf
        BY <2>5, <3>1, <3>3
      <4>2. i - 1 = j - 1
        BY <4>1 DEF RedrawInv, RedrawBracketed
      <4>. QED  BY <2>4, <4>2
    <3>. QED  BY <3>2, <3>3
  <2>10. \A t \in Surface : in_redraw'[t] <=> \E i \in DOMAIN stack' : stack'[i].surf = t
    BY <2>7, <2>8 DEF RedrawInv, RedrawBracketed
  <2>11. \A t \in Surface : ~in_redraw'[t] => next_queue'[t] = <<>>
    BY <2>8 DEF RedrawInv, RedrawBracketed
  <2>12. \A i \in DOMAIN stack' : stack'[i].full => render_queue'[stack'[i].surf] = <<>>
    <3>1. \A i \in DOMAIN stack : stack[i].full => render_queue'[stack[i].surf] = <<>>
      BY <2>2, <2>6, CallsTyped DEF RedrawInv, RedrawBracketed, TypeOK
    <3>2. full => render_queue'[s] = <<>>
      BY <2>2 DEF RedrawInv, TypeOK
    <3>. QED  BY <2>5, <3>1, <3>2
  <2>13. RedrawBracketed'
    BY <2>9, <2>10, <2>11, <2>12 DEF RedrawBracketed
  <2>14. StackNested'
    <3>1. \A i \in DOMAIN stack' : stack'[i].todo \subseteq Inside(stack'[i].surf)
      BY <2>5
    <3>2. ASSUME NEW i \in DOMAIN stack', NEW j \in DOMAIN stack', i < j
          PROVE  stack'[j].surf \in Above[stack'[i].surf]
      <4>1. j # 1 /\ j - 1 \in DOMAIN stack /\ stack'[j].surf = stack[j - 1].surf
        BY <2>4, <2>5, <3>2
      <4>2. CASE i = 1
        BY <2>5, <4>1, <4>2
      <4>3. CASE i # 1
        <5>1. i - 1 \in DOMAIN stack /\ stack'[i].surf = stack[i - 1].surf /\ i - 1 < j - 1
          BY <2>4, <2>5, <3>2, <4>3
        <5>. QED  BY <4>1, <5>1 DEF RedrawInv, StackNested
      <4>. QED  BY <4>2, <4>3
    <3>. QED  BY <3>1, <3>2 DEF StackNested
  <2>. QED  BY <2>13, <2>14
<1>. QED  BY <1>1, <1>2

\* The surface of the innermost call is above whatever that call draws.
LEMMA TurnFacts ==
  ASSUME RedrawInv, NEW e \in Elem, Turn(e)
  PROVE  /\ e \notin Roots /\ stack # <<>>
         /\ \A i \in DOMAIN stack : stack[i].surf \in Above[e]
         /\ SameCalls(Drawn(e))
         /\ pc \in {"window", "overlay"}
<1>1. /\ stack \in Seq(Call) /\ stack # <<>> /\ Head(stack) = stack[1]
      /\ Head(stack) \in Call /\ 1 \in DOMAIN stack /\ DOMAIN stack = 1..Len(stack)
      /\ Len(stack) \in Nat
  BY PopFacts DEF Turn, RedrawInv, TypeOK
<1>2. e \in Inside(stack[1].surf)
  BY <1>1 DEF Turn, RedrawInv, StackNested
<1>3. e \in Elem \ Roots /\ SurfaceOf[e] = stack[1].surf
  BY <1>2 DEF Inside
<1>4. stack[1].surf \in Above[e] /\ stack[1].surf \in Surface
  BY <1>3, SurfaceFacts
<1>5. \A i \in DOMAIN stack : stack[i].surf \in Above[e]
  <2>1. \A i \in DOMAIN stack : i = 1 \/ 1 < i
    BY <1>1
  <2>2. \A i \in DOMAIN stack : i = 1 \/ stack[i].surf \in Above[stack[1].surf]
    BY <1>1, <2>1 DEF RedrawInv, StackNested
  <2>3. Above[stack[1].surf] \subseteq Above[e]
    BY <1>4, TreeAssumption
  <2>. QED  BY <1>4, <2>2, <2>3
<1>6. SameCalls(Drawn(e))
  <2>. DEFINE c == [Head(stack) EXCEPT !.todo = @ \ {e}]
              q == Drawn(e)
  <2>1. /\ c \in Call /\ c.surf = stack[1].surf /\ c.full = stack[1].full
        /\ c.todo \subseteq stack[1].todo
    BY <1>1 DEF Call
  <2>2. q = <<c>> \o Tail(stack)
    BY DEF Drawn
  <2>. HIDE DEF c, q
  <2>3. DOMAIN q = DOMAIN stack /\ q[1] = c /\ \A i \in DOMAIN stack : i # 1 => q[i] = stack[i]
    BY <1>1, <2>1, <2>2, ReplaceFacts
  <2>4. SameCalls(q)
    BY <1>1, <2>1, <2>3 DEF SameCalls, RedrawInv, StackNested
  <2>. QED  BY <2>4 DEF q
<1>7. pc \in {"window", "overlay"}
  BY <1>1 DEF RedrawInv, RedrawBracketed
<1>. QED  BY <1>1, <1>3, <1>5, <1>6, <1>7

\* Steps that touch neither the calls nor in_redraw nor the queues.
LEMMA QuietBracketed ==
  ASSUME RedrawInv, UNCHANGED <<in_redraw, stack, render_queue, next_queue>>,
         pc' \notin {"window", "overlay"} => stack = <<>>
  PROVE  (RedrawBracketed /\ StackNested)'
BY SameStack, KeepBracketed DEF RedrawInv, RedrawBracketed

LEMMA RequestBracketed ==
  ASSUME RedrawInv, NEW T \in SUBSET (Elem \ Roots), Enqueue(T),
         UNCHANGED in_redraw, SameCalls(stack'),
         pc' \notin {"window", "overlay"} => stack' = <<>>
  PROVE  (RedrawBracketed /\ StackNested)'
BY EnqueueBracketed, KeepBracketed

LEMMA InitBracketed == Init => RedrawBracketed /\ StackNested
<1>1. DOMAIN <<>> = {}
  OBVIOUS
<1>. QED  BY <1>1 DEF Init, RedrawBracketed, StackNested

LEMMA NextBracketed == RedrawInv /\ [Next]_vars => RedrawInv'
<1>. SUFFICES ASSUME RedrawInv, [Next]_vars PROVE (RedrawBracketed /\ StackNested)'
  BY NextTyped DEF RedrawInv
<1>0. SameCalls(stack) /\ (pc \notin {"window", "overlay"} => stack = <<>>)
  BY SameStack DEF RedrawInv, RedrawBracketed
<1>1. ASSUME NEW e \in Elem, AppMark(e) PROVE (RedrawBracketed /\ StackNested)'
  BY <1>0, <1>1, MarksFacts, RequestBracketed DEF AppMark, MarkDirty
<1>2. ASSUME NEW s \in Surface, AppInvalidate(s) PROVE (RedrawBracketed /\ StackNested)'
  BY <1>0, <1>2, MarksFacts, RequestBracketed, TreeAssumption DEF AppInvalidate, SurfaceInvalidate
<1>3. CASE Expose
  BY <1>0, <1>3, QuietBracketed DEF Expose, queues
<1>4. CASE VisibilityNotify
  BY <1>0, <1>4, QuietBracketed DEF VisibilityNotify, queues
<1>5. CASE Reinit
  BY <1>0, <1>5, ReinitFacts, RequestBracketed DEF Reinit
<1>6. ASSUME NEW force \in ForceRedraw, FrameStart(force) PROVE (RedrawBracketed /\ StackNested)'
  BY <1>0, <1>6, QuietBracketed DEF FrameStart, queues
<1>7. CASE NothingToDraw
  BY <1>0, <1>7, QuietBracketed DEF NothingToDraw, queues
<1>8. CASE DrawWindow
  <2>1. stack = <<>> /\ Win \in Surface /\ DOMAIN stack = {}
    BY <1>0, <1>8, TreeAssumption DEF DrawWindow
  <2>2. stack \in Seq(Call) /\ OpenSurface(Win, stack) /\ next_queue' = next_queue
        /\ pc' \in {"window", "overlay"}
    BY <1>8, <2>1, EmptySeq DEF DrawWindow
  <2>. QED  BY <1>0, <2>1, <2>2, OpenBracketed
<1>9. ASSUME NEW e \in Elem, DrawElem(e) PROVE (RedrawBracketed /\ StackNested)'
  <2>1. /\ SameCalls(stack') /\ in_redraw' = in_redraw
        /\ pc' = pc /\ pc \in {"window", "overlay"}
    BY <1>9, TurnFacts DEF DrawElem
  <2>2. CASE NoRequest(Paint(ledger, e))
    BY <2>1, <2>2, KeepBracketed DEF NoRequest, queues, RedrawInv, RedrawBracketed
  <2>3. ASSUME NEW m \in DrawMarks, MarkDirty(m, Paint(ledger, e))
        PROVE  (RedrawBracketed /\ StackNested)'
    BY <2>1, <2>3, MarksFacts, RequestBracketed, CallbackAssumption DEF MarkDirty
  <2>4. ASSUME NEW s \in DrawInvalidates, SurfaceInvalidate(s, Paint(ledger, e))
        PROVE  (RedrawBracketed /\ StackNested)'
    BY <2>1, <2>4, MarksFacts, RequestBracketed, CallbackAssumption, TreeAssumption
       DEF SurfaceInvalidate
  <2>. QED  BY <1>9, <2>2, <2>3, <2>4 DEF DrawElem
<1>10. ASSUME NEW e \in Elem, DrawSurface(e) PROVE (RedrawBracketed /\ StackNested)'
  <2>1. /\ e \in Surface /\ Turn(e) /\ OpenSurface(e, Drawn(e))
        /\ next_queue' = next_queue /\ pc' = pc
    BY <1>10 DEF DrawSurface
  <2>2. Drawn(e) \in Seq(Call)
    BY <2>1, DrawnTyped DEF RedrawInv
  <2>. QED  BY <2>1, <2>2, TurnFacts, OpenBracketed
<1>11. CASE PopQueue
  <2>. DEFINE call == Head(stack)
              s    == call.surf
              h    == Head(render_queue[s])
              new  == [call EXCEPT !.todo = Below(h)]
  <2>1. /\ stack # <<>> /\ ~call.full /\ render_queue[s] # <<>>
        /\ stack' = <<new>> \o Tail(stack)
        /\ render_queue' = [render_queue EXCEPT ![s] = Tail(@)]
        /\ next_queue' = next_queue /\ in_redraw' = in_redraw /\ pc' = pc
    BY <1>11 DEF PopQueue
  <2>2. /\ stack \in Seq(Call) /\ call \in Call /\ s \in Surface
        /\ call = stack[1] /\ 1 \in DOMAIN stack
    BY <2>1, HeadTyped, PopFacts DEF RedrawInv, TypeOK
  <2>3. h \in Inside(s)
    <3>1. render_queue[s] \in Seq(Elem) /\ ToSet(render_queue[s]) \subseteq Inside(s)
      BY <2>2 DEF RedrawInv, TypeOK
    <3>. QED  BY <2>1, <3>1, TailFacts
  <2>4. Below(h) \subseteq Inside(s)
    BY <2>3 DEF Below, Inside
  <2>5. new \in Call /\ new.surf = s /\ new.full = call.full /\ new.todo = Below(h)
    BY <2>2, <2>4, InsideFacts DEF Call
  <2>. HIDE DEF new
  <2>6. /\ DOMAIN stack' = DOMAIN stack /\ stack'[1] = new
        /\ \A i \in DOMAIN stack : i # 1 => stack'[i] = stack[i]
    BY <2>1, <2>2, <2>5, ReplaceFacts
  <2>7. SameCalls(stack')
    BY <1>0, <2>2, <2>4, <2>5, <2>6 DEF SameCalls
  <2>8. \A i \in DOMAIN stack : stack[i].full => render_queue'[stack[i].surf] = <<>>
    <3>1. \A i \in DOMAIN stack : stack[i].full => stack[i].surf # s
      BY <2>1, <2>2 DEF RedrawInv, RedrawBracketed
    <3>. QED  BY <2>1, <3>1, CallsTyped DEF RedrawInv, RedrawBracketed, TypeOK
  <2>. QED  BY <1>0, <2>1, <2>7, <2>8, KeepBracketed DEF RedrawInv, RedrawBracketed
<1>12. CASE CloseSurface
  <2>. DEFINE s == Head(stack).surf
  <2>1. /\ stack # <<>> /\ stack' = Tail(stack) /\ pc' = pc
        /\ in_redraw' = [in_redraw EXCEPT ![s] = FALSE]
        /\ render_queue' = [render_queue EXCEPT ![s] = @ \o next_queue[s]]
        /\ next_queue' = [next_queue EXCEPT ![s] = <<>>]
    BY <1>12 DEF CloseSurface
  <2>2. /\ s \in Surface /\ s = stack[1].surf /\ 1 \in DOMAIN stack
        /\ \A i \in DOMAIN stack' : i \in Nat /\ i + 1 \in DOMAIN stack /\ stack'[i] = stack[i + 1]
        /\ \A i \in DOMAIN stack :
             i = 1 \/ (i - 1 \in DOMAIN stack' /\ stack[i] = stack'[i - 1])
    BY <2>1, HeadTyped, PopFacts DEF RedrawInv, TypeOK
  <2>. HIDE DEF s
  <2>3. \A i \in DOMAIN stack' : stack'[i].surf # s /\ stack'[i].surf \in Surface
    <3>1. ASSUME NEW i \in DOMAIN stack', stack'[i].surf = s
          PROVE  FALSE
      <4>1. stack[i + 1].surf = stack[1].surf /\ i + 1 \in DOMAIN stack /\ i \in Nat
        BY <2>2, <3>1
      <4>2. i + 1 = 1
        BY <2>2, <4>1 DEF RedrawInv, RedrawBracketed
      <4>3. i + 1 \in 1..Len(stack) /\ i \in DOMAIN Tail(stack)
        BY <2>1, <3>1, <4>1, LenProperties DEF RedrawInv, TypeOK
      <4>4. i \in 1..Len(Tail(stack))
        BY <2>1, <4>3, HeadTyped, LenProperties DEF RedrawInv
      <4>. QED  BY <4>1, <4>2, <4>4
    <3>. QED  BY <2>2, <3>1, CallsTyped DEF RedrawInv
  <2>4. \A t \in Surface : t # s =>
          ((\E i \in DOMAIN stack : stack[i].surf = t)
             <=> \E i \in DOMAIN stack' : stack'[i].surf = t)
    BY <2>2
  <2>5. /\ in_redraw'[s] = FALSE /\ next_queue'[s] = <<>>
        /\ \A t \in Surface : t # s => /\ in_redraw'[t] = in_redraw[t]
                                       /\ next_queue'[t] = next_queue[t]
                                       /\ render_queue'[t] = render_queue[t]
    BY <2>1, <2>2 DEF RedrawInv, TypeOK
  <2>6. \A i, j \in DOMAIN stack' : stack'[i].surf = stack'[j].surf => i = j
    <3>1. SUFFICES ASSUME NEW i \in DOMAIN stack', NEW j \in DOMAIN stack',
                          stack'[i].surf = stack'[j].surf
                   PROVE  i = j
      OBVIOUS
    <3>2. i + 1 = j + 1
      BY <2>2, <3>1 DEF RedrawInv, RedrawBracketed
    <3>. QED  BY <2>2, <3>2
  <2>7. \A t \in Surface : in_redraw'[t] <=> \E i \in DOMAIN stack' : stack'[i].surf = t
    BY <2>3, <2>4, <2>5 DEF RedrawInv, RedrawBracketed
  <2>8. \A t \in Surface : ~in_redraw'[t] => next_queue'[t] = <<>>
    BY <2>5 DEF RedrawInv, RedrawBracketed
  <2>9. \A i \in DOMAIN stack' : stack'[i].full => render_queue'[stack'[i].surf] = <<>>
    BY <2>2, <2>3, <2>5 DEF RedrawInv, RedrawBracketed
  <2>10. pc' \in {"window", "overlay"}
    BY <1>0, <2>1
  <2>11. RedrawBracketed'
    BY <2>6, <2>7, <2>8, <2>9, <2>10 DEF RedrawBracketed
  <2>12. StackNested'
    BY <2>2 DEF RedrawInv, StackNested
  <2>. QED  BY <2>11, <2>12
<1>13. CASE FrameEnd
  BY <1>0, <1>13, QuietBracketed DEF FrameEnd, queues
<1>14. CASE DrawOverlay
  <2>1. stack = <<>> /\ Overlay \in Surface /\ DOMAIN stack = {}
    BY <1>0, <1>14, TreeAssumption DEF DrawOverlay
  <2>2. stack \in Seq(Call) /\ OpenSurface(Overlay, stack) /\ next_queue' = next_queue
        /\ pc' \in {"window", "overlay"}
    BY <1>14, <2>1, EmptySeq DEF DrawOverlay
  <2>. QED  BY <1>0, <2>1, <2>2, OpenBracketed
<1>15. CASE Finish
  BY <1>0, <1>15, QuietBracketed DEF Finish, queues
<1>16. CASE UNCHANGED vars
  BY <1>0, <1>16, QuietBracketed DEF vars, queues
<1>. QED
  BY <1>1, <1>2, <1>3, <1>4, <1>5, <1>6, <1>7, <1>8, <1>9, <1>10, <1>11, <1>12, <1>13,
     <1>14, <1>15, <1>16 DEF Next, FrameStep, DrawStep

\* A surface's in_redraw flag brackets its rtb_surface_draw_children call,
\* which is never entered again for a surface being drawn: no request is put
\* off to a next frame that never comes, whatever the nesting of surfaces.
THEOREM RedrawIsBracketed == Spec => []RedrawBracketed
<1>1. Init => RedrawInv
  BY InitTyped, InitBracketed DEF RedrawInv
<1>2. RedrawInv /\ [Next]_vars => RedrawInv'
  BY NextBracketed
<1>3. RedrawInv => RedrawBracketed
  BY DEF RedrawInv
<1>. QED  BY <1>1, <1>2, <1>3, PTL DEF Spec

-------------------------------------------------------------------------------
(***************************************************************************)
(* The queues                                                              *)
(***************************************************************************)

\* An element is drawn straight on one surface only.
LEMMA InsideOnce ==
  ASSUME NEW s \in Surface, NEW t \in Surface, NEW e \in Inside(s), e \in Inside(t)
  PROVE  s = t
BY DEF Inside

LEMMA EnqueueSound ==
  ASSUME TypeOK, QueuesSound, NEW T \in SUBSET (Elem \ Roots), Enqueue(T),
         T \cap render_entry = {}
  PROVE  QueuesSound'
<1>1. render_entry' = render_entry \cup T
  BY EnqueueFacts DEF TypeOK
<1>2. ASSUME NEW s \in Surface
      PROVE  /\ IsInjective(render_queue'[s]) /\ IsInjective(next_queue'[s])
             /\ ToSet(render_queue'[s]) \cap ToSet(next_queue'[s]) = {}
             /\ ToSet(render_queue'[s]) \cup ToSet(next_queue'[s]) = render_entry' \cap Inside(s)
  <2>. DEFINE new == T \cap Inside(s)
  <2>1. /\ IsInjective(render_queue[s]) /\ IsInjective(next_queue[s])
        /\ ToSet(render_queue[s]) \cap ToSet(next_queue[s]) = {}
        /\ ToSet(render_queue[s]) \cup ToSet(next_queue[s]) = render_entry \cap Inside(s)
        /\ ToSet(render_queue[s]) \cap new = {} /\ ToSet(next_queue[s]) \cap new = {}
    BY DEF QueuesSound
  <2>2. \/ /\ render_queue'[s] = render_queue[s] /\ IsInjective(next_queue'[s])
           /\ ToSet(next_queue'[s]) = ToSet(next_queue[s]) \cup new
        \/ /\ next_queue'[s] = next_queue[s] /\ IsInjective(render_queue'[s])
           /\ ToSet(render_queue'[s]) = ToSet(render_queue[s]) \cup new
    BY <2>1, EnqueueFacts DEF TypeOK
  <2>. QED  BY <1>1, <2>1, <2>2
<1>. QED  BY <1>2 DEF QueuesSound

LEMMA OpenSound ==
  ASSUME RedrawInv, QueuesSound, NEW s \in Surface, NEW below,
         \A i \in DOMAIN stack : stack[i].surf # s,
         OpenSurface(s, below), next_queue' = next_queue
  PROVE  QueuesSound'
<1>1. CASE UNCHANGED <<render_queue, render_entry>>
  BY <1>1 DEF QueuesSound
<1>2. CASE /\ render_queue' = [render_queue EXCEPT ![s] = <<>>]
           /\ render_entry' = render_entry \ ToSet(render_queue[s])
  <2>1. next_queue[s] = <<>>
    BY DEF RedrawInv, RedrawBracketed
  <2>2. ToSet(render_queue[s]) = render_entry \cap Inside(s)
    BY <2>1, EmptyFacts DEF QueuesSound
  <2>3. render_queue'[s] = <<>> /\ \A t \in Surface : t # s => render_queue'[t] = render_queue[t]
    BY <1>2 DEF RedrawInv, TypeOK
  <2>4. render_entry' \cap Inside(s) = {}
    BY <1>2, <2>2
  <2>5. \A t \in Surface : t # s => render_entry' \cap Inside(t) = render_entry \cap Inside(t)
    BY <1>2, <2>2, InsideOnce
  <2>. QED  BY <2>1, <2>3, <2>4, <2>5, EmptyFacts DEF QueuesSound
<1>. QED  BY <1>1, <1>2 DEF OpenSurface

LEMMA InitSound == Init => QueuesSound
BY EmptyFacts DEF Init, QueuesSound

LEMMA NextSound == RedrawInv /\ QueuesSound /\ [Next]_vars => QueuesSound'
<1>. SUFFICES ASSUME RedrawInv, QueuesSound, [Next]_vars PROVE QueuesSound'
  OBVIOUS
<1>0. TypeOK
  BY DEF RedrawInv
<1>1. ASSUME NEW e \in Elem, AppMark(e) PROVE QueuesSound'
  BY <1>0, <1>1, MarksFacts, EnqueueSound DEF AppMark, MarkDirty
<1>2. ASSUME NEW s \in Surface, AppInvalidate(s) PROVE QueuesSound'
  BY <1>0, <1>2, MarksFacts, EnqueueSound, TreeAssumption DEF AppInvalidate, SurfaceInvalidate
<1>3. CASE Reinit
  BY <1>0, <1>3, ReinitFacts, EnqueueSound DEF Reinit
<1>4. CASE UNCHANGED queues
  BY <1>4 DEF queues, QueuesSound
<1>5. CASE DrawWindow
  <2>1. stack = <<>> /\ DOMAIN stack = {} /\ Win \in Surface
    BY <1>5, TreeAssumption DEF DrawWindow, RedrawInv, RedrawBracketed
  <2>. QED  BY <1>5, <2>1, OpenSound DEF DrawWindow
<1>6. CASE DrawOverlay
  <2>1. stack = <<>> /\ DOMAIN stack = {} /\ Overlay \in Surface
    BY <1>6, TreeAssumption DEF DrawOverlay, RedrawInv, RedrawBracketed
  <2>. QED  BY <1>6, <2>1, OpenSound DEF DrawOverlay
<1>7. ASSUME NEW e \in Elem, DrawElem(e) PROVE QueuesSound'
  <2>1. CASE NoRequest(Paint(ledger, e))
    BY <1>4, <2>1 DEF NoRequest
  <2>2. ASSUME NEW m \in DrawMarks, MarkDirty(m, Paint(ledger, e)) PROVE QueuesSound'
    BY <1>0, <2>2, MarksFacts, EnqueueSound, CallbackAssumption DEF MarkDirty
  <2>3. ASSUME NEW s \in DrawInvalidates, SurfaceInvalidate(s, Paint(ledger, e))
        PROVE  QueuesSound'
    BY <1>0, <2>3, MarksFacts, EnqueueSound, CallbackAssumption, TreeAssumption
       DEF SurfaceInvalidate
  <2>. QED  BY <1>7, <2>1, <2>2, <2>3 DEF DrawElem
<1>8. ASSUME NEW e \in Elem, DrawSurface(e) PROVE QueuesSound'
  <2>1. /\ e \in Surface /\ Turn(e) /\ OpenSurface(e, Drawn(e)) /\ next_queue' = next_queue
    BY <1>8 DEF DrawSurface
  <2>2. \A i \in DOMAIN stack : stack[i].surf # e
    BY <2>1, TurnFacts, TreeAssumption
  <2>. QED  BY <2>1, <2>2, OpenSound
<1>9. CASE PopQueue
  <2>. DEFINE s == Head(stack).surf
              h == Head(render_queue[s])
  <2>1. /\ stack # <<>> /\ render_queue[s] # <<>>
        /\ render_queue' = [render_queue EXCEPT ![s] = Tail(@)]
        /\ next_queue' = next_queue /\ render_entry' = render_entry \ {h}
    BY <1>9 DEF PopQueue
  <2>2. s \in Surface
    BY <1>0, <2>1, HeadTyped
  <2>. HIDE DEF s
  <2>3. /\ h \in ToSet(render_queue[s]) /\ IsInjective(Tail(render_queue[s]))
        /\ ToSet(Tail(render_queue[s])) = ToSet(render_queue[s]) \ {h}
    BY <1>0, <2>1, <2>2, TailFacts DEF TypeOK, QueuesSound
  <2>. HIDE DEF h
  <2>4. /\ render_queue'[s] = Tail(render_queue[s])
        /\ \A t \in Surface : t # s => render_queue'[t] = render_queue[t]
    BY <1>0, <2>1, <2>2 DEF TypeOK
  <2>5. h \in Inside(s) /\ h \notin ToSet(next_queue[s])
    BY <2>2, <2>3 DEF QueuesSound
  <2>6. \A t \in Surface : t # s => render_entry' \cap Inside(t) = render_entry \cap Inside(t)
    BY <2>1, <2>2, <2>5, InsideOnce
  <2>7. /\ ToSet(render_queue'[s]) \cap ToSet(next_queue'[s]) = {}
        /\ ToSet(render_queue'[s]) \cup ToSet(next_queue'[s]) = render_entry' \cap Inside(s)
        /\ IsInjective(render_queue'[s])
    BY <2>1, <2>2, <2>3, <2>4, <2>5 DEF QueuesSound
  <2>. QED  BY <2>1, <2>4, <2>6, <2>7 DEF QueuesSound
<1>10. CASE CloseSurface
  <2>. DEFINE s == Head(stack).surf
  <2>1. /\ stack # <<>>
        /\ render_queue' = [render_queue EXCEPT ![s] = @ \o next_queue[s]]
        /\ next_queue' = [next_queue EXCEPT ![s] = <<>>] /\ render_entry' = render_entry
    BY <1>10 DEF CloseSurface
  <2>2. s \in Surface
    BY <1>0, <2>1, HeadTyped
  <2>. HIDE DEF s
  <2>3. LET q == render_queue[s] \o next_queue[s]
        IN  IsInjective(q) /\ ToSet(q) = ToSet(render_queue[s]) \cup ToSet(next_queue[s])
    BY <1>0, <2>2, ConcatFacts DEF TypeOK, QueuesSound
  <2>4. /\ render_queue'[s] = render_queue[s] \o next_queue[s] /\ next_queue'[s] = <<>>
        /\ \A t \in Surface : t # s => /\ render_queue'[t] = render_queue[t]
                                       /\ next_queue'[t] = next_queue[t]
    BY <1>0, <2>1, <2>2 DEF TypeOK
  <2>. QED  BY <2>1, <2>2, <2>3, <2>4, EmptyFacts DEF QueuesSound
<1>. QED
  BY <1>1, <1>2, <1>3, <1>4, <1>5, <1>6, <1>7, <1>8, <1>9, <1>10
     DEF Next, FrameStep, DrawStep, Expose, VisibilityNotify, FrameStart, NothingToDraw,
         FrameEnd, Finish, vars

\* In every tree and under every interleaving of requests and draw callbacks,
\* mark_dirty's "already marked" test tells the truth: an element is linked
\* exactly when it is in one queue of its own surface, and only once.
THEOREM QueuesStaySound == Spec => []QueuesSound
<1>1. Init => RedrawInv /\ QueuesSound
  BY InitTyped, InitBracketed, InitSound DEF RedrawInv
<1>2. RedrawInv /\ QueuesSound /\ [Next]_vars => (RedrawInv /\ QueuesSound)'
  BY NextBracketed, NextSound
<1>. QED  BY <1>1, <1>2, PTL DEF Spec

-------------------------------------------------------------------------------
(***************************************************************************)
(* The way from an element to its root                                     *)
(***************************************************************************)

LEMMA NatMin ==
  ASSUME NEW T \in SUBSET Nat, T # {}
  PROVE  \E x \in T : \A y \in T : x <= y
<1>. DEFINE R == OpToRel(<, Nat)
<1>1. IsWellFoundedOn(R, Nat)
  BY NatLessThanWellFounded
<1>2. \A x, y \in Nat : x < y => << x, y >> \in R
  BY DEF OpToRel
<1>. HIDE DEF R
<1>3. PICK x \in T : \A y \in T : ~(<< y, x >> \in R)
  BY <1>1, WFMin
<1>4. \A y \in T : x \in Nat /\ y \in Nat /\ ~(y < x)
  BY <1>2, <1>3
<1>5. \A y \in T : x <= y
  BY <1>4
<1>. QED  BY <1>5

\* Of any elements there is one that no other of them is above.
LEMMA Outermost ==
  ASSUME NEW S \in SUBSET Elem, S # {}
  PROVE  \E e \in S : \A a \in S : a \notin Above[e]
<1>. DEFINE C(e) == Cardinality(Above[e])
            N == {C(e) : e \in S}
<1>1. \A e \in Elem : IsFiniteSet(Above[e]) /\ C(e) \in Nat /\ Above[e] \subseteq Elem /\ e \notin Above[e]
  <2>. SUFFICES ASSUME NEW e \in Elem
                PROVE  IsFiniteSet(Above[e]) /\ C(e) \in Nat /\ Above[e] \subseteq Elem /\ e \notin Above[e]
    OBVIOUS
  <2>1. Above[e] \subseteq Elem /\ IsFiniteSet(Elem) /\ e \notin Above[e]
    BY TreeAssumption DEF Roots
  <2>. QED  BY <2>1, FS_Subset, FS_CardinalityType
<1>2. N \in SUBSET Nat /\ N # {}
  BY <1>1
<1>3. PICK n \in N : \A k \in N : n <= k
  <2>. HIDE DEF N
  <2>. QED  BY <1>2, NatMin
<1>4. PICK e \in S : n = C(e)
  BY <1>3
<1>5. ASSUME NEW a \in S, a \in Above[e] PROVE FALSE
  <2>1. Above[a] \subseteq Above[e] /\ a \notin Above[a]
    BY <1>1, <1>5, TreeAssumption
  <2>2. C(a) <= C(e) /\ (C(a) = C(e) => Above[a] = Above[e])
    BY <1>1, <2>1, FS_Subset
  <2>3. C(a) < C(e)
    BY <1>1, <1>5, <2>1, <2>2
  <2>. QED  BY <1>1, <1>3, <1>4, <2>3
<1>. QED  BY <1>5

\* Being above is a strict order, and roots have nothing above them.
LEMMA AboveFacts ==
  /\ \A e \in Elem : Above[e] \subseteq Elem /\ e \notin Above[e]
  /\ \A e \in Elem : \A a \in Above[e] : Above[a] \subseteq Above[e]
  /\ \A r \in Roots : r \in Surface /\ r \in Elem /\ Above[r] = {}
  /\ Surface \subseteq Elem
BY TreeAssumption DEF Roots

\* Two surfaces around an element lie one in the other.
LEMMA Comparable ==
  ASSUME NEW e \in Elem, NEW a \in Above[e] \cap Surface, NEW b \in Above[e] \cap Surface
  PROVE  a = b \/ a \in Above[b] \/ b \in Above[a]
<1>. SUFFICES ASSUME a # b, a \notin Above[b], b \notin Above[a] PROVE FALSE
  OBVIOUS
<1>. DEFINE S == {d \in Elem : a \in Above[d] /\ b \in Above[d]}
<1>1. PICK d \in S : \A x \in S : x \notin Above[d]
  <2>1. S \in SUBSET Elem /\ e \in S
    OBVIOUS
  <2>. QED  BY <2>1, Outermost
<1>2. d \in Elem \ Roots
  BY <1>1, AboveFacts
<1>3. /\ SurfaceOf[d] \in Above[d]
      /\ a \in {SurfaceOf[d]} \cup Above[SurfaceOf[d]]
      /\ b \in {SurfaceOf[d]} \cup Above[SurfaceOf[d]]
  BY <1>1, <1>2, SurfaceFacts
<1>4. SurfaceOf[d] \in S
  BY <1>2, <1>3, AboveFacts
<1>. QED  BY <1>1, <1>3, <1>4

\* What is above an element hangs from the root the element hangs from.
LEMMA RootFound ==
  ASSUME NEW e \in Elem
  PROVE  /\ RootOf(e) \in {e} \cup Above[e]
         /\ \A r \in Roots : r \in {e} \cup Above[e] => r = RootOf(e)
<1>1. \E r \in Roots : r \in {e} \cup Above[e]
  <2>1. {e} \cup Above[e] \in SUBSET Elem
    BY AboveFacts
  <2>2. PICK r \in {e} \cup Above[e] : \A x \in {e} \cup Above[e] : x \notin Above[r]
    BY <2>1, Outermost
  <2>3. CASE r \notin Roots
    <3>1. Above[r] = {Parent[r]} \cup Above[Parent[r]]
      BY <2>1, <2>3, TreeAssumption
    <3>2. Above[r] \subseteq {e} \cup Above[e]
      BY AboveFacts
    <3>. QED  BY <2>2, <3>1, <3>2
  <2>. QED  BY <2>3
<1>2. ASSUME Win \in {e} \cup Above[e], Overlay \in {e} \cup Above[e] PROVE FALSE
  <2>1. Win # Overlay /\ Win \in Roots /\ Overlay \in Roots
    BY TreeAssumption DEF Roots
  <2>2. Win \in Above[e] \cap Surface /\ Overlay \in Above[e] \cap Surface
    BY <1>2, <2>1, AboveFacts
  <2>. QED  BY <2>1, <2>2, Comparable, AboveFacts
<1>. QED  BY <1>1, <1>2 DEF RootOf, Roots

LEMMA SameRoot ==
  ASSUME NEW e \in Elem, NEW a \in Above[e]
  PROVE  a \in Elem /\ RootOf(a) = RootOf(e)
<1>1. a \in Elem /\ {a} \cup Above[a] \subseteq Above[e]
  BY AboveFacts
<1>2. RootOf(a) \in Roots
  BY DEF RootOf, Roots
<1>. QED  BY <1>1, <1>2, RootFound

LEMMA RootOfRoot == \A r \in Roots : RootOf(r) = r
BY RootFound, AboveFacts

\* mark_dirty is called for an element and the surfaces around it.
LEMMA ChainFacts ==
  ASSUME NEW e \in Elem \ Roots
  PROVE  /\ e \in Chain(e) /\ Chain(e) \subseteq Elem \ Roots
         /\ \A z \in Chain(e) : /\ z = e \/ (z \in Surface /\ z \in Above[e])
                                /\ SurfaceOf[z] \in Above[e] \cap Surface
                                /\ SurfaceOf[z] \in Above[z]
                                /\ RootOf(z) = RootOf(e)
                                /\ SurfaceOf[z] \in {SurfaceOf[x] : x \in Chain(e)}
                                /\ Chain(z) \subseteq Chain(e)
<1>1. e \in Chain(e) /\ Chain(e) \subseteq Elem \ Roots
  BY AboveFacts DEF Chain
<1>2. ASSUME NEW z \in Chain(e)
      PROVE  /\ z = e \/ (z \in Surface /\ z \in Above[e])
             /\ SurfaceOf[z] \in Above[e] \cap Surface
             /\ SurfaceOf[z] \in Above[z]
             /\ RootOf(z) = RootOf(e)
             /\ Chain(z) \subseteq Chain(e)
  <2>1. z = e \/ (z \in Surface /\ z \in Above[e])
    BY DEF Chain
  <2>2. SurfaceOf[z] \in Above[z] \cap Surface
    BY <1>1, SurfaceFacts
  <2>3. Above[z] \subseteq Above[e]
    BY <2>1, AboveFacts
  <2>4. RootOf(z) = RootOf(e)
    BY <2>1, SameRoot
  <2>. QED  BY <2>1, <2>2, <2>3, <2>4 DEF Chain
<1>. QED  BY <1>1, <1>2

\* On the way from an element to a surface around it, one element is drawn
\* straight on that surface.
LEMMA ChainStep ==
  ASSUME NEW e \in Elem \ Roots, NEW s \in Above[e] \cap Surface
  PROVE  \E z \in Chain(e) : SurfaceOf[z] = s
<1>. DEFINE S == {z \in Chain(e) : s \in Above[z]}
<1>1. PICK z \in S : \A x \in S : x \notin Above[z]
  <2>1. e \in S /\ S \in SUBSET Elem
    BY ChainFacts
  <2>. QED  BY <2>1, Outermost
<1>. DEFINE t == SurfaceOf[z]
<1>2. z \in Elem \ Roots /\ t \in Above[z] \cap Surface /\ s \in {t} \cup Above[t] /\ Above[z] \subseteq Above[e]
  <2>1. z \in Elem \ Roots /\ Above[z] \subseteq Above[e]
    BY ChainFacts, AboveFacts
  <2>. QED  BY <2>1, SurfaceFacts
<1>3. CASE s \in Above[t]
  <2>1. t \notin Roots
    BY <1>3, AboveFacts
  <2>2. t \in Chain(e)
    BY <1>2, <2>1 DEF Chain
  <2>. QED  BY <1>1, <1>2, <1>3, <2>2
<1>. QED  BY <1>2, <1>3

\* Of an element and a surface around it, the one nearer to the root is drawn
\* on a surface that the other is not drawn on.
LEMMA OtherSurface ==
  ASSUME NEW z \in Elem \ Roots, NEW w \in Above[z] \cap Surface, w \notin Roots
  PROVE  SurfaceOf[z] # SurfaceOf[w] /\ SurfaceOf[w] \in Above[SurfaceOf[z]]
<1>1. w \in Elem \ Roots /\ SurfaceOf[w] \in Above[w] \cap Surface
  BY AboveFacts, SurfaceFacts
<1>2. w = SurfaceOf[z] \/ w \in Above[SurfaceOf[z]]
  BY SurfaceFacts
<1>3. SurfaceOf[z] \in Elem
  BY SurfaceFacts, AboveFacts
<1>. QED  BY <1>1, <1>2, <1>3, AboveFacts

-------------------------------------------------------------------------------
(***************************************************************************)
(* Requests on their way                                                   *)
(***************************************************************************)

\* Surfaces that forget, or do not see, a request made for what is on them: one
\* that is being drawn in full becomes VALID at the end of it, and the window's
\* dirty flag is computed from its queue alone.
Lost(s) == FullRedraw(s) \/ (s = Win /\ pc \in Drawing /\ surface_state[Win] = "INVALID")

\* The next redraw of z's surface that begins will draw z.
Linked(z) == \/ surface_state[SurfaceOf[z]] = "INVALID" /\ ~Lost(SurfaceOf[z])
             \/ Target[z] \in render_entry

\* The redraw of x's surface that is running is still to draw x.
InHand(x) == \E c \in ToSet(stack) :
               /\ c.surf = SurfaceOf[x]
               /\ \/ x \in c.todo
                  \/ ~c.full /\ Target[x] \in ToSet(render_queue[SurfaceOf[x]])

\* Its turn in the queue is still to come.
Queued(x) == \E c \in ToSet(stack) :
               c.surf = SurfaceOf[x] /\ ~c.full /\ Target[x] \in ToSet(render_queue[SurfaceOf[x]])

\* A request for e goes up to its root; or up to where the frame that is being
\* drawn will come across it.
Carried(e) == \A z \in Chain(e) : Linked(z)
Soon(e) == \E x \in Chain(e) : InHand(x) /\ \A z \in Chain(e) : x \in Above[z] => Linked(z)

LEMMA HeldFacts ==
  ASSUME NEW S, NEW q \in Seq(S), q # <<>>
  PROVE  ToSet(q) = {Head(q)} \cup ToSet(Tail(q))
<1>1. /\ Head(q) = q[1] /\ 1 \in DOMAIN q
      /\ \A i \in DOMAIN Tail(q) : i \in Nat /\ i + 1 \in DOMAIN q /\ Tail(q)[i] = q[i + 1]
      /\ \A i \in DOMAIN q : i = 1 \/ (i - 1 \in DOMAIN Tail(q) /\ q[i] = Tail(q)[i - 1])
  BY PopFacts
<1>. DEFINE r == Tail(q)
<1>2. \A i \in DOMAIN r : r[i] \in ToSet(q)
  BY <1>1 DEF ToSet
<1>3. \A i \in DOMAIN q : q[i] \in {q[1]} \cup ToSet(r)
  BY <1>1 DEF ToSet
<1>4. q[1] \in ToSet(q)
  BY <1>1 DEF ToSet
<1>. HIDE DEF r
<1>5. ToSet(r) \subseteq ToSet(q)
  BY <1>2 DEF ToSet
<1>6. ToSet(q) \subseteq {q[1]} \cup ToSet(r)
  BY <1>3 DEF ToSet
<1>. QED  BY <1>1, <1>4, <1>5, <1>6 DEF r

LEMMA PutFacts ==
  ASSUME NEW S, NEW c \in S, NEW q \in Seq(S)
  PROVE  <<c>> \o q \in Seq(S) /\ ToSet(<<c>> \o q) = {c} \cup ToSet(q)
<1>. DEFINE p == <<c>>
<1>1. p \in Seq(S) /\ ToSet(p) = {c}
  BY DEF ToSet
<1>. HIDE DEF p
<1>2. p \o q \in Seq(S) /\ ToSet(p \o q) = ToSet(p) \cup ToSet(q)
  BY <1>1, ConcatFacts
<1>. QED  BY <1>1, <1>2 DEF p

LEMMA FullFacts == \A s : FullRedraw(s) <=> \E c \in ToSet(stack) : c.surf = s /\ c.full
BY DEF FullRedraw, ToSet

\* RedrawInv, said of the calls without their order.
LEMMA CallsFacts ==
  ASSUME RedrawInv
  PROVE  /\ \A c \in ToSet(stack) : /\ c \in Call /\ c.surf \in Surface
                                    /\ c.todo \subseteq Inside(c.surf)
                                    /\ in_redraw[c.surf]
                                    /\ c.full => render_queue[c.surf] = <<>>
         /\ \A a, b \in ToSet(stack) : a.surf = b.surf => a = b
         /\ \A s \in Surface : in_redraw[s] => \E c \in ToSet(stack) : c.surf = s
         /\ pc \notin {"window", "overlay"} => ToSet(stack) = {}
<1>1. \A i \in DOMAIN stack : stack[i] \in Call /\ stack[i].surf \in Surface
  BY CallsTyped DEF RedrawInv
<1>2. pc \notin {"window", "overlay"} => ToSet(stack) = {}
  BY EmptyFacts DEF RedrawInv, RedrawBracketed
<1>. QED  BY <1>1, <1>2 DEF RedrawInv, RedrawBracketed, StackNested, ToSet

LEMMA DrawnCalls ==
  ASSUME RedrawInv, NEW d \in Elem, Turn(d)
  PROVE  LET h == Head(stack)
             g == [h EXCEPT !.todo = @ \ {d}]
         IN  /\ ToSet(stack) = {h} \cup ToSet(Tail(stack))
             /\ ToSet(Drawn(d)) = {g} \cup ToSet(Tail(stack))
             /\ h \in Call /\ h.surf \in Surface /\ Drawn(d) \in Seq(Call)
             /\ g.surf = h.surf /\ g.full = h.full /\ g.todo = h.todo \ {d}
             /\ d \in Inside(h.surf)
<1>1. /\ stack # <<>> /\ stack \in Seq(Call) /\ Head(stack) \in Call /\ Head(stack).surf \in Surface
      /\ Tail(stack) \in Seq(Call)
  BY HeadTyped DEF Turn, RedrawInv, TypeOK
<1>. DEFINE h == Head(stack)
            g == [h EXCEPT !.todo = @ \ {d}]
<1>2. g \in Call /\ g.surf = h.surf /\ g.full = h.full /\ g.todo = h.todo \ {d}
  BY <1>1 DEF Call
<1>3. ToSet(stack) = {h} \cup ToSet(Tail(stack))
  BY <1>1, HeldFacts
<1>4. Drawn(d) = <<g>> \o Tail(stack)
  BY DEF Drawn
<1>5. d \in Inside(h.surf)
  BY <1>3, CallsFacts DEF Turn
<1>. HIDE DEF h, g
<1>6. /\ <<g>> \o Tail(stack) \in Seq(Call)
      /\ ToSet(<<g>> \o Tail(stack)) = {g} \cup ToSet(Tail(stack))
  BY <1>1, <1>2, PutFacts
<1>. QED  BY <1>1, <1>2, <1>3, <1>4, <1>5, <1>6 DEF h, g

\* What is in a queue, when its surface is not being drawn or may be.
LEMMA QueueFacts ==
  ASSUME RedrawInv, QueuesSound, NEW z \in Elem \ Roots, Target[z] \in render_entry
  PROVE  LET s == SurfaceOf[z]
         IN  /\ s \in Surface
             /\ Target[z] \in ToSet(render_queue[s]) \/ Target[z] \in ToSet(next_queue[s])
             /\ ~in_redraw[s] => Target[z] \in ToSet(render_queue[s]) /\ render_queue[s] # <<>>
<1>1. SurfaceOf[z] \in Surface /\ Target[z] \in Inside(SurfaceOf[z])
  BY SurfaceFacts, TargetFacts DEF Inside
<1>. QED  BY <1>1, EmptyFacts DEF QueuesSound, RedrawInv, RedrawBracketed

\* A step may take a request out of the queue of one surface s, and finish one
\* element d: what is on its way remains so.
LEMMA KeepSoon ==
  ASSUME NEW e \in Elem \ Roots, NEW s, NEW d, e # d,
         \A z \in Elem \ Roots : Linked(z) /\ SurfaceOf[z] # s => Linked(z)',
         \A z \in Elem \ Roots : Linked(z) /\ SurfaceOf[z] = s => Linked(z)' \/ InHand(z)',
         \A x \in Elem \ Roots : InHand(x) /\ x # d => InHand(x)',
         d \in Surface \ Roots =>
           s = d /\ \A z \in Elem \ Roots : Linked(z) /\ SurfaceOf[z] = d => InHand(z)'
  PROVE  /\ Soon(e) => Soon(e)'
         /\ Carried(e) => Carried(e)' \/ Soon(e)'
<1>1. ASSUME NEW w \in Chain(e), SurfaceOf[w] = s, InHand(w)',
             \A z \in Chain(e) : w \in Above[z] => Linked(z)
      PROVE  Soon(e)'
  <2>1. SUFFICES ASSUME NEW z \in Chain(e), w \in Above[z] PROVE Linked(z)'
    BY <1>1 DEF Soon
  <2>2. w \in Surface \ Roots /\ z \in Elem \ Roots
    BY <2>1, ChainFacts, AboveFacts
  <2>3. SurfaceOf[z] # s
    BY <1>1, <2>1, <2>2, OtherSurface
  <2>. QED  BY <1>1, <2>1, <2>2, <2>3
<1>2. ASSUME Carried(e) PROVE Carried(e)' \/ Soon(e)'
  <2>1. CASE \E w \in Chain(e) : ~Linked(w)'
    <3>1. PICK w \in Chain(e) : ~Linked(w)'
      BY <2>1
    <3>2. SurfaceOf[w] = s /\ InHand(w)'
      BY <1>2, <3>1, ChainFacts DEF Carried
    <3>. QED  BY <1>1, <1>2, <3>2 DEF Carried
  <2>. QED  BY <2>1 DEF Carried
<1>3. ASSUME Soon(e) PROVE Soon(e)'
  <2>1. PICK x \in Chain(e) : InHand(x) /\ \A z \in Chain(e) : x \in Above[z] => Linked(z)
    BY <1>3 DEF Soon
  <2>2. x \in Elem \ Roots
    BY ChainFacts
  <2>3. CASE x = d
    <3>1. x \in Surface \ Roots /\ x \in Above[e] \cap Surface
      BY <2>2, <2>3, ChainFacts
    <3>2. PICK w \in Chain(e) : SurfaceOf[w] = x
      BY <3>1, ChainStep
    <3>3. w \in Elem \ Roots /\ x \in Above[w]
      BY <3>2, ChainFacts
    <3>4. InHand(w)' /\ s = x
      BY <2>1, <2>3, <3>1, <3>2, <3>3
    <3>5. \A z \in Chain(e) : w \in Above[z] => x \in Above[z]
      BY <3>3, ChainFacts, AboveFacts
    <3>. QED  BY <1>1, <2>1, <3>2, <3>4, <3>5
  <2>4. CASE x # d /\ \E w \in Chain(e) : x \in Above[w] /\ ~Linked(w)'
    <3>1. PICK w \in Chain(e) : x \in Above[w] /\ ~Linked(w)'
      BY <2>4
    <3>2. SurfaceOf[w] = s /\ InHand(w)' /\ w \in Elem \ Roots
      BY <2>1, <3>1, ChainFacts
    <3>3. \A z \in Chain(e) : w \in Above[z] => x \in Above[z]
      BY <3>1, <3>2, ChainFacts, AboveFacts
    <3>. QED  BY <1>1, <2>1, <3>2, <3>3
  <2>. QED  BY <2>1, <2>2, <2>3, <2>4 DEF Soon
<1>. QED  BY <1>2, <1>3

LEMMA LinkFacts ==
  ASSUME NEW z \in Elem \ Roots
  PROVE  /\ SurfaceOf[z] \in Surface /\ z \in Inside(SurfaceOf[z])
         /\ Target[z] \in Inside(SurfaceOf[z])
BY SurfaceFacts, TargetFacts DEF Inside

\* A request only adds to what is on its way.
LEMMA RequestLinks ==
  ASSUME RedrawInv, NEW T \in SUBSET (Elem \ Roots), Enqueue(T), pc' = pc,
         \A s \in Surface : surface_state[s] = "INVALID" => surface_state'[s] = "INVALID",
         \A s \in Surface : FullRedraw(s)' => FullRedraw(s)
  PROVE  /\ \A z \in Elem \ Roots : Linked(z) \/ Target[z] \in T => Linked(z)'
         /\ \A s \in Surface : ToSet(render_queue[s]) \subseteq ToSet(render_queue'[s])
<1>1. /\ render_entry' = render_entry \cup T
      /\ \A s \in Surface : ToSet(render_queue[s]) \subseteq ToSet(render_queue'[s])
  BY EnqueueFacts DEF RedrawInv, TypeOK
<1>2. ASSUME NEW z \in Elem \ Roots, Linked(z) PROVE Linked(z)'
  <2>1. SurfaceOf[z] \in Surface
    BY LinkFacts
  <2>2. CASE Target[z] \in render_entry
    BY <1>1, <2>2 DEF Linked
  <2>3. CASE surface_state[SurfaceOf[z]] = "INVALID" /\ ~Lost(SurfaceOf[z])
    BY <2>1, <2>3 DEF Linked, Lost
  <2>. QED  BY <1>2, <2>2, <2>3 DEF Linked
<1>3. \A z \in Elem \ Roots : Target[z] \in T => Linked(z)'
  BY <1>1 DEF Linked
<1>. QED  BY <1>1, <1>2, <1>3

\* Asking does not change what the calls have in hand.
LEMMA SameHand ==
  ASSUME RedrawInv, stack' = stack,
         \A s \in Surface : ToSet(render_queue[s]) \subseteq ToSet(render_queue'[s])
  PROVE  /\ \A s : FullRedraw(s)' <=> FullRedraw(s)
         /\ \A x \in Elem \ Roots : InHand(x) => InHand(x)'
<1>1. \A s : FullRedraw(s)' <=> FullRedraw(s)
  BY DEF FullRedraw
<1>2. \A x \in Elem \ Roots : InHand(x) => InHand(x)'
  BY LinkFacts DEF InHand
<1>. QED  BY <1>1, <1>2

\* An element drawn is struck off the innermost call, and nothing else is.
LEMMA DrawnHand ==
  ASSUME RedrawInv, NEW d \in Elem, Turn(d), stack' = Drawn(d),
         \A s \in Surface : ToSet(render_queue[s]) \subseteq ToSet(render_queue'[s])
  PROVE  /\ \A s : FullRedraw(s)' <=> FullRedraw(s)
         /\ \A x \in Elem \ Roots : InHand(x) /\ x # d => InHand(x)'
         /\ \A x \in Elem \ Roots : Queued(x) => InHand(x)'
<1>. DEFINE h == Head(stack)
            g == [h EXCEPT !.todo = @ \ {d}]
            R == ToSet(Tail(stack))
<1>1. /\ ToSet(stack) = {h} \cup R /\ ToSet(stack') = {g} \cup R
      /\ g.surf = h.surf /\ g.full = h.full /\ g.todo = h.todo \ {d}
  BY DrawnCalls
<1>. HIDE DEF h, g, R
<1>2. \A s : FullRedraw(s)' <=> \E c \in ToSet(stack') : c.surf = s /\ c.full
  BY DEF FullRedraw, ToSet
<1>3. \A s : FullRedraw(s)' <=> FullRedraw(s)
  BY <1>1, <1>2, FullFacts
<1>4. ASSUME NEW x \in Elem \ Roots, InHand(x), x # d PROVE InHand(x)'
  <2>1. PICK c \in ToSet(stack) : /\ c.surf = SurfaceOf[x]
                                  /\ \/ x \in c.todo
                                     \/ ~c.full /\ Target[x] \in ToSet(render_queue[SurfaceOf[x]])
    BY <1>4 DEF InHand
  <2>2. ToSet(render_queue[SurfaceOf[x]]) \subseteq ToSet(render_queue'[SurfaceOf[x]])
    BY LinkFacts
  <2>3. CASE c = h
    BY <1>1, <1>4, <2>1, <2>2, <2>3 DEF InHand
  <2>4. CASE c \in R
    BY <1>1, <2>1, <2>2, <2>4 DEF InHand
  <2>. QED  BY <1>1, <2>3, <2>4
<1>5. ASSUME NEW x \in Elem \ Roots, Queued(x) PROVE InHand(x)'
  <2>1. PICK c \in ToSet(stack) :
          c.surf = SurfaceOf[x] /\ ~c.full /\ Target[x] \in ToSet(render_queue[SurfaceOf[x]])
    BY <1>5 DEF Queued
  <2>2. Target[x] \in ToSet(render_queue'[SurfaceOf[x]])
    BY <2>1, LinkFacts
  <2>3. PICK k \in ToSet(stack') : k.surf = SurfaceOf[x] /\ ~k.full
    BY <1>1, <2>1
  <2>. QED  BY <2>2, <2>3 DEF InHand
<1>. QED  BY <1>3, <1>4, <1>5

LEMMA DrawElemLinks ==
  ASSUME RedrawInv, NEW d \in Elem, DrawElem(d)
  PROVE  /\ \A s : FullRedraw(s)' <=> FullRedraw(s)
         /\ \A z \in Elem \ Roots : Linked(z) => Linked(z)'
         /\ \A x \in Elem \ Roots : InHand(x) /\ x # d => InHand(x)'
         /\ \A x \in Elem \ Roots : Queued(x) => InHand(x)'
<1>1. Turn(d) /\ stack' = Drawn(d) /\ pc' = pc
  BY DEF DrawElem
<1>3. CASE NoRequest(Paint(ledger, d))
  <2>1. render_queue' = render_queue /\ render_entry' = render_entry /\ surface_state' = surface_state
    BY <1>3 DEF NoRequest, queues
  <2>2. /\ \A s : FullRedraw(s)' <=> FullRedraw(s)
        /\ \A x \in Elem \ Roots : InHand(x) /\ x # d => InHand(x)'
        /\ \A x \in Elem \ Roots : Queued(x) => InHand(x)'
    BY <1>1, <2>1, DrawnHand
  <2>. QED  BY <1>1, <2>1, <2>2 DEF Linked, Lost
<1>4. ASSUME NEW T \in SUBSET (Elem \ Roots), Enqueue(T),
             \A s \in Surface : surface_state[s] = "INVALID" => surface_state'[s] = "INVALID"
      PROVE  /\ \A s : FullRedraw(s)' <=> FullRedraw(s)
             /\ \A z \in Elem \ Roots : Linked(z) => Linked(z)'
             /\ \A x \in Elem \ Roots : InHand(x) /\ x # d => InHand(x)'
             /\ \A x \in Elem \ Roots : Queued(x) => InHand(x)'
  <2>1. \A s \in Surface : ToSet(render_queue[s]) \subseteq ToSet(render_queue'[s])
    BY <1>4, EnqueueFacts DEF RedrawInv, TypeOK
  <2>2. /\ \A s : FullRedraw(s)' <=> FullRedraw(s)
        /\ \A x \in Elem \ Roots : InHand(x) /\ x # d => InHand(x)'
        /\ \A x \in Elem \ Roots : Queued(x) => InHand(x)'
    BY <1>1, <2>1, DrawnHand
  <2>. QED  BY <1>1, <1>4, <2>2, RequestLinks
<1>5. ASSUME NEW m \in DrawMarks, MarkDirty(m, Paint(ledger, d))
      PROVE  Marks(m) \in SUBSET (Elem \ Roots) /\ Enqueue(Marks(m)) /\ surface_state' = surface_state
  BY <1>5, MarksFacts, CallbackAssumption DEF MarkDirty
<1>6. ASSUME NEW s \in DrawInvalidates, SurfaceInvalidate(s, Paint(ledger, d))
      PROVE  /\ Marks(s) \in SUBSET (Elem \ Roots) /\ Enqueue(Marks(s))
             /\ \A t \in Surface : surface_state[t] = "INVALID" => surface_state'[t] = "INVALID"
  BY <1>6, MarksFacts, CallbackAssumption, AboveFacts DEF SurfaceInvalidate, RedrawInv, TypeOK
<1>. QED  BY <1>3, <1>4, <1>5, <1>6 DEF DrawElem

\* Opening a surface takes in hand what was on its way there.
LEMMA OpenLinks ==
  ASSUME RedrawInv, QueuesSound, NEW d \in Surface, NEW below \in Seq(Call),
         \A c \in ToSet(stack) : c.surf # d,
         \A c \in ToSet(below) : c.surf # d,
         \A s : (\E c \in ToSet(below) : c.surf = s /\ c.full) <=> FullRedraw(s),
         ~Lost(d), OpenSurface(d, below), surface_state' = surface_state,
         d = Win \/ (pc \in Drawing /\ pc' \in Drawing)
  PROVE  /\ \A s : FullRedraw(s)' => FullRedraw(s) \/ (s = d /\ surface_state[d] = "INVALID")
         /\ surface_state[d] = "INVALID" => FullRedraw(d)'
         /\ \A z \in Elem \ Roots : Linked(z) /\ SurfaceOf[z] # d => Linked(z)'
         /\ \A z \in Elem \ Roots : Linked(z) /\ SurfaceOf[z] = d => InHand(z)'
         /\ ToSet(below) \subseteq ToSet(stack')
         /\ \A t \in Surface : t # d => render_queue'[t] = render_queue[t]
<1>. DEFINE full == surface_state[d] = "INVALID"
            call == [surf |-> d, full |-> full, todo |-> IF full THEN Inside(d) ELSE {}]
<1>0. ~in_redraw[d]
  BY CallsFacts
<1>1. \A s : FullRedraw(s)' <=> \E c \in ToSet(stack') : c.surf = s /\ c.full
  BY DEF FullRedraw, ToSet
<1>2. CASE ~IsDirty(d)
  <2>1. stack' = below /\ UNCHANGED <<render_queue, render_entry, in_redraw>> /\ ~full /\ render_queue[d] = <<>>
    BY <1>2 DEF OpenSurface, IsDirty
  <2>2. \A z \in Elem \ Roots : ~(Linked(z) /\ SurfaceOf[z] = d)
    BY <1>0, <2>1, QueueFacts DEF Linked
  <2>3. \A s : FullRedraw(s)' <=> FullRedraw(s)
    BY <1>1, <2>1
  <2>4. \A z \in Elem \ Roots : Linked(z) /\ SurfaceOf[z] # d => Linked(z)'
    BY <2>1, <2>3 DEF Linked, Lost
  <2>. QED  BY <2>1, <2>2, <2>3, <2>4
<1>3. CASE IsDirty(d)
  <2>1. call \in Call /\ call.surf = d /\ call.full = full /\ (full => call.todo = Inside(d))
    BY InsideFacts DEF Call
  <2>2. /\ stack' = <<call>> \o below
        /\ full => /\ render_queue' = [render_queue EXCEPT ![d] = <<>>]
                   /\ render_entry' = render_entry \ ToSet(render_queue[d])
        /\ ~full => render_queue' = render_queue /\ render_entry' = render_entry
    BY <1>3 DEF OpenSurface
  <2>. HIDE DEF call
  <2>3. ToSet(stack') = {call} \cup ToSet(below)
    BY <2>1, <2>2, PutFacts
  <2>4. \A t \in Surface : t # d => render_queue'[t] = render_queue[t]
    BY <2>2 DEF RedrawInv, TypeOK
  <2>5. /\ \A s : FullRedraw(s)' => FullRedraw(s) \/ (s = d /\ full)
        /\ full => FullRedraw(d)'
    BY <1>1, <2>1, <2>3
  <2>6. ASSUME NEW z \in Elem \ Roots, Linked(z), SurfaceOf[z] # d PROVE Linked(z)'
    <3>1. CASE Target[z] \in render_entry
      <4>1. Target[z] \notin ToSet(render_queue[d])
        BY <2>6, LinkFacts, InsideOnce DEF RedrawInv, TypeOK
      <4>. QED  BY <2>2, <3>1, <4>1 DEF Linked
    <3>2. CASE surface_state[SurfaceOf[z]] = "INVALID" /\ ~Lost(SurfaceOf[z])
      <4>1. ~FullRedraw(SurfaceOf[z])'
        BY <2>5, <2>6, <3>2 DEF Lost
      <4>2. SurfaceOf[z] = Win => d # Win
        BY <2>6
      <4>. QED  BY <3>2, <4>1, <4>2 DEF Linked, Lost
    <3>. QED  BY <2>6, <3>1, <3>2 DEF Linked
  <2>7. ASSUME NEW z \in Elem \ Roots, Linked(z), SurfaceOf[z] = d PROVE InHand(z)'
    <3>1. CASE full
      BY <2>1, <2>3, <2>7, <3>1, LinkFacts DEF InHand
    <3>2. CASE ~full
      <4>1. Target[z] \in ToSet(render_queue[d])
        BY <1>0, <2>7, <3>2, QueueFacts DEF Linked
      <4>. QED  BY <2>1, <2>2, <2>3, <2>7, <3>2, <4>1 DEF InHand
    <3>. QED  BY <3>1, <3>2
  <2>. QED  BY <2>3, <2>4, <2>5, <2>6, <2>7
<1>. QED  BY <1>2, <1>3

LEMMA DrawSurfaceLinks ==
  ASSUME RedrawInv, QueuesSound, NEW d \in Elem, DrawSurface(d)
  PROVE  /\ d \in Surface \ Roots
         /\ \A s : FullRedraw(s)' => FullRedraw(s) \/ s = d
         /\ surface_state[d] = "INVALID" => FullRedraw(d)'
         /\ \A z \in Elem \ Roots : Linked(z) /\ SurfaceOf[z] # d => Linked(z)'
         /\ \A z \in Elem \ Roots : Linked(z) /\ SurfaceOf[z] = d => InHand(z)'
         /\ \A x \in Elem \ Roots : InHand(x) /\ x # d => InHand(x)'
         /\ \A s : FullRedraw(s) => FullRedraw(s)'
<1>1. /\ d \in Surface /\ Turn(d) /\ OpenSurface(d, Drawn(d)) /\ pc' = pc
      /\ surface_state' = surface_state
  BY DEF DrawSurface
<1>2. d \notin Roots /\ pc \in {"window", "overlay"} /\ \A i \in DOMAIN stack : stack[i].surf \in Above[d]
  BY <1>1, TurnFacts
<1>. DEFINE h == Head(stack)
            g == [h EXCEPT !.todo = @ \ {d}]
            R == ToSet(Tail(stack))
            below == Drawn(d)
<1>3. /\ ToSet(stack) = {h} \cup R /\ ToSet(below) = {g} \cup R
      /\ g.surf = h.surf /\ g.full = h.full /\ g.todo = h.todo \ {d}
      /\ below \in Seq(Call)
  BY <1>1, DrawnCalls
<1>. HIDE DEF h, g, R, below
<1>4. \A c \in ToSet(stack) : c.surf # d
  BY <1>2, AboveFacts DEF ToSet
<1>5. \A c \in ToSet(below) : c.surf # d
  BY <1>3, <1>4
<1>6. \A s : (\E c \in ToSet(below) : c.surf = s /\ c.full) <=> FullRedraw(s)
  BY <1>3, FullFacts
<1>7. ~Lost(d)
  BY <1>2, <1>4, FullFacts DEF Lost, Roots
<1>8. OpenSurface(d, below) /\ pc \in Drawing /\ pc' \in Drawing
  BY <1>1, <1>2 DEF below, Drawing
<1>9. /\ \A s : FullRedraw(s)' => FullRedraw(s) \/ (s = d /\ surface_state[d] = "INVALID")
      /\ surface_state[d] = "INVALID" => FullRedraw(d)'
      /\ \A z \in Elem \ Roots : Linked(z) /\ SurfaceOf[z] # d => Linked(z)'
      /\ \A z \in Elem \ Roots : Linked(z) /\ SurfaceOf[z] = d => InHand(z)'
      /\ ToSet(below) \subseteq ToSet(stack')
      /\ \A t \in Surface : t # d => render_queue'[t] = render_queue[t]
  BY <1>1, <1>3, <1>4, <1>5, <1>6, <1>7, <1>8, OpenLinks
<1>10. ASSUME NEW x \in Elem \ Roots, InHand(x), x # d PROVE InHand(x)'
  <2>1. PICK c \in ToSet(stack) : /\ c.surf = SurfaceOf[x]
                                  /\ \/ x \in c.todo
                                     \/ ~c.full /\ Target[x] \in ToSet(render_queue[SurfaceOf[x]])
    BY <1>10 DEF InHand
  <2>2. render_queue'[SurfaceOf[x]] = render_queue[SurfaceOf[x]]
    BY <1>4, <1>9, <2>1, LinkFacts
  <2>3. CASE c = h
    <3>1. g \in ToSet(stack')
      BY <1>3, <1>9
    <3>. QED  BY <1>3, <1>10, <2>1, <2>2, <2>3, <3>1 DEF InHand
  <2>4. CASE c \in R
    <3>1. c \in ToSet(stack')
      BY <1>3, <1>9, <2>4
    <3>. QED  BY <2>1, <2>2, <3>1 DEF InHand
  <2>. QED  BY <1>3, <2>3, <2>4
<1>11. ASSUME NEW s, FullRedraw(s) PROVE FullRedraw(s)'
  <2>1. PICK c \in ToSet(below) : c.surf = s /\ c.full
    BY <1>6, <1>11
  <2>2. c \in ToSet(stack')
    BY <1>9
  <2>. QED  BY <2>1, <2>2 DEF FullRedraw, ToSet
<1>. QED  BY <1>1, <1>2, <1>9, <1>10, <1>11

\* An element taken out of the queue is in hand, with what is below it.
LEMMA PopLinks ==
  ASSUME RedrawInv, QueuesSound, PopQueue
  PROVE  LET s == Head(stack).surf
         IN  /\ s \in Surface /\ in_redraw[s]
             /\ \A t : FullRedraw(t)' <=> FullRedraw(t)
             /\ \A z \in Elem \ Roots : Linked(z) /\ SurfaceOf[z] # s => Linked(z)'
             /\ \A z \in Elem \ Roots : Linked(z) /\ SurfaceOf[z] = s => Linked(z)' \/ InHand(z)'
             /\ \A x \in Elem \ Roots : InHand(x) => InHand(x)'
<1>. DEFINE call == Head(stack)
            s    == call.surf
            q    == render_queue[s]
            h    == Head(q)
            new  == [call EXCEPT !.todo = Below(h)]
            R    == ToSet(Tail(stack))
<1>1. /\ stack # <<>> /\ call.todo = {} /\ ~call.full /\ q # <<>>
      /\ stack' = <<new>> \o Tail(stack)
      /\ render_queue' = [render_queue EXCEPT ![s] = Tail(@)]
      /\ render_entry' = render_entry \ {h}
      /\ surface_state' = surface_state /\ pc' = pc
  BY DEF PopQueue
<1>2. /\ stack \in Seq(Call) /\ call \in Call /\ s \in Surface /\ Tail(stack) \in Seq(Call)
      /\ ToSet(stack) = {call} \cup R
  BY <1>1, HeadTyped, HeldFacts DEF RedrawInv, TypeOK
<1>3. in_redraw[s]
  BY <1>2, CallsFacts
<1>4. /\ q \in Seq(Elem) /\ h \in ToSet(q) /\ ToSet(Tail(q)) = ToSet(q) \ {h}
      /\ ToSet(q) \subseteq Inside(s)
  BY <1>1, <1>2, TailFacts DEF RedrawInv, TypeOK, QueuesSound
<1>5. Below(h) \in SUBSET Elem /\ h \in Elem \ Roots /\ SurfaceOf[h] = s
  BY <1>4 DEF Below, Inside
<1>6. new \in Call /\ new.surf = s /\ new.full = call.full /\ new.todo = Below(h)
  BY <1>2, <1>5 DEF Call
<1>7. /\ render_queue'[s] = Tail(q)
      /\ \A t \in Surface : t # s => render_queue'[t] = render_queue[t]
  BY <1>1, <1>2 DEF RedrawInv, TypeOK
<1>8. \A c \in R : c.surf # s
  <2>1. R = {Tail(stack)[i] : i \in DOMAIN Tail(stack)}
    BY DEF ToSet
  <2>2. \A i \in DOMAIN Tail(stack) : i \in Nat /\ i > 0 /\ i + 1 \in DOMAIN stack /\ Tail(stack)[i] = stack[i + 1]
    <3>1. \A i \in DOMAIN Tail(stack) : i \in 1..Len(Tail(stack)) /\ Len(Tail(stack)) \in Nat
      BY <1>2, LenProperties
    <3>. QED  BY <1>1, <1>2, <3>1, PopFacts
  <2>3. 1 \in DOMAIN stack /\ stack[1] = call
    BY <1>1, <1>2, PopFacts
  <2>4. ASSUME NEW i \in DOMAIN Tail(stack), stack[i + 1].surf = stack[1].surf PROVE FALSE
    <3>1. i + 1 = 1
      BY <2>2, <2>3, <2>4 DEF RedrawInv, RedrawBracketed
    <3>. QED  BY <2>2, <3>1
  <2>. QED  BY <2>1, <2>2, <2>3, <2>4
<1>. HIDE DEF call, s, q, h, new, R
<1>9. ToSet(stack') = {new} \cup R
  <2>1. ToSet(<<new>> \o Tail(stack)) = {new} \cup ToSet(Tail(stack))
    BY <1>2, <1>6, PutFacts
  <2>. QED  BY <1>1, <2>1 DEF R
<1>10. \A t : FullRedraw(t)' <=> FullRedraw(t)
  <2>1. \A t : FullRedraw(t)' <=> \E c \in ToSet(stack') : c.surf = t /\ c.full
    BY DEF FullRedraw, ToSet
  <2>. QED  BY <1>2, <1>6, <1>9, <2>1, FullFacts DEF s
<1>11. ASSUME NEW z \in Elem \ Roots, Target[z] = h PROVE InHand(z)'
  <2>1. SurfaceOf[z] = s
    BY <1>5, <1>11, TargetFacts
  <2>2. z = h \/ h \in Above[z]
    BY <1>11, NearestAssumption DEF Target, Between
  <2>3. z \in Below(h)
    BY <1>5, <2>1, <2>2 DEF Below, Inside
  <2>. QED  BY <1>6, <1>9, <2>1, <2>3 DEF InHand
<1>12. ASSUME NEW z \in Elem \ Roots, Linked(z), Target[z] # h PROVE Linked(z)'
  BY <1>1, <1>10, <1>12 DEF Linked, Lost
<1>13. ASSUME NEW z \in Elem \ Roots, Linked(z), Target[z] = h, SurfaceOf[z] # s PROVE FALSE
  BY <1>5, <1>13, TargetFacts
<1>14. ASSUME NEW x \in Elem \ Roots, InHand(x) PROVE InHand(x)'
  <2>1. PICK c \in ToSet(stack) : /\ c.surf = SurfaceOf[x]
                                  /\ \/ x \in c.todo
                                     \/ ~c.full /\ Target[x] \in ToSet(render_queue[SurfaceOf[x]])
    BY <1>14 DEF InHand
  <2>2. CASE c = call
    <3>1. Target[x] \in ToSet(q) /\ SurfaceOf[x] = s
      BY <1>1, <2>1, <2>2 DEF s, q, call
    <3>2. CASE Target[x] = h
      BY <1>11, <3>2
    <3>3. CASE Target[x] # h
      <4>1. Target[x] \in ToSet(render_queue'[s])
        BY <1>4, <1>7, <3>1, <3>3
      <4>2. ~new.full
        BY <1>1, <1>6
      <4>. QED  BY <1>6, <1>9, <3>1, <4>1, <4>2 DEF InHand
    <3>. QED  BY <3>2, <3>3
  <2>3. CASE c \in R
    <3>1. render_queue'[SurfaceOf[x]] = render_queue[SurfaceOf[x]]
      BY <1>7, <1>8, <2>1, <2>3, LinkFacts
    <3>. QED  BY <1>9, <2>1, <2>3, <3>1 DEF InHand
  <2>. QED  BY <1>2, <2>2, <2>3
<1>. QED  BY <1>2, <1>3, <1>10, <1>11, <1>12, <1>13, <1>14 DEF s, call

\* A call ends with nothing in hand, and leaves what is on its way to its
\* surface for the next.
LEMMA CloseLinks ==
  ASSUME RedrawInv, QueuesSound, CloseSurface
  PROVE  LET s == Head(stack).surf
         IN  /\ s \in Surface /\ in_redraw[s]
             /\ \A t : FullRedraw(t)' => FullRedraw(t)
             /\ \A t : t # s /\ FullRedraw(t) => FullRedraw(t)'
             /\ FullRedraw(s) => surface_state'[s] = "VALID"
             /\ \A t \in Surface : ~FullRedraw(s) \/ t # s => surface_state'[t] = surface_state[t]
             /\ \A z \in Elem \ Roots : Linked(z) => Linked(z)'
             /\ \A x \in Elem \ Roots : InHand(x) => InHand(x)'
<1>. DEFINE call == Head(stack)
            s    == call.surf
            R    == ToSet(Tail(stack))
<1>1. /\ stack # <<>> /\ call.todo = {} /\ (call.full \/ render_queue[s] = <<>>)
      /\ stack' = Tail(stack) /\ pc' = pc /\ render_entry' = render_entry
      /\ surface_state' = IF call.full THEN [surface_state EXCEPT ![s] = "VALID"] ELSE surface_state
      /\ render_queue' = [render_queue EXCEPT ![s] = @ \o next_queue[s]]
  BY DEF CloseSurface
<1>2. /\ stack \in Seq(Call) /\ call \in Call /\ s \in Surface
      /\ ToSet(stack) = {call} \cup R /\ ToSet(stack') = R
  BY <1>1, HeadTyped, HeldFacts DEF RedrawInv, TypeOK
<1>3. /\ in_redraw[s] /\ (call.full => render_queue[s] = <<>>)
      /\ \A a, b \in ToSet(stack) : a.surf = b.surf => a = b
  BY <1>2, CallsFacts
<1>4. \A t \in Surface : t # s => render_queue'[t] = render_queue[t]
  BY <1>1, <1>2 DEF RedrawInv, TypeOK
<1>5. \A t \in Surface : ~call.full \/ t # s => surface_state'[t] = surface_state[t]
  BY <1>1, <1>2 DEF RedrawInv, TypeOK
<1>6. call.full => surface_state'[s] = "VALID"
  BY <1>1, <1>2 DEF RedrawInv, TypeOK
<1>. HIDE DEF call, R
<1>7. \A t : FullRedraw(t)' <=> \E c \in R : c.surf = t /\ c.full
  BY <1>2 DEF FullRedraw, ToSet
<1>8. \A t : FullRedraw(t)' => FullRedraw(t)
  BY <1>2, <1>7, FullFacts
<1>9. \A t : t # s /\ FullRedraw(t) => FullRedraw(t)'
  BY <1>2, <1>7, FullFacts
<1>10. FullRedraw(s) <=> call.full
  BY <1>2, <1>3, FullFacts
<1>11. ASSUME NEW z \in Elem \ Roots, Linked(z) PROVE Linked(z)'
  <2>1. CASE Target[z] \in render_entry
    BY <1>1, <2>1 DEF Linked
  <2>2. CASE surface_state[SurfaceOf[z]] = "INVALID" /\ ~Lost(SurfaceOf[z])
    <3>1. surface_state'[SurfaceOf[z]] = "INVALID"
      BY <1>5, <1>10, <2>2, LinkFacts DEF Lost
    <3>2. ~Lost(SurfaceOf[z])'
      BY <1>1, <1>8, <2>2 DEF Lost
    <3>. QED  BY <3>1, <3>2 DEF Linked
  <2>. QED  BY <1>11, <2>1, <2>2 DEF Linked
<1>12. ASSUME NEW x \in Elem \ Roots, InHand(x) PROVE InHand(x)'
  <2>1. PICK c \in ToSet(stack) : /\ c.surf = SurfaceOf[x]
                                  /\ \/ x \in c.todo
                                     \/ ~c.full /\ Target[x] \in ToSet(render_queue[SurfaceOf[x]])
    BY <1>12 DEF InHand
  <2>2. c # call
    BY <1>1, <2>1, EmptyFacts DEF call
  <2>3. c \in R /\ SurfaceOf[x] # s
    BY <1>2, <1>3, <2>1, <2>2
  <2>4. render_queue'[SurfaceOf[x]] = render_queue[SurfaceOf[x]]
    BY <1>4, <2>3, LinkFacts
  <2>. QED  BY <1>2, <2>1, <2>3, <2>4 DEF InHand
<1>. QED  BY <1>2, <1>3, <1>5, <1>6, <1>8, <1>9, <1>10, <1>11, <1>12 DEF call

\* The calls are those of one tree, and all that surrounds them is open.
OnOneTree ==
  /\ \A c \in ToSet(stack) : \A s \in Above[c.surf] \cap Surface : in_redraw[s]
  /\ \A c \in ToSet(stack) : RootOf(c.surf) = IF pc = "window" THEN Win ELSE Overlay

Framed ==
  /\ pc # "idle" => attached /\ ~obscured
  /\ pc \in {"idle", "start"} => ledger.next = {}

\* An INVALID surface was asked for, unless it is being drawn in full.
Asked ==
  attached =>
    \A s \in Surface :
      surface_state[s] = "INVALID" /\ ~FullRedraw(s) =>
        /\ s \in ledger.now \cup ledger.next
        /\ s = Win /\ pc \in Drawing => ledger.gap[s] # "none"

\* What is put off to the next frame will be come across by it.
Deferred ==
  \A y \in Surface \ Roots :
    next_queue[y] # <<>> => \A w \in Chain(y) : Linked(w) \/ Lost(SurfaceOf[w])

Awaited == Honoured(ledger.now \cup ledger.next)

\* Where an honoured request is.
Kept ==
  /\ pc \in {"idle", "start"} /\ Awaited # {} => dirty
  /\ Win \in Awaited => pc \in {"idle", "start"}
  /\ Overlay \in Awaited => pc # "overlay"
  /\ \A e \in Awaited \ Roots :
       /\ Carried(e) \/ Soon(e)
       /\ RootOf(e) = Win /\ e \in ledger.now =>
            pc \notin {"end", "overlay"} /\ (pc = "window" => Soon(e))
       /\ RootOf(e) = Overlay /\ pc = "overlay" => Soon(e)

ServiceInv ==
  /\ RedrawInv /\ QueuesSound
  /\ OnOneTree /\ Framed /\ Asked /\ Deferred /\ Kept

-------------------------------------------------------------------------------
(***************************************************************************)
(* A request that falls into no hole                                       *)
(***************************************************************************)

\* Painting a plain element says nothing of the surfaces' requests.
SameSurfaces(l) ==
  /\ l \in Ledgers
  /\ \A s \in Surface : /\ s \in l.now \cup l.next <=> s \in ledger.now \cup ledger.next
                        /\ l.gap[s] = ledger.gap[s]

LEMMA NoGap ==
  ASSUME NEW m \in Elem \ Roots, NEW l, GapOf(m, l) = "none"
  PROVE  /\ ~(RootOf(m) = Win /\ obscured)
         /\ ~(RootOf(m) = Overlay /\ pc = "overlay")
         /\ ~Stranded(m)
         /\ \A z \in Chain(m) : /\ ~FullRedraw(SurfaceOf[z])
                                /\ surface_state[SurfaceOf[z]] = "INVALID"
                                   /\ SurfaceOf[z] \in l.now \cup l.next
                                     => l.gap[SurfaceOf[z]] = "none"
<1>. DEFINE on    == {SurfaceOf[x] : x \in Chain(m)}
            stuck == {s \in on : /\ surface_state[s] = "INVALID"
                                 /\ s \in l.now \cup l.next /\ l.gap[s] # "none"}
<1>1. m # Win /\ m # Overlay
  BY DEF Roots
<1>2. GapOf(m, l) = IF RootOf(m) = Win /\ obscured THEN "obscured"
                    ELSE IF \E s \in on : FullRedraw(s) THEN "full_redraw"
                    ELSE IF RootOf(m) = Overlay /\ pc = "overlay" THEN "overlay"
                    ELSE IF stuck # {} THEN l.gap[CHOOSE s \in stuck : TRUE]
                    ELSE IF Stranded(m) THEN "stranded"
                    ELSE "none"
  BY <1>1 DEF GapOf
<1>3. stuck # {} => l.gap[CHOOSE s \in stuck : TRUE] # "none"
  OBVIOUS
<1>4. /\ ~(RootOf(m) = Win /\ obscured) /\ ~(RootOf(m) = Overlay /\ pc = "overlay")
      /\ ~Stranded(m) /\ stuck = {} /\ \A s \in on : ~FullRedraw(s)
  <2>. HIDE DEF on, stuck
  <2>. QED  BY <1>2, <1>3
<1>. QED  BY <1>4

LEMMA NoneLost ==
  ASSUME ServiceInv, attached, NEW m \in Elem \ Roots, NEW l, SameSurfaces(l), GapOf(m, l) = "none"
  PROVE  \A z \in Chain(m) : ~Lost(SurfaceOf[z])
<1>. SUFFICES ASSUME NEW z \in Chain(m), Lost(SurfaceOf[z]) PROVE FALSE
  OBVIOUS
<1>. DEFINE s == SurfaceOf[z]
<1>1. s = Win /\ pc \in Drawing /\ surface_state[s] = "INVALID" /\ ~FullRedraw(s) /\ s \in Surface
  BY NoGap, ChainFacts, LinkFacts DEF Lost
<1>2. s \in ledger.now \cup ledger.next /\ ledger.gap[s] # "none"
  BY <1>1 DEF ServiceInv, Asked
<1>3. s \in l.now \cup l.next /\ l.gap[s] # "none"
  BY <1>1, <1>2 DEF SameSurfaces
<1>. QED  BY <1>1, <1>3, NoGap

\* Where a new request for m is once mark_dirty has queued Marks(m).
Placed(m) ==
  \/ \A z \in Chain(m) : Linked(z) \/ Target[z] \in Marks(m)
  \/ \E x \in Chain(m) : /\ (InHand(x) /\ x # m) \/ Queued(x)
                         /\ \A z \in Chain(m) : x \in Above[z] => Linked(z)

\* A request joins one for a surface y around m, if what is between y and m is
\* linked.
LEMMA Joins ==
  ASSUME NEW m \in Elem \ Roots, NEW x \in Chain(m), NEW y \in Surface \ Roots,
         y = SurfaceOf[x], Carried(y) \/ Soon(y),
         Linked(x), \A z \in Chain(m) : x \in Above[z] => Linked(z)
  PROVE  Placed(m)
<1>1. /\ x \in Elem \ Roots /\ y \in Above[m] \cap Surface /\ y \in Above[x] /\ y \in Elem \ Roots
      /\ y \in Chain(m) /\ Chain(y) \subseteq Chain(m)
  BY ChainFacts, AboveFacts DEF Chain
<1>2. ASSUME NEW z \in Chain(m) PROVE z \in Chain(y) \/ Linked(z)
  <2>1. CASE z = x \/ x \in Above[z]
    BY <2>1
  <2>2. CASE z # x /\ z \in Above[x]
    <3>1. z \in Surface \ Roots
      <4>1. z # m
        BY <2>2, ChainFacts, AboveFacts
      <4>. QED  BY <4>1, ChainFacts
    <3>2. z \in {y} \cup Above[y]
      BY <1>1, <2>2, <3>1, SurfaceFacts
    <3>. QED  BY <3>1, <3>2 DEF Chain
  <2>3. z = x \/ x \in Above[z] \/ z \in Above[x]
    <3>1. CASE z = m \/ x = m
      BY <3>1, ChainFacts
    <3>2. CASE z # m /\ x # m
      BY <3>2, ChainFacts, Comparable
    <3>. QED  BY <3>1, <3>2
  <2>. QED  BY <2>1, <2>2, <2>3
<1>3. CASE Carried(y)
  BY <1>2, <1>3 DEF Carried, Placed
<1>4. CASE Soon(y)
  <2>1. PICK v \in Chain(y) : InHand(v) /\ \A z \in Chain(y) : v \in Above[z] => Linked(z)
    BY <1>4 DEF Soon
  <2>2. v # m
    BY <1>1, <2>1, ChainFacts, AboveFacts
  <2>. QED  BY <1>1, <1>2, <2>1, <2>2 DEF Placed
<1>. QED  BY <1>3, <1>4

LEMMA Found ==
  ASSUME ServiceInv, attached, NEW m \in Elem \ Roots, NEW l, SameSurfaces(l), GapOf(m, l) = "none"
  PROVE  Placed(m) /\ (dirty \/ SetsDirty(m) \/ pc \notin {"idle", "start"})
<1>1. \A z \in Chain(m) : /\ ~Lost(SurfaceOf[z])
                          /\ z \in Elem \ Roots /\ SurfaceOf[z] \in Surface
                          /\ SurfaceOf[z] \in Above[m] \cap Surface /\ SurfaceOf[z] \in Above[z]
                          /\ z = m \/ (z \in Surface /\ z \in Above[m])
  BY NoneLost, ChainFacts, LinkFacts
<1>2. \A z \in Chain(m) : surface_state[SurfaceOf[z]] = "INVALID" => Linked(z)
  BY <1>1 DEF Linked
<1>3. \A z \in Chain(m) : Visible(SurfaceOf[z])
  <2>. SUFFICES ASSUME NEW z \in Chain(m), SurfaceOf[z] = Win, obscured PROVE FALSE
    BY DEF Visible
  <2>1. RootOf(m) = Win
    BY <1>1, RootFound DEF Roots
  <2>. QED  BY <2>1, NoGap
<1>4. \A z \in Chain(m) : Blocked(z) => Linked(z)
  BY <1>2, <1>3 DEF Blocked, Linked
<1>5. CASE m \in Surface \/ ~Blocked(m)
  <2>1. \A z \in Chain(m) : Linked(z) \/ Target[z] \in Marks(m)
    BY <1>4, <1>5 DEF Marks
  <2>2. SetsDirty(m)
    BY <1>5 DEF SetsDirty
  <2>. QED  BY <2>1, <2>2 DEF Placed
<1>6. ASSUME NEW x \in Chain(m), surface_state[SurfaceOf[x]] = "INVALID",
             \A z \in Chain(m) : x \in Above[z] => Linked(z)
      PROVE  SurfaceOf[x] \in Awaited /\ (Placed(m) \/ SurfaceOf[x] \in Roots)
  <2>. DEFINE y == SurfaceOf[x]
  <2>1. ~FullRedraw(y) /\ y \in Surface /\ y \in Elem
    BY <1>1, <1>6, NoGap, AboveFacts
  <2>2. y \in ledger.now \cup ledger.next
    BY <1>6, <2>1 DEF ServiceInv, Asked
  <2>3. ledger.gap[y] = "none"
    BY <1>6, <2>1, <2>2, NoGap DEF SameSurfaces
  <2>4. y \in Awaited
    BY <2>2, <2>3 DEF Awaited, Honoured
  <2>5. y \notin Roots => Carried(y) \/ Soon(y)
    BY <2>4 DEF ServiceInv, Kept
  <2>6. Linked(x)
    BY <1>2, <1>6
  <2>. QED  BY <1>6, <2>1, <2>4, <2>5, <2>6, Joins
\* The element's surface is INVALID.
<1>7. CASE m \notin Surface /\ surface_state[SurfaceOf[m]] = "INVALID"
  <2>1. \A z \in Chain(m) : m \notin Above[z]
    BY <1>1, AboveFacts
  <2>2. m \in Chain(m)
    BY ChainFacts
  <2>3. SurfaceOf[m] \in Awaited /\ (Placed(m) \/ SurfaceOf[m] \in Roots)
    BY <1>6, <1>7, <2>1, <2>2
  <2>4. pc \in {"idle", "start"} => dirty
    BY <2>3 DEF ServiceInv, Kept
  <2>5. ASSUME SurfaceOf[m] \in Roots PROVE Placed(m)
    <3>1. \A z \in Chain(m) : z = m
      <4>. SUFFICES ASSUME NEW z \in Chain(m), z # m PROVE FALSE
        OBVIOUS
      <4>1. z \in Above[m] \cap Surface /\ z \notin Roots
        BY <1>1
      <4>. QED  BY <2>5, <4>1, SurfaceFacts, AboveFacts
    <3>. QED  BY <1>2, <1>7, <2>2, <3>1 DEF Placed
  <2>. QED  BY <2>3, <2>4, <2>5
\* The element's target is queued already.
<1>8. CASE m \notin Surface /\ Target[m] \in render_entry
  <2>1. dirty /\ \A z \in Chain(m) \ {m} : Reached(z)
    BY <1>8, NoGap DEF Stranded
  <2>2. Linked(m) /\ m \in Chain(m) /\ m \in Elem
    BY <1>8, ChainFacts DEF Linked
  <2>. DEFINE open == {i \in DOMAIN stack : stack[i].surf \in Above[m]}
  <2>3. /\ DOMAIN stack \subseteq Nat
        /\ \A i \in DOMAIN stack : stack[i] \in ToSet(stack)
        /\ \A i \in DOMAIN stack : \A j \in DOMAIN stack : i < j => stack[j].surf \in Above[stack[i].surf]
        /\ \A i \in DOMAIN stack : stack[i].todo \subseteq Inside(stack[i].surf)
        /\ \A i \in DOMAIN stack : stack[i].surf \in Surface
    <3>1. DOMAIN stack = 1 .. Len(stack) /\ Len(stack) \in Nat
      BY LenProperties DEF ServiceInv, RedrawInv, TypeOK
    <3>2. \A i \in DOMAIN stack : stack[i].surf \in Surface
      BY CallsTyped DEF ServiceInv, RedrawInv
    <3>. QED  BY <3>1, <3>2 DEF ServiceInv, RedrawInv, StackNested, ToSet
  <2>4. \A z \in Chain(m) \ {m} : in_redraw[z] => \E i \in open : stack[i].surf = z
    <3>1. \A s \in Surface : in_redraw[s] => \E i \in DOMAIN stack : stack[i].surf = s
      BY DEF ServiceInv, RedrawInv, RedrawBracketed
    <3>. QED  BY <1>1, <3>1
  <2>5. \A z \in Chain(m), i \in DOMAIN stack :
          z \in stack[i].todo => stack[i].surf = SurfaceOf[z] /\ i \in open
    BY <1>1, <2>3 DEF Inside
  <2>6. \A z \in Chain(m) \ {m} : \/ \E i \in open : stack[i].surf = z
                                  \/ \E i \in open : stack[i].surf = SurfaceOf[z] /\ z \in stack[i].todo
                                  \/ Linked(z)
    BY <1>2, <2>1, <2>4, <2>5 DEF Reached, Linked
  <2>7. CASE open = {}
    BY <2>1, <2>2, <2>6, <2>7 DEF Placed
  <2>8. CASE open # {}
    <3>1. PICK i \in open : \A j \in open : i <= j
      <4>1. open \in SUBSET Nat
        BY <2>3
      <4>. HIDE DEF open
      <4>. QED  BY <2>8, <4>1, NatMin
    <3>. DEFINE y == stack[i].surf
    <3>2. /\ y \in Above[m] \cap Surface /\ i \in DOMAIN stack /\ stack[i] \in ToSet(stack) /\ y \in Elem
          /\ \A j \in open : stack[j].surf = y \/ stack[j].surf \in Above[y]
      <4>1. \A j \in open : j \in DOMAIN stack /\ j \in Nat /\ i \in Nat /\ (j = i \/ i < j)
        BY <2>3, <3>1
      <4>. QED  BY <2>3, <3>1, <4>1, AboveFacts
    <3>3. PICK x \in Chain(m) : SurfaceOf[x] = y
      BY <3>2, ChainStep
    <3>. HIDE DEF open, y
    <3>4. x \in Elem \ Roots /\ y \in Above[x] /\ Above[x] \subseteq Above[m] \cup {m} /\ ~Lost(y)
      BY <1>1, <3>3, AboveFacts
    <3>5. \A j \in open : stack[j].surf # x
      BY <3>2, <3>4, AboveFacts
    <3>6. ASSUME NEW z \in Chain(m), x \in Above[z] PROVE Linked(z)
      <4>1. CASE z = m
        BY <2>2, <4>1
      <4>2. CASE z # m
        <5>1. z \in Elem \ Roots /\ y \in Above[z] /\ x \in Surface \ Roots
          BY <1>1, <3>4, <3>6, AboveFacts
        <5>2. \A j \in open : stack[j].surf # z
          BY <3>2, <5>1, AboveFacts
        <5>3. \A j \in open : stack[j].surf # SurfaceOf[z]
          BY <3>2, <3>3, <3>6, <5>1, OtherSurface, AboveFacts
        <5>. QED  BY <2>6, <4>2, <5>2, <5>3
      <4>. QED  BY <4>1, <4>2
    <3>7. CASE \E j \in open : stack[j].surf = SurfaceOf[x] /\ x \in stack[j].todo /\ x # m
      <4>1. PICK j \in open : stack[j].surf = SurfaceOf[x] /\ x \in stack[j].todo /\ x # m
        BY <3>7
      <4>2. stack[j] \in ToSet(stack)
        BY <2>3 DEF open
      <4>3. InHand(x) /\ x # m
        BY <4>1, <4>2 DEF InHand
      <4>. QED  BY <2>1, <3>6, <4>3 DEF Placed
    <3>8. CASE Linked(x)
      <4>1. CASE Queued(x)
        BY <2>1, <3>6, <4>1 DEF Placed
      <4>2. CASE Target[x] \in ToSet(next_queue[y])
        <5>1. CASE y \in Roots
          <6>1. \A z \in Chain(m) : z = x \/ x \in Above[z]
            <7>. SUFFICES ASSUME NEW z \in Chain(m), z # x, x \notin Above[z] PROVE FALSE
              OBVIOUS
            <7>1. z # m => z \in Above[m] \cap Surface /\ z \notin Roots
              BY <1>1
            <7>2. z \in Above[x]
              <8>1. CASE z = m \/ x = m
                BY <1>1, <8>1
              <8>2. CASE z # m /\ x # m
                BY <1>1, <8>2, Comparable
              <8>. QED  BY <8>1, <8>2
            <7>3. z # m
              BY <1>1, <7>2, AboveFacts
            <7>. QED  BY <3>3, <3>4, <5>1, <7>1, <7>2, <7>3, SurfaceFacts, AboveFacts
          <6>. QED  BY <2>1, <3>6, <3>8, <6>1 DEF Placed
        <5>2. CASE y \notin Roots
          <6>1. next_queue[y] # <<>>
            BY <4>2, EmptyFacts
          <6>2. \A w \in Chain(y) : Linked(w) \/ Lost(SurfaceOf[w])
            BY <3>2, <5>2, <6>1 DEF ServiceInv, Deferred
          <6>3. Chain(y) \subseteq Chain(m)
            BY <3>2, <5>2, ChainFacts DEF Chain
          <6>4. Carried(y)
            BY <1>1, <6>2, <6>3 DEF Carried
          <6>. QED  BY <2>1, <3>2, <3>3, <3>6, <3>8, <5>2, <6>4, Joins
        <5>. QED  BY <5>1, <5>2
      <4>3. CASE Target[x] \in ToSet(render_queue[y])
        <5>1. ~stack[i].full
          BY <3>2, <3>4, FullFacts DEF y, Lost
        <5>2. Queued(x)
          BY <3>2, <3>3, <4>3, <5>1 DEF Queued, y
        <5>. QED  BY <4>1, <5>2
      <4>4. CASE surface_state[y] = "INVALID"
        <5>1. Placed(m) \/ y \in Roots
          BY <1>6, <3>3, <3>6, <4>4
        <5>2. y \notin Roots
          <6>. SUFFICES ASSUME y \in Roots PROVE FALSE
            OBVIOUS
          <6>1. pc \in {"window", "overlay"}
            BY <3>2, CallsFacts DEF ServiceInv
          <6>2. RootOf(y) = IF pc = "window" THEN Win ELSE Overlay
            BY <3>2 DEF ServiceInv, OnOneTree, y
          <6>3. RootOf(y) = y /\ RootOf(m) = y
            BY <3>2, RootOfRoot, SameRoot
          <6>4. pc = "window" /\ y = Win
            BY <6>1, <6>2, <6>3, NoGap
          <6>. QED  BY <3>4, <4>4, <6>4 DEF Lost, Drawing
        <5>. QED  BY <2>1, <5>1, <5>2
      <4>5. Target[x] \in render_entry => Target[x] \in ToSet(render_queue[y]) \cup ToSet(next_queue[y])
        BY <3>3, <3>4, QueueFacts DEF ServiceInv
      <4>. QED  BY <3>3, <3>8, <4>2, <4>3, <4>4, <4>5 DEF Linked
    <3>. QED  BY <2>2, <2>6, <3>5, <3>7, <3>8
  <2>. QED  BY <2>7, <2>8
<1>9. CASE m \notin Surface /\ Blocked(m)
  BY <1>3, <1>7, <1>8, <1>9, ChainFacts DEF Blocked
<1>. QED  BY <1>5, <1>9

-------------------------------------------------------------------------------
(***************************************************************************)
(* What a step must keep                                                   *)
(***************************************************************************)

\* A step may only add to what is on its way, and finish one plain element d.
LEMMA KeepAll ==
  ASSUME NEW e \in Elem \ Roots, NEW d, e # d, d \notin Surface \ Roots,
         \A z \in Elem \ Roots : Linked(z) => Linked(z)',
         \A x \in Elem \ Roots : InHand(x) /\ x # d => InHand(x)'
  PROVE  /\ Soon(e) => Soon(e)'
         /\ Carried(e) => Carried(e)'
<1>1. /\ Chain(e) \subseteq Elem \ Roots
      /\ \A x \in Chain(e) : x # d
  BY ChainFacts
<1>2. ASSUME Soon(e) PROVE Soon(e)'
  <2>1. PICK x \in Chain(e) : InHand(x) /\ \A z \in Chain(e) : x \in Above[z] => Linked(z)
    BY <1>2 DEF Soon
  <2>2. InHand(x)' /\ \A z \in Chain(e) : x \in Above[z] => Linked(z)'
    BY <1>1, <2>1
  <2>. QED  BY <2>2 DEF Soon
<1>3. ASSUME Carried(e) PROVE Carried(e)'
  BY <1>1, <1>3 DEF Carried
<1>. QED  BY <1>2, <1>3

\* Once its elements are queued, a request that is placed is on its way.
LEMMA PlacedIsKept ==
  ASSUME NEW m \in Elem \ Roots, Placed(m), NEW d, d \notin Surface \ Roots,
         \A z \in Elem \ Roots : Linked(z) \/ Target[z] \in Marks(m) => Linked(z)',
         \A x \in Elem \ Roots : InHand(x) /\ x # d => InHand(x)',
         \A x \in Elem \ Roots : Queued(x) => InHand(x)'
  PROVE  Carried(m)' \/ Soon(m)'
<1>1. /\ Chain(m) \subseteq Elem \ Roots
      /\ \A x \in Chain(m) : x # m => x # d
  BY ChainFacts
<1>2. CASE \A z \in Chain(m) : Linked(z) \/ Target[z] \in Marks(m)
  BY <1>1, <1>2 DEF Carried
<1>3. ASSUME NEW x \in Chain(m), (InHand(x) /\ x # m) \/ Queued(x),
             \A z \in Chain(m) : x \in Above[z] => Linked(z)
      PROVE  Soon(m)'
  <2>1. InHand(x)' /\ \A z \in Chain(m) : x \in Above[z] => Linked(z)'
    BY <1>1, <1>3
  <2>. QED  BY <2>1 DEF Soon
<1>. QED  BY <1>2, <1>3 DEF Placed

\* With no call running, nothing is in hand, put off or lost to a full redraw.
LEMMA EmptyStack ==
  ASSUME RedrawInv, stack = <<>>
  PROVE  /\ \A x : ~InHand(x)
         /\ \A e : ~Soon(e)
         /\ \A s : ~FullRedraw(s)
         /\ \A s \in Surface : ~in_redraw[s] /\ next_queue[s] = <<>>
<1>1. ToSet(stack) = {}
  BY EmptyFacts
<1>2. \A x : ~InHand(x)
  BY <1>1 DEF InHand
<1>3. \A e : ~Soon(e)
  BY <1>2 DEF Soon
<1>4. \A s \in Surface : ~in_redraw[s] /\ next_queue[s] = <<>>
  BY <1>1, CallsFacts DEF RedrawInv, RedrawBracketed
<1>. QED  BY <1>1, <1>2, <1>3, <1>4, FullFacts

\* A root that is opened takes in hand every request carried to it.
LEMMA RootOpened ==
  ASSUME NEW r \in Roots, NEW e \in Elem \ Roots, RootOf(e) = r, Carried(e),
         \A z \in Elem \ Roots : Linked(z) /\ SurfaceOf[z] # r => Linked(z)',
         \A z \in Elem \ Roots : Linked(z) /\ SurfaceOf[z] = r => InHand(z)'
  PROVE  Soon(e)'
<1>1. r \in Above[e] \cap Surface
  BY RootFound, AboveFacts
<1>2. PICK x \in Chain(e) : SurfaceOf[x] = r
  BY <1>1, ChainStep
<1>3. x \in Elem \ Roots /\ InHand(x)'
  BY <1>2, ChainFacts DEF Carried
<1>4. ASSUME NEW z \in Chain(e), x \in Above[z] PROVE Linked(z)'
  <2>1. z \in Elem \ Roots /\ Linked(z) /\ x \in Surface
    BY <1>2, <1>4, ChainFacts, AboveFacts DEF Carried
  <2>2. SurfaceOf[z] # r
    BY <1>2, <1>3, <1>4, <2>1, OtherSurface
  <2>. QED  BY <2>1, <2>2
<1>. QED  BY <1>3, <1>4 DEF Soon

\* A surface being drawn is not inside the innermost one.
LEMMA InnermostFacts ==
  ASSUME RedrawInv, stack # <<>>, NEW c \in ToSet(stack)
  PROVE  /\ c.surf = Head(stack).surf \/ c.surf \in Above[Head(stack).surf]
         /\ Head(stack).surf \notin Above[c.surf]
         /\ Head(stack).surf \in Surface /\ c.surf \in Surface
<1>1. /\ Head(stack) = stack[1] /\ 1 \in DOMAIN stack /\ DOMAIN stack = 1 .. Len(stack)
      /\ Len(stack) \in Nat
  BY PopFacts DEF RedrawInv, TypeOK
<1>2. PICK i \in DOMAIN stack : c = stack[i]
  BY DEF ToSet
<1>3. i = 1 \/ 1 < i
  BY <1>1
<1>4. c.surf = Head(stack).surf \/ c.surf \in Above[Head(stack).surf]
  BY <1>1, <1>2, <1>3 DEF RedrawInv, StackNested
<1>5. c.surf \in Surface /\ Head(stack).surf \in Surface
  BY <1>1, <1>2, CallsTyped DEF RedrawInv
<1>. QED  BY <1>4, <1>5, AboveFacts

\* A surface that puts requests off is open, and so is all that is around it.
LEMMA DeferringFacts ==
  ASSUME RedrawInv, OnOneTree, NEW y \in Surface, next_queue[y] # <<>>
  PROVE  /\ in_redraw[y] /\ stack # <<>> /\ pc \in {"window", "overlay"}
         /\ \A s \in Above[y] \cap Surface : in_redraw[s] /\ s # Head(stack).surf
<1>1. in_redraw[y]
  BY DEF RedrawInv, RedrawBracketed
<1>2. PICK c \in ToSet(stack) : c.surf = y
  BY <1>1, CallsFacts
<1>3. stack # <<>> /\ pc \in {"window", "overlay"}
  BY <1>2, CallsFacts, EmptyFacts
<1>. QED  BY <1>1, <1>2, <1>3, InnermostFacts DEF OnOneTree

-------------------------------------------------------------------------------
(***************************************************************************)
(* Requests                                                                *)
(***************************************************************************)

\* What is in the ledger after a request was there before, or was asked for.
LEMMA AskOutcome ==
  ASSUME NEW l \in Ledgers, NEW E \in SUBSET Elem, NEW r, ledger' = Ask(l, E, r)
  PROVE  /\ ledger'.now \cup ledger'.next = l.now \cup l.next \cup E
         /\ pc \notin Drawing /\ l.next = {} => ledger'.next = {}
         /\ \A e \in Elem :
              \/ /\ e \in ledger'.now => e \in l.now
                 /\ e \in E => e \in l.now \cup l.next
                 /\ ledger'.gap[e] = l.gap[e]
                 /\ e \in E /\ l.gap[e] # "none" => r[e] # "none"
              \/ /\ e \in E /\ ledger'.gap[e] = r[e]
                 /\ pc \in Drawing => e \notin ledger'.now
<1>. DEFINE fresh == {e \in E : \/ e \notin l.now \cup l.next
                                \/ l.gap[e] # "none" /\ r[e] = "none"}
<1>1. /\ ledger'.now = IF pc \in Drawing THEN l.now \ fresh ELSE l.now \cup fresh
      /\ ledger'.next = IF pc \in Drawing THEN l.next \cup fresh ELSE l.next \ fresh
      /\ \A e \in Elem : ledger'.gap[e] = IF e \in fresh THEN r[e] ELSE l.gap[e]
  BY DEF Ask
<1>. QED  BY <1>1

\* Ledger l is that of the state, with at most a plain element d struck off.
Inherits(l, d) ==
  /\ SameSurfaces(l)
  /\ d \notin Surface \ Roots
  /\ l.now \subseteq ledger.now /\ l.next \subseteq ledger.next
  /\ \A e \in l.now \cup l.next : /\ l.gap[e] = ledger.gap[e]
                                  /\ e \notin Roots => e # d

\* A step that adds the elements of T to what is on its way, and that may
\* finish d.
Adds(T, d) ==
  /\ pc' = pc /\ attached' = attached /\ obscured' = obscured /\ in_redraw' = in_redraw
  /\ \A s : FullRedraw(s)' <=> FullRedraw(s)
  /\ \A s \in Surface : surface_state[s] = "INVALID" => surface_state'[s] = "INVALID"
  /\ \A z \in Elem \ Roots : Linked(z) \/ Target[z] \in T => Linked(z)'
  /\ \A x \in Elem \ Roots : InHand(x) /\ x # d => InHand(x)'
  /\ \A x \in Elem \ Roots : Queued(x) => InHand(x)'
  /\ \A c \in ToSet(stack') : \E b \in ToSet(stack) : b.surf = c.surf

LEMMA RequestServes ==
  ASSUME ServiceInv, NEW T, NEW d, NEW l, Inherits(l, d), Adds(T, d),
         NEW E \in SUBSET Elem, NEW r, ledger' = Ask(l, E, r), dirty => dirty',
         \A e \in E \ Roots : r[e] = "none" => /\ Carried(e)' \/ Soon(e)'
                                               /\ ~(RootOf(e) = Overlay /\ pc = "overlay"),
         \A e \in E : r[e] = "none" /\ pc \in {"idle", "start"} => dirty',
         Win \in E /\ r[Win] = "none" => pc \in {"idle", "start"},
         Overlay \in E /\ r[Overlay] = "none" => pc # "overlay",
         \A s \in Surface : surface_state'[s] = "INVALID" => surface_state[s] = "INVALID" \/ s \in E
  PROVE  OnOneTree' /\ Framed' /\ Asked' /\ Kept'
<1>0. /\ pc \in Phase /\ l \in Ledgers /\ Win \in Elem /\ Overlay \in Elem
      /\ pc \notin {"idle", "start"} => pc \in Drawing
      /\ pc \in {"idle", "start"} => pc \notin Drawing
  BY TreeAssumption DEF ServiceInv, RedrawInv, TypeOK, Inherits, SameSurfaces, Phase, Drawing
<1>1. /\ ledger'.now \cup ledger'.next = l.now \cup l.next \cup E
      /\ pc \notin Drawing /\ l.next = {} => ledger'.next = {}
      /\ \A e \in Elem :
           \/ /\ e \in ledger'.now => e \in l.now
              /\ e \in E => e \in l.now \cup l.next
              /\ ledger'.gap[e] = l.gap[e]
              /\ e \in E /\ l.gap[e] # "none" => r[e] # "none"
           \/ /\ e \in E /\ ledger'.gap[e] = r[e]
              /\ pc \in Drawing => e \notin ledger'.now
  BY <1>0, AskOutcome
<1>2. OnOneTree'
  BY DEF OnOneTree, Adds, ServiceInv
<1>3. Framed'
  BY <1>0, <1>1 DEF Framed, Adds, ServiceInv, Inherits
<1>4. /\ Awaited = {e \in ledger.now \cup ledger.next : ledger.gap[e] = "none"}
      /\ Awaited' = {e \in ledger'.now \cup ledger'.next : ledger'.gap[e] = "none"}
  BY DEF Awaited, Honoured
\* A request honoured now was honoured before, or is one of those made now.
<1>5. ASSUME NEW e \in Awaited'
      PROVE  /\ e \in Elem
             /\ \/ e \in Awaited /\ (e \in ledger'.now => e \in ledger.now) /\ (e \notin Roots => e # d)
                \/ e \in E /\ r[e] = "none" /\ (pc \in Drawing => e \notin ledger'.now)
  <2>1. e \in l.now \cup l.next \cup E /\ ledger'.gap[e] = "none" /\ e \in Elem
    BY <1>0, <1>1, <1>4 DEF Ledgers
  <2>2. CASE /\ e \in ledger'.now => e \in l.now
             /\ e \in E => e \in l.now \cup l.next
             /\ ledger'.gap[e] = l.gap[e]
    BY <1>4, <2>1, <2>2 DEF Inherits
  <2>3. CASE /\ e \in E /\ ledger'.gap[e] = r[e]
             /\ pc \in Drawing => e \notin ledger'.now
    BY <2>1, <2>3
  <2>. QED  BY <1>1, <2>1, <2>2, <2>3
<1>6. pc' = pc
  BY DEF Adds
<1>7. pc \in {"idle", "start"} /\ Awaited' # {} => dirty'
  BY <1>5 DEF ServiceInv, Kept
<1>8. Win \in Awaited' => pc \in {"idle", "start"}
  BY <1>5 DEF ServiceInv, Kept
<1>9. Overlay \in Awaited' => pc # "overlay"
  BY <1>5 DEF ServiceInv, Kept
<1>10. ASSUME NEW e \in Awaited' \ Roots
       PROVE  /\ Carried(e)' \/ Soon(e)'
              /\ RootOf(e) = Win /\ e \in ledger'.now =>
                   pc \notin {"end", "overlay"} /\ (pc = "window" => Soon(e)')
              /\ RootOf(e) = Overlay /\ pc = "overlay" => Soon(e)'
  <2>1. CASE e \in Awaited /\ (e \in ledger'.now => e \in ledger.now) /\ e # d
    <3>1. /\ Soon(e) => Soon(e)'
          /\ Carried(e) => Carried(e)'
      BY <1>5, <1>10, <2>1, KeepAll DEF Adds, Inherits
    <3>. QED  BY <1>10, <2>1, <3>1 DEF ServiceInv, Kept
  <2>2. CASE e \in E /\ r[e] = "none" /\ (pc \in Drawing => e \notin ledger'.now)
    BY <1>10, <2>2 DEF Drawing
  <2>. QED  BY <1>5, <1>10, <2>1, <2>2
<1>11. Kept'
  BY <1>6, <1>7, <1>8, <1>9, <1>10 DEF Kept
<1>12. Asked'
  <2>1. ASSUME attached, NEW s \in Surface, surface_state'[s] = "INVALID", ~FullRedraw(s)
        PROVE  /\ s \in ledger'.now \cup ledger'.next
               /\ s = Win /\ pc \in Drawing => ledger'.gap[s] # "none"
    <3>1. s \in ledger'.now \cup ledger'.next
      BY <1>1, <2>1 DEF ServiceInv, Asked, Inherits, SameSurfaces
    <3>2. s = Win /\ pc \in Drawing => s \notin Awaited'
      BY <1>0, <1>8
    <3>. QED  BY <1>4, <3>1, <3>2
  <2>. QED  BY <2>1 DEF Asked, Adds
<1>. QED  BY <1>2, <1>3, <1>11, <1>12

\* What is put off to the next frame is put off together with what carries it
\* there.
LEMMA RequestDefers ==
  ASSUME ServiceInv, NEW m \in Elem, NEW d, Adds(Marks(m), d), Enqueue(Marks(m))
  PROVE  Deferred'
<1>. SUFFICES ASSUME NEW y \in Surface \ Roots, next_queue'[y] # <<>>, NEW w \in Chain(y)
              PROVE  Linked(w)' \/ Lost(SurfaceOf[w])'
  BY DEF Deferred
<1>1. /\ y \in Elem \ Roots /\ w \in Elem \ Roots /\ SurfaceOf[w] \in Surface
      /\ SurfaceOf[w] \in Above[y] \cap Surface
  BY AboveFacts, ChainFacts, LinkFacts
<1>2. Linked(w) \/ Lost(SurfaceOf[w]) => Linked(w)' \/ Lost(SurfaceOf[w])'
  BY <1>1, TreeAssumption DEF Adds, Lost
<1>3. CASE next_queue[y] # <<>>
  BY <1>2, <1>3 DEF ServiceInv, Deferred
<1>4. CASE next_queue[y] = <<>>
  <2>1. Marks(m) \in SUBSET (Elem \ Roots)
    BY MarksFacts
  <2>2. in_redraw[y] /\ Marks(m) \cap Inside(y) # {}
    <3>1. /\ ~in_redraw[y] => next_queue'[y] = next_queue[y]
          /\ in_redraw[y] => ToSet(next_queue'[y]) = ToSet(next_queue[y]) \cup (Marks(m) \cap Inside(y))
          /\ next_queue'[y] \in Seq(Elem)
      BY <2>1, EnqueueFacts DEF ServiceInv, RedrawInv, TypeOK
    <3>2. in_redraw[y] /\ ToSet(next_queue'[y]) # {}
      BY <1>4, <3>1, TailFacts
    <3>. QED  BY <1>4, <3>1, <3>2, EmptyFacts
  <2>3. ~(m \notin Surface /\ Blocked(m)) /\ Marks(m) = {Target[x] : x \in {v \in Chain(m) : ~Blocked(v)}}
    BY <2>2 DEF Marks
  <2>4. PICK x \in Chain(m) : Target[x] \in Inside(y)
    BY <2>2, <2>3
  <2>5. m \in Elem \ Roots
    BY <2>4, AboveFacts DEF Chain
  <2>6. SurfaceOf[x] = y /\ y \in Above[m]
    <3>1. x \in Elem \ Roots /\ SurfaceOf[x] \in Above[m]
      BY <2>4, <2>5, ChainFacts
    <3>2. SurfaceOf[x] = y
      BY <2>4, <3>1, TargetFacts DEF Inside
    <3>. QED  BY <3>1, <3>2
  <2>7. w \in Chain(m)
    BY <2>5, <2>6, AboveFacts DEF Chain
  <2>8. ~obscured
    <3>1. stack # <<>>
      BY <2>2, EmptyStack DEF ServiceInv
    <3>. QED  BY <3>1 DEF ServiceInv, RedrawInv, RedrawBracketed, Framed
  <2>9. CASE ~Blocked(w)
    BY <1>1, <2>3, <2>7, <2>9 DEF Adds
  <2>10. CASE Blocked(w)
    BY <1>2, <2>8, <2>10 DEF Blocked, Visible, Linked
  <2>. QED  BY <2>9, <2>10
<1>. QED  BY <1>3, <1>4

LEMMA MarkDirtyServes ==
  ASSUME ServiceInv, attached, NEW m \in Elem, NEW d, NEW l, Inherits(l, d),
         Adds(Marks(m), d), MarkDirty(m, l)
  PROVE  (OnOneTree /\ Framed /\ Asked /\ Deferred /\ Kept)'
<1>. DEFINE r == [x \in {m} |-> GapOf(m, l)]
<1>1. /\ Enqueue(Marks(m)) /\ ledger' = Ask(l, {m}, r) /\ r[m] = GapOf(m, l)
      /\ dirty' = (dirty \/ SetsDirty(m)) /\ surface_state' = surface_state
  BY DEF MarkDirty
<1>. HIDE DEF r
<1>2. Deferred'
  BY <1>1, RequestDefers
<1>3. ASSUME m \notin Roots, r[m] = "none"
      PROVE  /\ Carried(m)' \/ Soon(m)'
             /\ ~(RootOf(m) = Overlay /\ pc = "overlay")
             /\ pc \in {"idle", "start"} => dirty'
  <2>1. Placed(m) /\ (dirty \/ SetsDirty(m) \/ pc \notin {"idle", "start"})
    BY <1>1, <1>3, Found DEF Inherits
  <2>2. ~(RootOf(m) = Overlay /\ pc = "overlay")
    BY <1>1, <1>3, NoGap
  <2>3. Carried(m)' \/ Soon(m)'
    BY <1>3, <2>1, PlacedIsKept DEF Adds, Inherits
  <2>. QED  BY <1>1, <2>1, <2>2, <2>3
<1>4. m \in Roots => dirty'
  BY <1>1, AboveFacts DEF SetsDirty
<1>5. pc \in {"idle", "start"} <=> pc \notin Drawing
  BY DEF ServiceInv, RedrawInv, TypeOK, Phase, Drawing
<1>6. /\ m = Win /\ r[m] = "none" => pc \in {"idle", "start"}
      /\ m = Overlay /\ r[m] = "none" => pc # "overlay"
  BY <1>1, <1>5, TreeAssumption DEF GapOf
<1>7. OnOneTree' /\ Framed' /\ Asked' /\ Kept'
  <2>1. {m} \in SUBSET Elem /\ ledger' = Ask(l, {m}, r) /\ (dirty => dirty')
    BY <1>1
  <2>2. /\ \A e \in {m} \ Roots : r[e] = "none" => /\ Carried(e)' \/ Soon(e)'
                                                   /\ ~(RootOf(e) = Overlay /\ pc = "overlay")
        /\ \A e \in {m} : r[e] = "none" /\ pc \in {"idle", "start"} => dirty'
    BY <1>3, <1>4
  <2>3. /\ Win \in {m} /\ r[Win] = "none" => pc \in {"idle", "start"}
        /\ Overlay \in {m} /\ r[Overlay] = "none" => pc # "overlay"
    BY <1>6
  <2>4. \A s \in Surface : surface_state'[s] = "INVALID" => surface_state[s] = "INVALID" \/ s \in {m}
    BY <1>1
  <2>. QED  BY <2>1, <2>2, <2>3, <2>4, RequestServes
<1>. QED  BY <1>2, <1>7

LEMMA SurfaceInvalidateServes ==
  ASSUME ServiceInv, attached, NEW s \in Surface, NEW d, NEW l, Inherits(l, d),
         Adds(Marks(s), d), SurfaceInvalidate(s, l)
  PROVE  (OnOneTree /\ Framed /\ Asked /\ Deferred /\ Kept)'
<1>. DEFINE own == GapOf(s, l)
            inner == IF own = "none" /\ FullRedraw(s) THEN "full_redraw" ELSE own
            hit == {s} \cup Inside(s)
            r == [x \in hit |-> IF x = s THEN own ELSE inner]
<1>0. s \in Elem /\ hit \in SUBSET Elem /\ s \notin Inside(s) /\ Inside(s) \subseteq Elem \ Roots
  <2>1. s \in Elem /\ Inside(s) \subseteq Elem \ Roots
    BY AboveFacts, InsideFacts
  <2>2. s \notin Inside(s)
    BY <2>1, LinkFacts, SurfaceFacts, AboveFacts DEF Inside
  <2>. QED  BY <2>1, <2>2
<1>1. /\ surface_state' = [surface_state EXCEPT ![s] = "INVALID"]
      /\ Enqueue(Marks(s)) /\ dirty' = TRUE /\ ledger' = Ask(l, hit, r)
  BY DEF SurfaceInvalidate
<1>2. /\ surface_state'[s] = "INVALID"
      /\ \A t \in Surface : t # s => surface_state'[t] = surface_state[t]
  BY <1>1 DEF ServiceInv, RedrawInv, TypeOK
<1>3. /\ r[s] = own
      /\ \A e \in Inside(s) : r[e] = "none" => own = "none" /\ ~FullRedraw(s)
  BY <1>0
<1>. HIDE DEF r, inner, own
<1>4. Deferred'
  BY <1>0, <1>1, RequestDefers
<1>5. pc \in {"idle", "start"} <=> pc \notin Drawing
  BY DEF ServiceInv, RedrawInv, TypeOK, Phase, Drawing
<1>6. /\ s = Win /\ own = "none" => pc \in {"idle", "start"}
      /\ s = Overlay /\ own = "none" => pc # "overlay"
  BY <1>5, TreeAssumption DEF GapOf, own
<1>7. ASSUME s \notin Roots, own = "none"
      PROVE  /\ Carried(s)' \/ Soon(s)'
             /\ ~(RootOf(s) = Overlay /\ pc = "overlay")
  <2>1. Placed(s)
    BY <1>0, <1>7, Found DEF Inherits, own
  <2>2. ~(RootOf(s) = Overlay /\ pc = "overlay")
    BY <1>0, <1>7, NoGap DEF own
  <2>. QED  BY <1>0, <1>7, <2>1, <2>2, PlacedIsKept DEF Adds, Inherits
\* What is drawn on s is carried as far as s, and from there with s.
<1>8. ASSUME NEW e \in Inside(s), r[e] = "none"
      PROVE  /\ Carried(e)' \/ Soon(e)'
             /\ ~(RootOf(e) = Overlay /\ pc = "overlay")
  <2>1. own = "none" /\ ~FullRedraw(s) /\ e \in Elem \ Roots /\ SurfaceOf[e] = s /\ s \in Above[e]
    BY <1>0, <1>3, <1>8, SurfaceFacts DEF Inside
  <2>2. ~(RootOf(e) = Overlay /\ pc = "overlay")
    <3>1. RootOf(e) = RootOf(s)
      BY <2>1, SameRoot
    <3>. QED  BY <1>6, <1>7, <2>1, <3>1, RootOfRoot DEF Roots
  <2>3. Linked(e)'
    <3>1. ~(s = Win /\ pc \in Drawing)
      BY <1>5, <1>6, <2>1
    <3>2. ~Lost(s)'
      BY <2>1, <3>1 DEF Lost, Adds
    <3>. QED  BY <1>2, <2>1, <3>2 DEF Linked
  <2>4. Chain(e) \subseteq {e} \cup Chain(s)
    <3>. SUFFICES ASSUME NEW z \in Chain(e), z # e PROVE z \in Chain(s)
      OBVIOUS
    <3>1. z \in Above[e] \cap Surface /\ z \notin Roots
      BY <2>1, ChainFacts
    <3>2. z = s \/ z \in Above[s]
      BY <2>1, <3>1, SurfaceFacts
    <3>. QED  BY <3>1, <3>2 DEF Chain
  <2>5. CASE s \in Roots
    <3>1. Chain(s) = {}
      BY <2>5, AboveFacts DEF Chain
    <3>. QED  BY <2>2, <2>3, <2>4, <3>1 DEF Carried
  <2>6. CASE s \notin Roots /\ Carried(s)'
    BY <2>2, <2>3, <2>4, <2>6 DEF Carried
  <2>7. CASE s \notin Roots /\ Soon(s)'
    <3>1. PICK x \in Chain(s) : InHand(x)' /\ \A z \in Chain(s) : x \in Above[z] => Linked(z)'
      BY <2>7 DEF Soon
    <3>2. x \in Chain(e) /\ \A z \in Chain(e) : x \in Above[z] => Linked(z)'
      BY <2>1, <2>3, <2>4, <3>1, AboveFacts DEF Chain
    <3>. QED  BY <2>2, <3>1, <3>2 DEF Soon
  <2>. QED  BY <1>7, <2>1, <2>5, <2>6, <2>7
<1>9. OnOneTree' /\ Framed' /\ Asked' /\ Kept'
  <2>1. \A e \in hit \ Roots : r[e] = "none" => /\ Carried(e)' \/ Soon(e)'
                                                /\ ~(RootOf(e) = Overlay /\ pc = "overlay")
    BY <1>3, <1>7, <1>8
  <2>2. \A t \in Roots : t \in hit => t = s
    BY <1>0
  <2>3. /\ Win \in hit /\ r[Win] = "none" => pc \in {"idle", "start"}
        /\ Overlay \in hit /\ r[Overlay] = "none" => pc # "overlay"
    BY <1>3, <1>6, <2>2 DEF Roots
  <2>4. \A t \in Surface : surface_state'[t] = "INVALID" => surface_state[t] = "INVALID" \/ t \in hit
    BY <1>2
  <2>. HIDE DEF hit
  <2>. QED  BY <1>0, <1>1, <2>1, <2>3, <2>4, RequestServes
<1>. QED  BY <1>4, <1>9

-------------------------------------------------------------------------------
(***************************************************************************)
(* The actions                                                             *)
(***************************************************************************)
AlsoKept == OnOneTree /\ Framed /\ Asked /\ Deferred /\ Kept

\* Between redraws nothing is drawn, so a request only adds.
LEMMA AppAdds ==
  ASSUME RedrawInv, NEW T \in SUBSET (Elem \ Roots), Enqueue(T),
         UNCHANGED <<window, in_redraw, pc, stack>>,
         \A s \in Surface : surface_state[s] = "INVALID" => surface_state'[s] = "INVALID"
  PROVE  Adds(T, Win)
<1>1. \A s : FullRedraw(s)' <=> FullRedraw(s)
  BY DEF FullRedraw
<1>2. /\ \A z \in Elem \ Roots : Linked(z) \/ Target[z] \in T => Linked(z)'
      /\ \A s \in Surface : ToSet(render_queue[s]) \subseteq ToSet(render_queue'[s])
  BY <1>1, RequestLinks
<1>3. \A x \in Elem \ Roots : InHand(x) => InHand(x)'
  BY <1>2, SameHand
<1>4. \A x : Queued(x) => InHand(x)
  BY DEF Queued, InHand
<1>5. pc' = pc /\ attached' = attached /\ obscured' = obscured /\ in_redraw' = in_redraw
  BY DEF window
<1>. QED  BY <1>1, <1>2, <1>3, <1>4, <1>5 DEF Adds

LEMMA OwnLedger ==
  ASSUME ServiceInv
  PROVE  Inherits(ledger, Win)
BY DEF Inherits, SameSurfaces, ServiceInv, RedrawInv, TypeOK, Ledgers, Roots

LEMMA AppMarkServes ==
  ASSUME ServiceInv, NEW e \in Elem, AppMark(e)
  PROVE  AlsoKept'
<1>1. /\ attached /\ MarkDirty(e, ledger) /\ UNCHANGED <<window, in_redraw, pc, stack>>
      /\ Enqueue(Marks(e)) /\ surface_state' = surface_state /\ Marks(e) \in SUBSET (Elem \ Roots)
  BY MarksFacts DEF AppMark, HandlersRun, MarkDirty
<1>2. Adds(Marks(e), Win)
  BY <1>1, AppAdds DEF ServiceInv
<1>. QED  BY <1>1, <1>2, OwnLedger, MarkDirtyServes DEF AlsoKept

LEMMA AppInvalidateServes ==
  ASSUME ServiceInv, NEW s \in Surface, AppInvalidate(s)
  PROVE  AlsoKept'
<1>1. /\ attached /\ SurfaceInvalidate(s, ledger) /\ UNCHANGED <<window, in_redraw, pc, stack>>
      /\ Enqueue(Marks(s)) /\ surface_state' = [surface_state EXCEPT ![s] = "INVALID"]
      /\ Marks(s) \in SUBSET (Elem \ Roots)
  BY MarksFacts, AboveFacts DEF AppInvalidate, HandlersRun, SurfaceInvalidate
<1>2. \A t \in Surface : surface_state[t] = "INVALID" => surface_state'[t] = "INVALID"
  BY <1>1 DEF ServiceInv, RedrawInv, TypeOK
<1>3. Adds(Marks(s), Win)
  BY <1>1, <1>2, AppAdds DEF ServiceInv
<1>. QED  BY <1>1, <1>3, OwnLedger, SurfaceInvalidateServes DEF AlsoKept

LEMMA StruckOff ==
  ASSUME ServiceInv, NEW d \in Elem \ Surface
  PROVE  Inherits(Paint(ledger, d), d)
<1>1. /\ Paint(ledger, d) \in Ledgers /\ ledger \in Ledgers
      /\ Paint(ledger, d).now = ledger.now \ {d}
      /\ Paint(ledger, d).next = ledger.next \ {d}
      /\ Paint(ledger, d).gap = [ledger.gap EXCEPT ![d] = "none"]
  BY PaintFacts DEF ServiceInv, RedrawInv, TypeOK, Ledgers, Paint
<1>2. \A e \in Elem : e # d => Paint(ledger, d).gap[e] = ledger.gap[e]
  BY <1>1 DEF Ledgers
<1>. QED  BY <1>1, <1>2, AboveFacts DEF Inherits, SameSurfaces, Ledgers

\* A draw callback adds to what is on its way, and its element is done.
LEMMA DrawElemAdds ==
  ASSUME ServiceInv, NEW d \in Elem, DrawElem(d)
  PROVE  /\ d \notin Surface /\ attached /\ pc \in {"window", "overlay"}
         /\ Adds({}, d)
         /\ \A m \in Elem : Enqueue(Marks(m)) => Adds(Marks(m), d)
<1>1. /\ d \notin Surface /\ Turn(d) /\ stack' = Drawn(d)
      /\ pc' = pc /\ attached' = attached /\ obscured' = obscured /\ in_redraw' = in_redraw
  BY DEF DrawElem, window
<1>2. pc \in {"window", "overlay"} /\ attached
  BY <1>1, TurnFacts DEF ServiceInv, Framed
<1>3. /\ \A s : FullRedraw(s)' <=> FullRedraw(s)
      /\ \A z \in Elem \ Roots : Linked(z) => Linked(z)'
      /\ \A x \in Elem \ Roots : InHand(x) /\ x # d => InHand(x)'
      /\ \A x \in Elem \ Roots : Queued(x) => InHand(x)'
  BY DrawElemLinks DEF ServiceInv
<1>4. \A s \in Surface : surface_state[s] = "INVALID" => surface_state'[s] = "INVALID"
  <2>1. \/ surface_state' = surface_state
        \/ \E s \in Surface : surface_state' = [surface_state EXCEPT ![s] = "INVALID"]
    BY CallbackAssumption DEF DrawElem, NoRequest, queues, MarkDirty, SurfaceInvalidate
  <2>. QED  BY <2>1 DEF ServiceInv, RedrawInv, TypeOK
<1>5. \A c \in ToSet(stack') : \E b \in ToSet(stack) : b.surf = c.surf
  <2>1. LET h == Head(stack)
            g == [h EXCEPT !.todo = @ \ {d}]
        IN  /\ ToSet(stack) = {h} \cup ToSet(Tail(stack))
            /\ ToSet(stack') = {g} \cup ToSet(Tail(stack))
            /\ g.surf = h.surf
    BY <1>1, DrawnCalls DEF ServiceInv
  <2>. QED  BY <2>1
<1>6. Adds({}, d)
  BY <1>1, <1>3, <1>4, <1>5 DEF Adds
<1>7. ASSUME NEW m \in Elem, Enqueue(Marks(m)) PROVE Adds(Marks(m), d)
  <2>1. \A z \in Elem \ Roots : Target[z] \in Marks(m) => Linked(z)'
    BY <1>7 DEF Enqueue, Linked
  <2>. QED  BY <1>1, <1>3, <1>4, <1>5, <2>1 DEF Adds
<1>. QED  BY <1>1, <1>2, <1>6, <1>7

LEMMA DrawElemServes ==
  ASSUME ServiceInv, NEW d \in Elem, DrawElem(d)
  PROVE  AlsoKept'
<1>. DEFINE l == Paint(ledger, d)
<1>1. Inherits(l, d) /\ d \notin Surface /\ attached /\ pc \in {"window", "overlay"}
  BY StruckOff, DrawElemAdds
<1>. HIDE DEF l
<1>2. CASE NoRequest(l)
  <2>1. /\ Adds({}, d) /\ ledger' = l /\ dirty' = dirty
        /\ next_queue' = next_queue /\ surface_state' = surface_state
    BY <1>2, DrawElemAdds DEF NoRequest, queues
  <2>2. OnOneTree' /\ Framed' /\ Asked' /\ Kept'
    <3>1. l = Ask(l, {}, <<>>)
      <4>1. l = [now |-> l.now, next |-> l.next, gap |-> [e \in Elem |-> l.gap[e]]]
        BY <1>1 DEF Inherits, SameSurfaces, Ledgers
      <4>. QED  BY <4>1 DEF Ask
    <3>2. ledger' = Ask(l, {}, <<>>) /\ {} \in SUBSET Elem
      BY <2>1, <3>1
    <3>. QED  BY <1>1, <2>1, <3>2, RequestServes
  <2>3. Deferred'
    <3>. SUFFICES ASSUME NEW y \in Surface \ Roots, next_queue[y] # <<>>, NEW w \in Chain(y)
                  PROVE  Linked(w)' \/ Lost(SurfaceOf[w])'
      BY <2>1 DEF Deferred
    <3>1. y \in Elem \ Roots /\ w \in Elem \ Roots
      BY AboveFacts, ChainFacts
    <3>2. Linked(w) \/ Lost(SurfaceOf[w])
      BY DEF ServiceInv, Deferred
    <3>. QED  BY <2>1, <3>1, <3>2, TreeAssumption DEF Adds, Lost
  <2>. QED  BY <2>2, <2>3 DEF AlsoKept
<1>3. ASSUME NEW m \in DrawMarks, MarkDirty(m, l) PROVE AlsoKept'
  <2>1. m \in Elem /\ Enqueue(Marks(m))
    BY <1>3, CallbackAssumption DEF MarkDirty
  <2>2. Adds(Marks(m), d)
    BY <2>1, DrawElemAdds
  <2>. QED  BY <1>1, <1>3, <2>1, <2>2, MarkDirtyServes DEF AlsoKept
<1>4. ASSUME NEW s \in DrawInvalidates, SurfaceInvalidate(s, l) PROVE AlsoKept'
  <2>1. s \in Surface /\ s \in Elem /\ Enqueue(Marks(s))
    BY <1>4, CallbackAssumption, AboveFacts DEF SurfaceInvalidate
  <2>2. Adds(Marks(s), d)
    BY <2>1, DrawElemAdds
  <2>. QED  BY <1>1, <1>4, <2>1, <2>2, SurfaceInvalidateServes DEF AlsoKept
<1>. QED  BY <1>2, <1>3, <1>4 DEF DrawElem, l

\* rtb_window_reinit asks for everything, and all surfaces are INVALID.
LEMMA ReinitServes ==
  ASSUME ServiceInv, Reinit
  PROVE  AlsoKept'
<1>1. /\ pc = "idle" /\ pc' = "idle" /\ stack = <<>> /\ stack' = <<>> /\ in_redraw' = in_redraw
      /\ attached' /\ dirty' /\ surface_state' = [s \in Surface |-> "INVALID"]
      /\ ledger' = [now |-> Elem, next |-> {}, gap |-> [e \in Elem |-> "none"]]
  BY DEF Reinit, ServiceInv, RedrawInv, RedrawBracketed
<1>2. ToSet(stack') = {} /\ \A s : ~FullRedraw(s)'
  BY <1>1, EmptyFacts, FullFacts DEF FullRedraw, ToSet
<1>3. \A z \in Elem \ Roots : Linked(z)'
  BY <1>1, <1>2, LinkFacts DEF Linked, Lost, Drawing
<1>4. \A e \in Elem \ Roots : Carried(e)'
  BY <1>3, ChainFacts DEF Carried
<1>5. OnOneTree' /\ Framed'
  BY <1>1, <1>2 DEF OnOneTree, Framed
<1>6. Asked'
  BY <1>1, AboveFacts DEF Asked, Drawing
<1>7. Deferred'
  <2>1. \A y \in Surface \ Roots : \A w \in Chain(y) : Linked(w)'
    BY <1>3, AboveFacts, ChainFacts
  <2>. QED  BY <2>1 DEF Deferred
<1>8. Kept'
  BY <1>1, <1>4 DEF Kept, Awaited, Honoured
<1>. QED  BY <1>5, <1>6, <1>7, <1>8 DEF AlsoKept

\* Steps that touch neither queues nor calls, outside of drawing.
LEMMA QuietServes ==
  ASSUME ServiceInv, UNCHANGED <<attached, queues, in_redraw, stack, ledger>>,
         pc \in {"idle", "start"}, pc' \in {"idle", "start"}, dirty => dirty',
         pc' # "idle" => attached /\ ~obscured'
  PROVE  AlsoKept'
<1>1. /\ surface_state' = surface_state /\ render_queue' = render_queue
      /\ next_queue' = next_queue /\ render_entry' = render_entry
      /\ stack = <<>> /\ stack' = <<>> /\ ledger' = ledger
  BY DEF queues, ServiceInv, RedrawInv, RedrawBracketed
<1>2. /\ \A s : FullRedraw(s)' <=> FullRedraw(s)
      /\ \A s \in Surface : ~FullRedraw(s) /\ next_queue[s] = <<>>
      /\ \A e : ~Soon(e)
      /\ ToSet(stack') = {}
  BY <1>1, EmptyStack, EmptyFacts DEF FullRedraw, ServiceInv
<1>3. \A z \in Elem \ Roots : Linked(z) => Linked(z)'
  BY <1>1, <1>2 DEF Linked, Lost, Drawing
<1>4. \A e \in Elem \ Roots : Carried(e) => Carried(e)'
  BY <1>3, ChainFacts DEF Carried
<1>5. Awaited' = Awaited /\ Awaited \subseteq Elem
  BY <1>1 DEF Awaited, Honoured, ServiceInv, RedrawInv, TypeOK
<1>6. OnOneTree' /\ Framed' /\ Deferred'
  BY <1>1, <1>2 DEF OnOneTree, Framed, Deferred, ServiceInv
<1>7. Asked'
  BY <1>1, <1>2 DEF Asked, ServiceInv, Drawing
<1>8. Kept'
  <2>1. \A e \in Awaited \ Roots : Carried(e)'
    BY <1>2, <1>4, <1>5 DEF ServiceInv, Kept
  <2>. QED  BY <1>1, <1>5, <2>1 DEF ServiceInv, Kept
<1>. QED  BY <1>6, <1>7, <1>8 DEF AlsoKept

LEMMA PaintOutcome ==
  ASSUME TypeOK, NEW d \in Elem, ledger' = Paint(ledger, d)
  PROVE  /\ ledger'.now = ledger.now \ {d} /\ ledger'.next = ledger.next \ {d}
         /\ \A e \in Elem : e # d => ledger'.gap[e] = ledger.gap[e]
         /\ Awaited' = Awaited \ {d} /\ Awaited \subseteq Elem
<1>1. /\ ledger'.now = ledger.now \ {d} /\ ledger'.next = ledger.next \ {d}
      /\ ledger'.gap = [ledger.gap EXCEPT ![d] = "none"]
  BY DEF Paint
<1>2. \A e \in Elem : e # d => ledger'.gap[e] = ledger.gap[e]
  BY <1>1 DEF TypeOK
<1>. QED  BY <1>1, <1>2 DEF Awaited, Honoured, TypeOK

\* A root is opened with no call running.
LEMMA OpenRootServes ==
  ASSUME ServiceInv, NEW r \in Roots, stack = <<>>, OpenSurface(r, <<>>),
         UNCHANGED <<window, dirty, surface_state, next_queue>>,
         ledger' = Paint(ledger, r),
         \/ r = Win /\ pc = "start" /\ pc' = "window"
         \/ r = Overlay /\ pc = "end" /\ pc' = "overlay"
  PROVE  AlsoKept'
<1>0. TypeOK /\ RedrawInv /\ r \in Surface /\ r \in Elem /\ Above[r] = {} /\ Win # Overlay /\ Win \in Surface
  BY AboveFacts, TreeAssumption DEF ServiceInv, RedrawInv
<1>1. /\ ToSet(stack) = {} /\ ToSet(<<>>) = {} /\ <<>> \in Seq(Call)
      /\ \A s : ~FullRedraw(s)
      /\ \A e : ~Soon(e)
      /\ \A x : ~InHand(x)
      /\ \A s \in Surface : next_queue'[s] = <<>>
  BY <1>0, EmptyFacts, EmptyStack DEF ServiceInv
<1>2. ~Lost(r)
  BY <1>0, <1>1 DEF Lost, Drawing
<1>3. /\ \A s : FullRedraw(s)' => FullRedraw(s) \/ (s = r /\ surface_state[r] = "INVALID")
      /\ surface_state[r] = "INVALID" => FullRedraw(r)'
      /\ \A z \in Elem \ Roots : Linked(z) /\ SurfaceOf[z] # r => Linked(z)'
      /\ \A z \in Elem \ Roots : Linked(z) /\ SurfaceOf[z] = r => InHand(z)'
  BY <1>0, <1>1, <1>2, OpenLinks DEF ServiceInv, Drawing
<1>4. /\ ledger'.now = ledger.now \ {r} /\ ledger'.next = ledger.next \ {r}
      /\ \A e \in Elem : e # r => ledger'.gap[e] = ledger.gap[e]
      /\ Awaited' = Awaited \ {r} /\ Awaited \subseteq Elem
  BY <1>0, PaintOutcome
<1>5. \A c \in ToSet(stack') : c.surf = r
  <2>. DEFINE full == surface_state[r] = "INVALID"
              call == [surf |-> r, full |-> full, todo |-> IF full THEN Inside(r) ELSE {}]
  <2>1. stack' = <<>> \/ stack' = <<call>> \o <<>>
    BY DEF OpenSurface
  <2>2. call \in Call /\ call.surf = r
    BY <1>0, InsideFacts DEF Call
  <2>. HIDE DEF call
  <2>3. ToSet(<<call>> \o <<>>) = {call} \cup ToSet(<<>>)
    BY <1>1, <2>2, PutFacts
  <2>. QED  BY <1>1, <2>1, <2>2, <2>3
<1>6. OnOneTree'
  BY <1>0, <1>5, RootOfRoot DEF OnOneTree
<1>7. Framed'
  BY DEF Framed, ServiceInv, window
<1>8. Deferred'
  BY <1>1 DEF Deferred
<1>9. Asked'
  <2>1. ASSUME attached, NEW s \in Surface, surface_state[s] = "INVALID", ~FullRedraw(s)'
        PROVE  /\ s \in ledger'.now \cup ledger'.next
               /\ s = Win => ledger'.gap[s] # "none"
    <3>1. s # r /\ s \in Elem
      BY <1>3, <2>1, AboveFacts
    <3>2. s \in ledger.now \cup ledger.next
      BY <1>1, <2>1 DEF ServiceInv, Asked
    <3>3. s = Win => ledger.gap[s] # "none"
      BY <1>1, <2>1, <3>1 DEF ServiceInv, Asked, Drawing
    <3>. QED  BY <1>4, <3>1, <3>2, <3>3
  <2>. QED  BY <2>1 DEF Asked, window
<1>10. ASSUME NEW e \in Awaited', e \notin Roots
       PROVE  /\ Carried(e)' \/ Soon(e)'
              /\ RootOf(e) = r => Soon(e)'
              /\ r = Overlay /\ RootOf(e) = Win => e \notin ledger.now
  <2>1. e \in Elem \ Roots /\ e \in Awaited /\ Carried(e)
    BY <1>1, <1>4, <1>10 DEF ServiceInv, Kept
  <2>2. RootOf(e) = r => Soon(e)'
    BY <1>3, <2>1, RootOpened
  <2>3. Carried(e)' \/ Soon(e)'
    BY <1>1, <1>3, <2>1, KeepSoon
  <2>4. r = Overlay /\ RootOf(e) = Win => e \notin ledger.now
    BY <1>0, <1>10, <2>1 DEF ServiceInv, Kept
  <2>. QED  BY <2>2, <2>3, <2>4
<1>11. Kept'
  <2>1. pc' \notin {"idle", "start"} /\ pc' # "end" /\ (pc' = "overlay" <=> r = Overlay)
    BY <1>0
  <2>2. Win \notin Awaited' /\ (r = Overlay => Overlay \notin Awaited')
    BY <1>0, <1>4 DEF ServiceInv, Kept
  <2>3. \A e \in Awaited' \ Roots :
          /\ Carried(e)' \/ Soon(e)'
          /\ RootOf(e) = Win /\ e \in ledger'.now =>
               pc' \notin {"end", "overlay"} /\ (pc' = "window" => Soon(e)')
          /\ RootOf(e) = Overlay /\ pc' = "overlay" => Soon(e)'
    BY <1>0, <1>4, <1>10, <2>1
  <2>. QED  BY <2>1, <2>2, <2>3 DEF Kept
<1>. QED  BY <1>6, <1>7, <1>8, <1>9, <1>11 DEF AlsoKept

\* A step of drawing that takes no request out of sight.
DrawingKeeps ==
  \A e \in Awaited' \ Roots : /\ e \in Awaited /\ (e \in ledger'.now => e \in ledger.now)
                              /\ Soon(e) => Soon(e)'
                              /\ Carried(e) => Carried(e)' \/ Soon(e)'

LEMMA DrawingServes ==
  ASSUME ServiceInv, DrawingKeeps, pc \in {"window", "overlay"}, pc' = pc, Awaited' \subseteq Awaited
  PROVE  Kept'
<1>1. ASSUME NEW e \in Awaited' \ Roots
      PROVE  /\ Carried(e)' \/ Soon(e)'
             /\ RootOf(e) = Win /\ e \in ledger'.now =>
                  pc \notin {"end", "overlay"} /\ (pc = "window" => Soon(e)')
             /\ RootOf(e) = Overlay /\ pc = "overlay" => Soon(e)'
  BY <1>1 DEF DrawingKeeps, ServiceInv, Kept
<1>. QED  BY <1>1 DEF ServiceInv, Kept

LEMMA DrawSurfaceServes ==
  ASSUME ServiceInv, NEW d \in Elem, DrawSurface(d)
  PROVE  AlsoKept'
<1>0. TypeOK /\ RedrawInv
  BY DEF ServiceInv, RedrawInv
<1>1. /\ Turn(d) /\ OpenSurface(d, Drawn(d)) /\ ledger' = Paint(ledger, d)
      /\ UNCHANGED <<window, dirty, surface_state, next_queue, pc>>
  BY DEF DrawSurface
<1>2. /\ pc \in {"window", "overlay"} /\ stack # <<>>
      /\ \A c \in ToSet(stack) : c.surf \in Above[d]
  BY <1>0, <1>1, TurnFacts DEF ToSet
<1>3. /\ d \in Surface \ Roots
      /\ \A s : FullRedraw(s)' => FullRedraw(s) \/ s = d
      /\ surface_state[d] = "INVALID" => FullRedraw(d)'
      /\ \A z \in Elem \ Roots : Linked(z) /\ SurfaceOf[z] # d => Linked(z)'
      /\ \A z \in Elem \ Roots : Linked(z) /\ SurfaceOf[z] = d => InHand(z)'
      /\ \A x \in Elem \ Roots : InHand(x) /\ x # d => InHand(x)'
      /\ \A s : FullRedraw(s) => FullRedraw(s)'
  BY <1>0, DrawSurfaceLinks DEF ServiceInv
<1>4. /\ ledger'.now = ledger.now \ {d} /\ ledger'.next = ledger.next \ {d}
      /\ \A e \in Elem : e # d => ledger'.gap[e] = ledger.gap[e]
      /\ Awaited' = Awaited \ {d} /\ Awaited \subseteq Elem
  BY <1>0, <1>1, PaintOutcome
<1>5. ~in_redraw[d]
  BY <1>0, <1>2, <1>3, CallsFacts, AboveFacts
<1>6. \A s \in Surface : in_redraw[s] => in_redraw'[s]
  <2>1. in_redraw' = in_redraw \/ in_redraw' = [in_redraw EXCEPT ![d] = TRUE]
    BY <1>1 DEF OpenSurface
  <2>. QED  BY <1>0, <2>1 DEF TypeOK
<1>7. OnOneTree'
  <2>. DEFINE h == Head(stack)
  <2>1. \A c \in ToSet(stack') : \/ \E b \in ToSet(stack) : b.surf = c.surf
                                 \/ c.surf = d
    <3>. DEFINE g == [h EXCEPT !.todo = @ \ {d}]
                full == surface_state[d] = "INVALID"
                call == [surf |-> d, full |-> full, todo |-> IF full THEN Inside(d) ELSE {}]
                below == Drawn(d)
    <3>1. /\ ToSet(stack) = {h} \cup ToSet(Tail(stack))
          /\ ToSet(below) = {g} \cup ToSet(Tail(stack))
          /\ g.surf = h.surf /\ below \in Seq(Call)
      BY <1>0, <1>1, DrawnCalls
    <3>2. stack' = below \/ stack' = <<call>> \o below
      BY <1>1 DEF OpenSurface
    <3>3. call \in Call /\ call.surf = d
      BY <1>3, InsideFacts DEF Call
    <3>. HIDE DEF g, call, below
    <3>4. ToSet(<<call>> \o below) = {call} \cup ToSet(below)
      BY <3>1, <3>3, PutFacts
    <3>. QED  BY <3>1, <3>2, <3>3, <3>4
  <2>2. /\ h \in ToSet(stack) /\ SurfaceOf[d] = h.surf /\ h.surf \in Surface
        /\ h.surf \in Above[d]
        /\ Above[d] \cap Surface \subseteq {h.surf} \cup Above[h.surf]
    <3>1. h \in ToSet(stack) /\ d \in Inside(h.surf) /\ h.surf \in Surface
      BY <1>0, <1>1, DrawnCalls
    <3>2. SurfaceOf[d] = h.surf
      BY <3>1 DEF Inside
    <3>. QED  BY <1>3, <3>1, <3>2, SurfaceFacts
  <2>3. in_redraw[h.surf] /\ \A s \in Above[h.surf] \cap Surface : in_redraw[s]
    BY <1>0, <2>2, CallsFacts DEF ServiceInv, OnOneTree
  <2>4. RootOf(d) = RootOf(h.surf)
    BY <2>2, SameRoot
  <2>. HIDE DEF h
  <2>5. ASSUME NEW c \in ToSet(stack'), c.surf = d
        PROVE  /\ \A s \in Above[c.surf] \cap Surface : in_redraw'[s]
               /\ RootOf(c.surf) = IF pc = "window" THEN Win ELSE Overlay
    BY <1>6, <2>2, <2>3, <2>4, <2>5 DEF ServiceInv, OnOneTree
  <2>6. ASSUME NEW c \in ToSet(stack'), NEW b \in ToSet(stack), b.surf = c.surf
        PROVE  /\ \A s \in Above[c.surf] \cap Surface : in_redraw'[s]
               /\ RootOf(c.surf) = IF pc = "window" THEN Win ELSE Overlay
    BY <1>6, <2>6 DEF ServiceInv, OnOneTree
  <2>. QED  BY <1>1, <2>1, <2>5, <2>6 DEF OnOneTree
<1>8. Framed'
  BY <1>1, <1>2 DEF Framed, ServiceInv, window
<1>9. Deferred'
  <2>. SUFFICES ASSUME NEW y \in Surface \ Roots, next_queue[y] # <<>>, NEW w \in Chain(y)
                PROVE  Linked(w)' \/ Lost(SurfaceOf[w])'
    BY <1>1 DEF Deferred
  <2>1. /\ y \in Elem \ Roots /\ w \in Elem \ Roots
        /\ SurfaceOf[w] \in Above[y] \cap Surface
    BY AboveFacts, ChainFacts
  <2>2. Linked(w) \/ Lost(SurfaceOf[w])
    BY DEF ServiceInv, Deferred
  <2>3. SurfaceOf[w] # d
    BY <1>0, <1>5, <2>1, DeferringFacts DEF ServiceInv
  <2>. QED  BY <1>1, <1>3, <2>1, <2>2, <2>3 DEF Lost
<1>10. Asked'
  <2>1. ASSUME attached, NEW s \in Surface, surface_state[s] = "INVALID", ~FullRedraw(s)'
        PROVE  /\ s \in ledger'.now \cup ledger'.next
               /\ s = Win => ledger'.gap[s] # "none"
    <3>1. s # d /\ ~FullRedraw(s) /\ s \in Elem
      BY <1>3, <2>1, AboveFacts
    <3>. QED  BY <1>2, <1>4, <2>1, <3>1 DEF ServiceInv, Asked, Drawing
  <2>. QED  BY <1>1, <2>1 DEF Asked, window
<1>11. DrawingKeeps
  <2>. SUFFICES ASSUME NEW e \in Awaited' \ Roots
                PROVE  /\ Soon(e) => Soon(e)'
                       /\ Carried(e) => Carried(e)' \/ Soon(e)'
    BY <1>4 DEF DrawingKeeps
  <2>. QED  BY <1>3, <1>4, KeepSoon
<1>. QED  BY <1>1, <1>2, <1>4, <1>7, <1>8, <1>9, <1>10, <1>11, DrawingServes DEF AlsoKept, ServiceInv

LEMMA PopServes ==
  ASSUME ServiceInv, PopQueue
  PROVE  AlsoKept'
<1>0. TypeOK /\ RedrawInv
  BY DEF ServiceInv, RedrawInv
<1>. DEFINE s == Head(stack).surf
<1>1. /\ UNCHANGED <<window, dirty, surface_state, next_queue, in_redraw, pc, ledger>>
      /\ stack # <<>>
      /\ s \in Surface /\ in_redraw[s]
      /\ \A t : FullRedraw(t)' <=> FullRedraw(t)
      /\ \A z \in Elem \ Roots : Linked(z) /\ SurfaceOf[z] # s => Linked(z)'
      /\ \A z \in Elem \ Roots : Linked(z) /\ SurfaceOf[z] = s => Linked(z)' \/ InHand(z)'
      /\ \A x \in Elem \ Roots : InHand(x) => InHand(x)'
  BY <1>0, PopLinks DEF PopQueue, ServiceInv
<1>2. pc \in {"window", "overlay"} /\ pc' = pc
  BY <1>0, <1>1 DEF RedrawInv, RedrawBracketed
<1>3. Awaited' = Awaited /\ Awaited \subseteq Elem
  BY <1>0, <1>1 DEF Awaited, Honoured, TypeOK
<1>4. \A c \in ToSet(stack') : \E b \in ToSet(stack) : b.surf = c.surf
  <2>. DEFINE call == Head(stack)
              new == [call EXCEPT !.todo = Below(Head(render_queue[call.surf]))]
              R == ToSet(Tail(stack))
  <2>1. /\ stack' = <<new>> \o Tail(stack) /\ call \in Call /\ Tail(stack) \in Seq(Call)
        /\ ToSet(stack) = {call} \cup R
        /\ render_queue[call.surf] # <<>> /\ render_queue[call.surf] \in Seq(Elem)
        /\ ToSet(render_queue[call.surf]) \subseteq Inside(call.surf)
    BY <1>0, <1>1, HeadTyped, HeldFacts DEF PopQueue, TypeOK
  <2>2. Head(render_queue[call.surf]) \in Elem \ Roots
    BY <1>1, <2>1, TailFacts, InsideFacts
  <2>3. new \in Call /\ new.surf = call.surf
    BY <2>1, <2>2 DEF Call, Below, Inside
  <2>. HIDE DEF new, call, R
  <2>4. ToSet(<<new>> \o Tail(stack)) = {new} \cup ToSet(Tail(stack))
    BY <2>1, <2>3, PutFacts
  <2>. QED  BY <2>1, <2>3, <2>4 DEF R
<1>5. OnOneTree'
  BY <1>1, <1>4 DEF ServiceInv, OnOneTree
<1>6. Framed'
  BY <1>1 DEF Framed, ServiceInv, window
<1>7. Deferred'
  <2>. SUFFICES ASSUME NEW y \in Surface \ Roots, next_queue[y] # <<>>, NEW w \in Chain(y)
                PROVE  Linked(w)' \/ Lost(SurfaceOf[w])'
    BY <1>1 DEF Deferred
  <2>1. /\ w \in Elem \ Roots /\ SurfaceOf[w] \in Above[y] \cap Surface
    BY AboveFacts, ChainFacts
  <2>2. Linked(w) \/ Lost(SurfaceOf[w])
    BY DEF ServiceInv, Deferred
  <2>3. SurfaceOf[w] # s
    BY <1>0, <2>1, DeferringFacts DEF ServiceInv
  <2>. QED  BY <1>1, <2>1, <2>2, <2>3 DEF Lost
<1>8. Asked'
  BY <1>1, AboveFacts DEF ServiceInv, Asked, window
<1>9. DrawingKeeps
  <2>. SUFFICES ASSUME NEW e \in Awaited \ Roots
                PROVE  /\ Soon(e) => Soon(e)'
                       /\ Carried(e) => Carried(e)' \/ Soon(e)'
    BY <1>1, <1>3 DEF DrawingKeeps
  <2>1. e \in Elem \ Roots /\ e # Win /\ Win \notin Surface \ Roots
    BY <1>3 DEF Roots
  <2>. HIDE DEF s
  <2>. QED  BY <1>1, <2>1, KeepSoon
<1>. QED  BY <1>2, <1>3, <1>5, <1>6, <1>7, <1>8, <1>9, DrawingServes DEF AlsoKept

LEMMA CloseServes ==
  ASSUME ServiceInv, CloseSurface
  PROVE  AlsoKept'
<1>0. TypeOK /\ RedrawInv
  BY DEF ServiceInv, RedrawInv
<1>. DEFINE s == Head(stack).surf
<1>1. /\ UNCHANGED <<window, dirty, pc, ledger>> /\ stack # <<>> /\ stack' = Tail(stack)
      /\ in_redraw' = [in_redraw EXCEPT ![s] = FALSE]
      /\ next_queue' = [next_queue EXCEPT ![s] = <<>>]
  BY DEF CloseSurface
<1>2. /\ s \in Surface
      /\ \A t : FullRedraw(t)' => FullRedraw(t)
      /\ \A t : t # s /\ FullRedraw(t) => FullRedraw(t)'
      /\ FullRedraw(s) => surface_state'[s] = "VALID"
      /\ \A t \in Surface : ~FullRedraw(s) \/ t # s => surface_state'[t] = surface_state[t]
      /\ \A z \in Elem \ Roots : Linked(z) => Linked(z)'
      /\ \A x \in Elem \ Roots : InHand(x) => InHand(x)'
  BY <1>0, CloseLinks DEF ServiceInv
<1>3. pc \in {"window", "overlay"} /\ pc' = pc
  BY <1>0, <1>1 DEF RedrawInv, RedrawBracketed
<1>4. Awaited' = Awaited /\ Awaited \subseteq Elem
  BY <1>0, <1>1 DEF Awaited, Honoured, TypeOK
<1>5. /\ ToSet(stack') \subseteq ToSet(stack)
      /\ \A t \in Surface : t # s => in_redraw'[t] = in_redraw[t] /\ next_queue'[t] = next_queue[t]
      /\ next_queue'[s] = <<>>
  BY <1>0, <1>1, <1>2, HeldFacts DEF TypeOK
<1>6. OnOneTree'
  <2>1. \A c \in ToSet(stack') : c \in ToSet(stack) /\ s \notin Above[c.surf]
    BY <1>0, <1>1, <1>5, InnermostFacts
  <2>. HIDE DEF s
  <2>. QED  BY <1>3, <1>5, <2>1 DEF ServiceInv, OnOneTree
<1>7. Framed'
  BY <1>1 DEF Framed, ServiceInv, window
<1>8. Deferred'
  <2>. SUFFICES ASSUME NEW y \in Surface \ Roots, next_queue'[y] # <<>>, NEW w \in Chain(y)
                PROVE  Linked(w)' \/ Lost(SurfaceOf[w])'
    BY DEF Deferred
  <2>1. /\ w \in Elem \ Roots /\ SurfaceOf[w] \in Above[y] \cap Surface /\ next_queue[y] # <<>>
    BY <1>5, AboveFacts, ChainFacts
  <2>2. Linked(w) \/ Lost(SurfaceOf[w])
    BY <2>1 DEF ServiceInv, Deferred
  <2>3. SurfaceOf[w] # s
    BY <1>0, <2>1, DeferringFacts DEF ServiceInv
  <2>. QED  BY <1>2, <1>3, <2>1, <2>2, <2>3 DEF Lost
<1>9. Asked'
  <2>1. ASSUME attached, NEW t \in Surface, surface_state'[t] = "INVALID", ~FullRedraw(t)'
        PROVE  surface_state[t] = "INVALID" /\ ~FullRedraw(t)
    BY <1>2, <2>1
  <2>. QED  BY <1>1, <2>1 DEF ServiceInv, Asked, window
<1>10. DrawingKeeps
  <2>. SUFFICES ASSUME NEW e \in Awaited \ Roots
                PROVE  /\ Soon(e) => Soon(e)'
                       /\ Carried(e) => Carried(e)' \/ Soon(e)'
    BY <1>1, <1>4 DEF DrawingKeeps
  <2>1. e \in Elem \ Roots /\ e # Win /\ Win \notin Surface \ Roots
    BY <1>4 DEF Roots
  <2>. QED  BY <1>2, <2>1, KeepAll
<1>. QED  BY <1>3, <1>4, <1>6, <1>7, <1>8, <1>9, <1>10, DrawingServes DEF AlsoKept

\* The window has been drawn: nothing due is left on its tree.
LEMMA FrameEndServes ==
  ASSUME ServiceInv, FrameEnd
  PROVE  AlsoKept'
<1>1. /\ pc = "window" /\ pc' = "end" /\ stack = <<>> /\ stack' = <<>> /\ ledger' = ledger
      /\ UNCHANGED <<window, dirty, surface_state, render_queue, next_queue, render_entry, in_redraw>>
  BY DEF FrameEnd, queues
<1>2. /\ \A s : ~FullRedraw(s) /\ (FullRedraw(s)' <=> FullRedraw(s))
      /\ \A s \in Surface : next_queue[s] = <<>>
      /\ \A e : ~Soon(e)
      /\ ToSet(stack') = {}
  BY <1>1, EmptyStack, EmptyFacts DEF FullRedraw, ServiceInv
<1>3. \A z \in Elem \ Roots : Linked(z) => Linked(z)'
  BY <1>1, <1>2 DEF Linked, Lost, Drawing
<1>4. \A e \in Elem \ Roots : Carried(e) => Carried(e)'
  BY <1>3, ChainFacts DEF Carried
<1>5. Awaited' = Awaited /\ Awaited \subseteq Elem
  BY <1>1 DEF Awaited, Honoured, ServiceInv, RedrawInv, TypeOK
<1>6. OnOneTree' /\ Framed' /\ Deferred'
  BY <1>1, <1>2 DEF OnOneTree, Framed, Deferred, ServiceInv, window
<1>7. Asked'
  BY <1>1, <1>2 DEF Asked, ServiceInv, Drawing, window
<1>8. Kept'
  <2>1. \A e \in Awaited \ Roots : Carried(e)' /\ ~(RootOf(e) = Win /\ e \in ledger.now)
    BY <1>1, <1>2, <1>4, <1>5 DEF ServiceInv, Kept
  <2>. QED  BY <1>1, <1>5, <2>1 DEF ServiceInv, Kept
<1>. QED  BY <1>6, <1>7, <1>8 DEF AlsoKept

\* A frame ends with nothing due; and the window's queue is not empty if
\* anything is to be drawn by the next.
LEMMA FinishFacts ==
  ASSUME ServiceInv, Finish
  PROVE  /\ \A e \in ledger.now : ledger.gap[e] # "none"
         /\ Awaited # {} => dirty'
         /\ \A e \in Awaited \ Roots : Carried(e)
<1>1. pc = "overlay" /\ stack = <<>> /\ dirty' = (render_queue[Win] # <<>>) /\ Win \in Surface
  BY TreeAssumption DEF Finish
<1>2. \A e : ~Soon(e)
  BY <1>1, EmptyStack DEF ServiceInv
<1>3. Win \notin Awaited /\ Overlay \notin Awaited /\ Awaited \subseteq Elem /\ ledger.now \subseteq Elem
  BY <1>1 DEF ServiceInv, Kept, RedrawInv, TypeOK, Awaited, Honoured
<1>4. \A e \in Awaited : /\ e \in Elem \ Roots /\ Carried(e)
                         /\ RootOf(e) = Win /\ e \notin ledger.now
  BY <1>1, <1>2, <1>3 DEF ServiceInv, Kept, Roots, RootOf
<1>5. \A e \in ledger.now : ledger.gap[e] # "none"
  BY <1>3, <1>4 DEF Awaited, Honoured
<1>6. ASSUME NEW e \in Awaited PROVE render_queue[Win] # <<>>
  <2>1. Win \in Above[e] \cap Surface /\ e \in Elem \ Roots
    BY <1>1, <1>4, RootFound DEF Roots
  <2>2. PICK z \in Chain(e) : SurfaceOf[z] = Win
    BY <2>1, ChainStep
  <2>3. z \in Elem \ Roots /\ Linked(z)
    BY <1>4, <2>1, <2>2, ChainFacts DEF Carried
  <2>4. Target[z] \in render_entry
    BY <1>1, <2>2, <2>3 DEF Linked, Lost, Drawing
  <2>5. ~in_redraw[Win]
    BY <1>1, EmptyStack DEF ServiceInv
  <2>. QED  BY <2>2, <2>3, <2>4, <2>5, QueueFacts DEF ServiceInv
<1>. QED  BY <1>1, <1>4, <1>5, <1>6

LEMMA FinishServes ==
  ASSUME ServiceInv, Finish
  PROVE  AlsoKept'
<1>1. /\ pc = "overlay" /\ pc' = "idle" /\ stack = <<>> /\ stack' = <<>>
      /\ ledger' = [ledger EXCEPT !.now = @ \cup ledger.next, !.next = {}]
      /\ UNCHANGED <<window, surface_state, render_queue, next_queue, render_entry, in_redraw>>
  BY DEF Finish, queues
<1>2. /\ \A s : ~FullRedraw(s) /\ (FullRedraw(s)' <=> FullRedraw(s))
      /\ \A s \in Surface : next_queue[s] = <<>>
      /\ ToSet(stack') = {}
  BY <1>1, EmptyStack, EmptyFacts DEF FullRedraw, ServiceInv
<1>3. \A z \in Elem \ Roots : Linked(z) => Linked(z)'
  BY <1>1, <1>2 DEF Linked, Lost, Drawing
<1>4. \A e \in Elem \ Roots : Carried(e) => Carried(e)'
  BY <1>3, ChainFacts DEF Carried
<1>5. /\ ledger'.now = ledger.now \cup ledger.next /\ ledger'.next = {} /\ ledger'.gap = ledger.gap
      /\ Awaited' = Awaited /\ Awaited \subseteq Elem
  BY <1>1 DEF Awaited, Honoured, ServiceInv, RedrawInv, TypeOK
<1>6. OnOneTree' /\ Framed' /\ Deferred'
  BY <1>1, <1>2, <1>5 DEF OnOneTree, Framed, Deferred, ServiceInv
<1>7. Asked'
  BY <1>1, <1>2, <1>5 DEF Asked, ServiceInv, Drawing, window
<1>8. Kept'
  <2>1. \A e \in Awaited \ Roots : Carried(e)'
    BY <1>4, <1>5, FinishFacts
  <2>. QED  BY <1>1, <1>5, <2>1, FinishFacts DEF Kept
<1>. QED  BY <1>6, <1>7, <1>8 DEF AlsoKept

LEMMA InitServes == Init => ServiceInv
<1>. SUFFICES ASSUME Init PROVE OnOneTree /\ Framed /\ Asked /\ Deferred /\ Kept
  BY InitTyped, InitBracketed, InitSound DEF ServiceInv, RedrawInv
<1>1. Awaited = {} /\ ToSet(stack) = {}
  BY EmptyFacts DEF Init, Awaited, Honoured
<1>2. OnOneTree /\ Framed /\ Asked /\ Deferred
  BY <1>1 DEF Init, OnOneTree, Framed, Asked, Deferred
<1>3. Kept
  BY <1>1 DEF Init, Kept
<1>. QED  BY <1>2, <1>3

LEMMA StayServes ==
  ASSUME ServiceInv, UNCHANGED vars
  PROVE  AlsoKept'
<1>1. /\ ledger' = ledger /\ stack' = stack /\ pc' = pc /\ in_redraw' = in_redraw
      /\ surface_state' = surface_state /\ render_queue' = render_queue
      /\ next_queue' = next_queue /\ render_entry' = render_entry
      /\ attached' = attached /\ obscured' = obscured /\ dirty' = dirty
  BY DEF vars, window, queues
<1>2. Awaited' = Awaited /\ \A s : FullRedraw(s)' <=> FullRedraw(s)
  BY <1>1 DEF Awaited, Honoured, FullRedraw
<1>3. \A z : Linked(z)' <=> Linked(z)
  BY <1>1, <1>2 DEF Linked, Lost
<1>4. \A x : InHand(x)' <=> InHand(x)
  BY <1>1 DEF InHand
<1>5. \A e : (Soon(e)' <=> Soon(e)) /\ (Carried(e)' <=> Carried(e))
  BY <1>3, <1>4 DEF Soon, Carried
<1>6. OnOneTree' /\ Framed' /\ Asked' /\ Deferred'
  BY <1>1, <1>2, <1>3 DEF ServiceInv, OnOneTree, Framed, Asked, Deferred, Lost
<1>7. Kept'
  BY <1>1, <1>2, <1>5 DEF ServiceInv, Kept
<1>. QED  BY <1>6, <1>7 DEF AlsoKept

LEMMA NextServes == ServiceInv /\ [Next]_vars => ServiceInv'
<1>. SUFFICES ASSUME ServiceInv, [Next]_vars PROVE AlsoKept'
  BY NextBracketed, NextSound DEF ServiceInv, AlsoKept
<1>1. ASSUME NEW e \in Elem, AppMark(e) PROVE AlsoKept'
  BY <1>1, AppMarkServes
<1>2. ASSUME NEW s \in Surface, AppInvalidate(s) PROVE AlsoKept'
  BY <1>2, AppInvalidateServes
<1>3. CASE Expose
  BY <1>3, QuietServes DEF Expose, window
<1>4. CASE VisibilityNotify
  BY <1>4, QuietServes DEF VisibilityNotify
<1>5. CASE Reinit
  BY <1>5, ReinitServes
<1>6. ASSUME NEW force \in ForceRedraw, FrameStart(force) PROVE AlsoKept'
  BY <1>6, QuietServes DEF FrameStart
<1>7. CASE NothingToDraw
  BY <1>7, QuietServes DEF NothingToDraw, window
<1>8. stack = <<>> \/ pc \in {"window", "overlay"}
  BY DEF ServiceInv, RedrawInv, RedrawBracketed
<1>9. CASE DrawWindow
  <2>1. Win \in Roots
    BY DEF Roots
  <2>. QED  BY <1>8, <1>9, <2>1, OpenRootServes DEF DrawWindow
<1>10. CASE DrawOverlay
  <2>1. Overlay \in Roots
    BY DEF Roots
  <2>. QED  BY <1>8, <1>10, <2>1, OpenRootServes DEF DrawOverlay
<1>11. CASE DrawStep
  BY <1>11, DrawElemServes, DrawSurfaceServes, PopServes, CloseServes DEF DrawStep
<1>12. CASE FrameEnd
  BY <1>12, FrameEndServes
<1>13. CASE Finish
  BY <1>13, FinishServes
<1>14. CASE UNCHANGED vars
  BY <1>14, StayServes
<1>. QED  BY <1>1, <1>2, <1>3, <1>4, <1>5, <1>6, <1>7, <1>9, <1>10, <1>11, <1>12, <1>13, <1>14
       DEF Next, FrameStep

LEMMA ReturnsServed ==
  ASSUME ServiceInv, [Next]_vars, Returns
  PROVE  \A e \in ledger.now : ledger.gap[e] # "none"
<1>1. pc # "idle" /\ pc' = "idle" /\ ~force_redraw
  BY DEF Returns
<1>2. CASE NothingToDraw
  <2>1. Awaited = {}
    BY <1>1, <1>2 DEF NothingToDraw, ServiceInv, Kept
  <2>. QED  BY <2>1 DEF Awaited, Honoured
<1>3. CASE Finish
  BY <1>3, FinishFacts
<1>4. NothingToDraw \/ Finish
  BY <1>1 DEF Next, FrameStep, DrawStep, AppMark, AppInvalidate, Expose, VisibilityNotify, Reinit,
       FrameStart, DrawWindow, DrawElem, DrawSurface, PopQueue, CloseSurface, FrameEnd, DrawOverlay,
       vars
<1>. QED  BY <1>2, <1>3, <1>4

\* For every tree, every nesting of surfaces and whatever the draw callbacks
\* mark or invalidate: when rtb_window_draw returns, no request made before it
\* began to draw is left unserved, but for those that fell into a known hole.
THEOREM RequestsServed == Spec => Served
<1>1. ServiceInv /\ [Next]_vars => [Returns => \A e \in ledger.now : ledger.gap[e] # "none"]_vars
  BY ReturnsServed
<1>. QED  BY <1>1, InitServes, NextServes, PTL DEF Spec, Served

-------------------------------------------------------------------------------
(***************************************************************************)
(* The service of RedrawService                                            *)
(***************************************************************************)

\* The steps that draw, and those of which the service sees nothing.
LEMMA DrawMaps ==
  ASSUME ledger' \in Ledgers, pc' \in Drawing, pc \in Drawing \/ (pc = "start" /\ ~force_redraw),
         Honoured(ledger.now)' \subseteq Honoured(ledger.now)
  PROVE  Service!Draw
<1>1. Honoured(ledger.next)' \subseteq Elem
  BY DEF Honoured, Ledgers
<1>2. "start" \notin Drawing
  BY DEF Drawing
<1>. QED  BY <1>1, <1>2 DEF Service!Draw

LEMMA SilentMaps ==
  ASSUME ledger' = ledger,
         (pc' = pc /\ force_redraw' = force_redraw) \/ (pc \in Drawing /\ pc' \in Drawing)
  PROVE  UNCHANGED Service!service
<1>1. Honoured(ledger.now)' = Honoured(ledger.now) /\ Honoured(ledger.next)' = Honoured(ledger.next)
  BY DEF Honoured
<1>. QED  BY <1>1 DEF Service!service

LEMMA PaintMaps ==
  ASSUME TypeOK, NEW d \in Elem, NEW l, l = Paint(ledger, d)
  PROVE  /\ l \in Ledgers /\ l.now \subseteq ledger.now
         /\ \A e \in l.now : l.gap[e] = ledger.gap[e]
<1>1. l \in Ledgers /\ l.now = ledger.now \ {d} /\ l.gap = [ledger.gap EXCEPT ![d] = "none"]
  BY PaintFacts DEF TypeOK, Ledgers, Paint
<1>. QED  BY <1>1 DEF TypeOK

\* A request made while nothing is drawn is due at once; one made while
\* something is drawn is due later.
LEMMA AskMaps ==
  ASSUME TypeOK, NEW l \in Ledgers, l.now \subseteq ledger.now,
         \A e \in l.now : l.gap[e] = ledger.gap[e],
         NEW E \in SUBSET Elem, NEW r, ledger' = Ask(l, E, r)
  PROVE  /\ pc \in Drawing => Honoured(ledger.now)' \subseteq Honoured(ledger.now)
         /\ pc \notin Drawing /\ l = ledger => Honoured(ledger.now) \subseteq Honoured(ledger.now)'
<1>. DEFINE fresh == {e \in E : \/ e \notin l.now \cup l.next
                                \/ l.gap[e] # "none" /\ r[e] = "none"}
<1>1. /\ ledger'.now = IF pc \in Drawing THEN l.now \ fresh ELSE l.now \cup fresh
      /\ \A e \in Elem : ledger'.gap[e] = IF e \in fresh THEN r[e] ELSE l.gap[e]
      /\ l.now \subseteq Elem
  BY DEF Ask, Ledgers
<1>2. \A e \in l.now : l.gap[e] = "none" => e \notin fresh
  OBVIOUS
<1>3. /\ Honoured(ledger.now) = {e \in ledger.now : ledger.gap[e] = "none"}
      /\ Honoured(ledger.now)' = {e \in ledger'.now : ledger'.gap[e] = "none"}
  BY DEF Honoured
<1>. HIDE DEF fresh
<1>. QED  BY <1>1, <1>2, <1>3

LEMMA RequestMaps ==
  ASSUME ServiceInv, NEW E \in SUBSET Elem, NEW r, ledger' = Ask(ledger, E, r),
         ledger' \in Ledgers, UNCHANGED <<window, pc>>
  PROVE  Service!Next
<1>1. TypeOK /\ ledger \in Ledgers
  BY DEF ServiceInv, RedrawInv, TypeOK, Ledgers
<1>2. /\ pc \in Drawing => Honoured(ledger.now)' \subseteq Honoured(ledger.now)
      /\ pc \notin Drawing => Honoured(ledger.now) \subseteq Honoured(ledger.now)'
  BY <1>1, AskMaps
<1>3. CASE pc \in Drawing
  <2>1. Service!Draw
    BY <1>2, <1>3, DrawMaps
  <2>. QED  BY <2>1 DEF Service!Next
<1>4. CASE pc \notin Drawing
  <2>1. ledger.next = {} /\ ledger'.next = {}
    BY <1>1, <1>4, AskOutcome DEF ServiceInv, Framed, TypeOK, Phase, Drawing
  <2>2. Honoured(ledger.next)' = Honoured(ledger.next) /\ Honoured(ledger.now)' \subseteq Elem
    BY <2>1 DEF Honoured, Ledgers
  <2>3. Service!Request
    BY <1>2, <1>4, <2>2 DEF Service!Request, window
  <2>. QED  BY <2>3 DEF Service!Next
<1>. QED  BY <1>3, <1>4

LEMMA DrawElemMaps ==
  ASSUME ServiceInv, NEW d \in Elem, DrawElem(d), ledger' \in Ledgers
  PROVE  Service!Draw
<1>. DEFINE l == Paint(ledger, d)
<1>1. TypeOK /\ pc \in Drawing /\ pc' \in Drawing
  BY DrawElemAdds DEF ServiceInv, RedrawInv, DrawElem, Drawing
<1>2. /\ l \in Ledgers /\ l.now \subseteq ledger.now
      /\ \A e \in l.now : l.gap[e] = ledger.gap[e]
  BY <1>1, PaintMaps
<1>3. ledger' = l \/ \E E \in SUBSET Elem : \E r : ledger' = Ask(l, E, r)
  <2>1. CASE NoRequest(l)
    BY <2>1 DEF NoRequest
  <2>2. ASSUME NEW m \in DrawMarks, MarkDirty(m, l) PROVE \E E \in SUBSET Elem : \E r : ledger' = Ask(l, E, r)
    <3>1. {m} \in SUBSET Elem /\ ledger' = Ask(l, {m}, [x \in {m} |-> GapOf(m, l)])
      BY <2>2, CallbackAssumption DEF MarkDirty
    <3>. QED  BY <3>1
  <2>3. ASSUME NEW s \in DrawInvalidates, SurfaceInvalidate(s, l)
        PROVE  \E E \in SUBSET Elem : \E r : ledger' = Ask(l, E, r)
    <3>1. {s} \cup Inside(s) \in SUBSET Elem
      BY CallbackAssumption, AboveFacts DEF Inside
    <3>. QED  BY <2>3, <3>1 DEF SurfaceInvalidate
  <2>. QED  BY <2>1, <2>2, <2>3 DEF DrawElem
<1>. HIDE DEF l
<1>4. Honoured(ledger.now)' \subseteq Honoured(ledger.now)
  <2>1. CASE ledger' = l
    BY <1>2, <2>1 DEF Honoured
  <2>2. ASSUME NEW E \in SUBSET Elem, NEW r, ledger' = Ask(l, E, r)
        PROVE  Honoured(ledger.now)' \subseteq Honoured(ledger.now)
    BY <1>1, <1>2, <2>2, AskMaps
  <2>. QED  BY <1>3, <2>1, <2>2
<1>. QED  BY <1>1, <1>4, DrawMaps

LEMMA PaintDraws ==
  ASSUME ServiceInv, NEW d \in Elem, ledger' = Paint(ledger, d), ledger' \in Ledgers,
         pc' \in Drawing, pc \in Drawing \/ (pc = "start" /\ ~force_redraw)
  PROVE  Service!Draw
<1>1. /\ ledger'.now \subseteq ledger.now
      /\ \A e \in ledger'.now : ledger'.gap[e] = ledger.gap[e]
  BY PaintMaps DEF ServiceInv, RedrawInv
<1>2. Honoured(ledger.now)' \subseteq Honoured(ledger.now)
  BY <1>1 DEF Honoured
<1>. QED  BY <1>2, DrawMaps

LEMMA NextMaps == ServiceInv /\ [Next]_vars => [Service!Next]_(Service!service)
<1>. SUFFICES ASSUME ServiceInv, [Next]_vars PROVE Service!Next \/ UNCHANGED Service!service
  OBVIOUS
<1>0. TypeOK /\ ledger \in Ledgers /\ ledger' \in Ledgers
  BY NextTyped DEF ServiceInv, RedrawInv, TypeOK, Ledgers
<1>1. ASSUME NEW e \in Elem, AppMark(e) PROVE Service!Next
  <2>1. {e} \in SUBSET Elem /\ ledger' = Ask(ledger, {e}, [x \in {e} |-> GapOf(e, ledger)])
    BY <1>1 DEF AppMark, MarkDirty
  <2>. QED  BY <1>0, <1>1, <2>1, RequestMaps DEF AppMark
<1>2. ASSUME NEW s \in Surface, AppInvalidate(s) PROVE Service!Next
  <2>1. {s} \cup Inside(s) \in SUBSET Elem
    BY AboveFacts DEF Inside
  <2>. QED  BY <1>0, <1>2, <2>1, RequestMaps DEF AppInvalidate, SurfaceInvalidate
<1>3. CASE Expose \/ VisibilityNotify
  BY <1>3, SilentMaps DEF Expose, VisibilityNotify, window
<1>4. CASE Reinit
  <2>1. pc = "idle" /\ pc' = "idle" /\ ledger.next = {} /\ ledger'.next = {}
    BY <1>4 DEF Reinit, ServiceInv, Framed
  <2>2. /\ Honoured(ledger.next)' = {} /\ Honoured(ledger.next) = {}
        /\ Honoured(ledger.now)' = Elem /\ Honoured(ledger.now) \subseteq Elem
    BY <1>0, <1>4, <2>1 DEF Reinit, Honoured, Ledgers
  <2>3. Service!Request
    BY <2>1, <2>2 DEF Service!Request, Drawing
  <2>. QED  BY <2>3 DEF Service!Next
<1>5. ASSUME NEW force \in ForceRedraw, FrameStart(force) PROVE Service!Next \/ UNCHANGED Service!service
  <2>1. /\ pc = "idle" /\ pc' = "start" /\ force_redraw' = force /\ ledger' = ledger
        /\ Honoured(ledger.now)' = Honoured(ledger.now) /\ Honoured(ledger.next)' = Honoured(ledger.next)
    BY <1>5 DEF FrameStart, Honoured
  <2>2. CASE force
    BY <2>1, <2>2 DEF Service!service, Drawing
  <2>3. CASE ~force
    <3>1. Service!Begin
      BY <2>1, <2>3 DEF Service!Begin, Drawing
    <3>. QED  BY <3>1 DEF Service!Next
  <2>. QED  BY <2>2, <2>3
<1>6. CASE NothingToDraw
  <2>1. /\ pc = "start" /\ pc' = "idle" /\ force_redraw' = force_redraw /\ (~dirty \/ force_redraw)
        /\ Honoured(ledger.now)' = Honoured(ledger.now) /\ Honoured(ledger.next)' = Honoured(ledger.next)
    BY <1>6 DEF NothingToDraw, Honoured, window
  <2>2. CASE force_redraw
    BY <2>1, <2>2 DEF Service!service, Drawing
  <2>3. CASE ~force_redraw
    <3>1. Honoured(ledger.now) = {}
      BY <2>1, <2>3 DEF ServiceInv, Kept, Awaited, Honoured
    <3>2. Service!Skip
      BY <2>1, <2>3, <3>1 DEF Service!Skip, Drawing
    <3>. QED  BY <3>2 DEF Service!Next
  <2>. QED  BY <2>2, <2>3
<1>7. CASE DrawWindow \/ DrawOverlay
  <2>1. Win \in Elem /\ Overlay \in Elem
    BY TreeAssumption
  <2>2. Service!Draw
    BY <1>0, <1>7, <2>1, PaintDraws DEF DrawWindow, DrawOverlay, Drawing
  <2>. QED  BY <2>2 DEF Service!Next
<1>8. ASSUME NEW d \in Elem, DrawElem(d) PROVE Service!Next
  BY <1>0, <1>8, DrawElemMaps DEF Service!Next
<1>9. ASSUME NEW d \in Elem, DrawSurface(d) PROVE Service!Next
  <2>1. pc \in Drawing /\ pc' \in Drawing /\ ledger' = Paint(ledger, d)
    BY <1>9, TurnFacts DEF DrawSurface, ServiceInv, Drawing
  <2>. QED  BY <1>0, <2>1, PaintDraws DEF Service!Next
<1>10. CASE PopQueue \/ CloseSurface \/ FrameEnd
  BY <1>10, SilentMaps DEF PopQueue, CloseSurface, FrameEnd, window, Drawing
<1>11. CASE Finish
  <2>1. /\ pc = "overlay" /\ pc' = "idle"
        /\ ledger'.now = ledger.now \cup ledger.next /\ ledger'.next = {} /\ ledger'.gap = ledger.gap
    BY <1>0, <1>11 DEF Finish, Ledgers
  <2>2. \A e \in ledger.now : ledger.gap[e] # "none"
    BY <1>11, FinishFacts
  <2>3. /\ Honoured(ledger.now) = {} /\ Honoured(ledger.next)' = {}
        /\ Honoured(ledger.now)' = Honoured(ledger.next)
    BY <2>1, <2>2 DEF Honoured
  <2>4. Service!End
    BY <2>1, <2>3 DEF Service!End, Drawing
  <2>. QED  BY <2>4 DEF Service!Next
<1>12. CASE UNCHANGED vars
  BY <1>12, SilentMaps DEF vars, window
<1>. QED  BY <1>1, <1>2, <1>3, <1>4, <1>5, <1>6, <1>7, <1>8, <1>9, <1>10, <1>11, <1>12
       DEF Next, FrameStep, DrawStep

\* For every tree the pipeline, with its queues, its redraws inside redraws and
\* its dirty flag, gives what RedrawService promises: what is due when a frame
\* opens is served by it, and a frame is skipped only if nothing is due.
THEOREM ServiceImplemented == Spec => ImplementsService
<1>1. Init => Service!Init
  BY DEF Init, Service!Init, Honoured, Drawing
<1>. QED  BY <1>1, InitServes, NextServes, NextMaps, PTL DEF Spec, ImplementsService, Service!Spec
===============================================================================
