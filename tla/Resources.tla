------------------------------- MODULE Resources -------------------------------
(***************************************************************************)
(* What elements share: the descriptors of their types (atom.c), the list  *)
(* of styles, resolved against those descriptors (style.c), and the fonts  *)
(* that styles and applications load (text/font-manager.c). A type is its  *)
(* name; an address is where a descriptor or a texture font is allocated,  *)
(* and once freed it may come back for another.                            *)
(***************************************************************************)
EXTENDS Integers, FiniteSetsExt, SequencesExt

CONSTANTS
  Elem, Win,    \* Win is the window
  Chain,        \* Chain[e]: the types e is made of, the base type first
  Styles,       \* the style list: the type each is for, and the font it has
  External,     \* fonts the application loads from files
  Key,          \* Key[f]: the face and size of a font
  None,         \* NULL; of a style, no font
  Address,
  MaxAttached,  \* how often an element is attached while its type
                \* has not leaked (a bound of the model)
  MaxDpi        \* how often the resolution changes (a bound of the model)

Style == DOMAIN Styles
Font  == Style \cup External
Names(e) == ToSet(Chain[e])
Type  == UNION {Names(e) : e \in Elem}

\* A type atom's descriptor, and a texture font.
Descriptor  == [name : Type, refs : Nat \ {0}, super : SUBSET Address]
TextureFont == [key : {Key[f] : f \in Font}, refs : Nat \ {0}, dpi : Nat]

\* A type has the same supertypes wherever it occurs, and all go up to one.
ASSUME ResourcesAssumption ==
  /\ Win \in Elem /\ IsFiniteSet(Elem) /\ MaxAttached \in Nat /\ MaxDpi \in Nat
  /\ \A e \in Elem : /\ Chain[e] \in Seq(Type) /\ Chain[e] # <<>>
                     /\ Head(Chain[e]) = Head(Chain[Win])
  /\ \A d, e \in Elem : \A i \in DOMAIN Chain[d], j \in DOMAIN Chain[e] :
       Chain[d][i] = Chain[e][j] => i = j /\ \A k \in 1 .. i : Chain[d][k] = Chain[e][k]
  /\ Styles \in Seq(ToSet(Styles)) /\ Styles # <<>> /\ Last(Styles).for = Head(Chain[Win])
  /\ IsFiniteSet(External) /\ External \cap Style = {}
  /\ None \notin Address \cup Descriptor \cup TextureFont

VARIABLES
  phase,     \* of the window and rutabaga: "new", "open", "closed", "freed"
  desc,      \* rtb->atoms.type: the descriptors, by address
  type,      \* elem->type
  times,     \* history: how often an element has been attached since its init
  leaked,    \* history: types of elements that were attached more than once
  attached,
  resolved,  \* style->resolved_type
  inherit,   \* style->inherit_from, 0 for none
  style,     \* elem->style, 0 for none
  stale,     \* history: the styles whose resolved_type has been freed
  txfont,    \* font->txfont, by style or external font
  tx,        \* texture fonts, by address
  managed,   \* fm->managed_fonts
  dpi

types  == <<desc, type, times, leaked, attached>>
styles == <<resolved, inherit, style, stale>>
fonts  == <<txfont, tx, managed, dpi>>
vars   == <<phase, types, styles, fonts>>

Init ==
  /\ phase = "new"
  /\ desc = [a \in Address |-> None] /\ type = [e \in Elem |-> None]
  /\ times = [e \in Elem |-> 0] /\ leaked = {} /\ attached = {}
  /\ resolved = [s \in Style |-> None] /\ inherit = [s \in Style |-> 0]
  /\ style = [e \in Elem |-> 0] /\ stale = {}
  /\ txfont = [f \in Font |-> None] /\ tx = [a \in Address |-> None]
  /\ managed = {} /\ dpi = 0

-------------------------------------------------------------------------------
(***************************************************************************)
(* Descriptors. A descriptor keeps the descriptors of all its supertypes.  *)
(***************************************************************************)
Free(heap) == {a \in Address : heap[a] = None}

\* rtb_type_lookup
Lookup(heap, name) ==
  LET found == {a \in Address : heap[a] # None /\ heap[a].name = name}
  IN  IF found = {} THEN None ELSE CHOOSE a \in found : TRUE

Missing(e) == {n \in Names(e) : Lookup(desc, n) = None}

\* rtb_type_ref, called by the attached() of every class of e in turn. at says
\* where each of its types is, or is now allocated.
RefChain(e, at) ==
  [a \in Address |->
     IF \E n \in Names(e) : at[n] = a
     THEN LET i == CHOOSE i \in DOMAIN Chain[e] : at[Chain[e][i]] = a IN
          IF desc[a] # None THEN [desc[a] EXCEPT !.refs = @ + 1]
          ELSE [name |-> Chain[e][i], refs |-> 1, super |-> {at[Chain[e][j]] : j \in 1 .. i - 1}]
     ELSE desc[a]]

\* Mutation: the descriptors of the supertypes are not released.
UnrefOne(a) ==
  [b \in Address |->
     IF b # a THEN desc[b]
     ELSE IF desc[b].refs = 1 THEN None ELSE [desc[b] EXCEPT !.refs = @ - 1]]

\* rtb_type_unref: the supertypes first, then the type.
Unref(a) ==
  [b \in Address |->
     IF b # a /\ b \notin desc[a].super THEN desc[b]
     ELSE IF desc[b].refs = 1 THEN None ELSE [desc[b] EXCEPT !.refs = @ - 1]]

-------------------------------------------------------------------------------
(***************************************************************************)
(* Styles                                                                  *)
(***************************************************************************)
FirstStyle(S) == IF S = {} THEN 0 ELSE Min(S)

\* Mutation: what is resolved is looked up again.
UnresolvedAll == Style

\* rtb_style_resolve_list skips a style that has been resolved once.
Unresolved == {s \in Style : resolved[s] = None}

\* style_resolve
Resolve(heap) ==
  [s \in Style |-> IF s \in Unresolved THEN Lookup(heap, Styles[s].for) ELSE resolved[s]]

Orphans(res) == {s \in Style : res[s] # None /\ inherit[s] = 0}

\* inherits_from: the first style in the list for a supertype. At an address
\* that has been freed there is no telling what is read for the supertypes.
InheritsFrom(heap, res, s) ==
  IF heap[res[s]] = None THEN 0
  ELSE FirstStyle({t \in Style : res[t] \in heap[res[s]].super})

Inherit(heap, res) ==
  [s \in Style |-> IF s \in Orphans(res) THEN InheritsFrom(heap, res, s) ELSE inherit[s]]

\* Mutation: the supertypes are not looked at.
StyleForTypeExact(heap, res, a) == FirstStyle({s \in Style : res[s] = a})

\* style_for_type, rtb_is_type: the first in the list that is for the type at a
\* or one of its supertypes.
StyleForType(heap, res, a) == FirstStyle({s \in Style : res[s] \in {a} \cup heap[a].super})

-------------------------------------------------------------------------------
(***************************************************************************)
(* Fonts                                                                   *)
(***************************************************************************)
HasFont(s) == Styles[s].font # None

\* find_duplicate_embedded_txfont, find_duplicate_external_txfont: among the
\* managed fonts, which external ones never are.
Duplicate(f) ==
  IF f \in External THEN {}
  ELSE {txfont[g] : g \in {g \in managed : Key[g] = Key[f]}}

\* load_assets: the fonts of the styles that have just been resolved are loaded,
\* one texture font for each face and size. where is where one is allocated.
LoadFonts(new, where) ==
  /\ \A f, g \in new : where[f] = where[g] <=> Key[f] = Key[g]
  /\ \A f \in new : IF Duplicate(f) # {} THEN where[f] \in Duplicate(f) ELSE tx[where[f]] = None
  /\ txfont' = [f \in Font |-> IF f \in new THEN where[f] ELSE txfont[f]]
  /\ tx' = [a \in Address |->
              LET users == {f \in new : where[f] = a} IN
              IF users = {} THEN tx[a]
              ELSE IF tx[a] # None THEN [tx[a] EXCEPT !.refs = @ + Cardinality(users)]
              ELSE [key |-> Key[CHOOSE f \in users : TRUE], refs |-> Cardinality(users), dpi |-> dpi]]
  /\ managed' = managed \cup (new \ External)

\* rtb_texture_font_unref, for each font that is gone
UnrefFonts(gone) ==
  [a \in Address |->
     LET users == Cardinality({f \in gone : txfont[f] = a}) IN
     IF tx[a] = None \/ users = 0 THEN tx[a]
     ELSE IF tx[a].refs = users THEN None ELSE [tx[a] EXCEPT !.refs = @ - users]]

LoadExternal(f) ==
  /\ phase = "open" /\ txfont[f] = None
  /\ \E a \in Free(tx) : LoadFonts({f}, [g \in {f} |-> a])
  /\ UNCHANGED <<phase, types, styles, dpi>>

FreeExternal(f) ==
  /\ phase = "open" /\ txfont[f] # None
  /\ tx' = UnrefFonts({f}) /\ txfont' = [txfont EXCEPT ![f] = None]
  /\ UNCHANGED <<phase, types, styles, managed, dpi>>

\* The texture fonts of managed fonts; a shared one is built once for each font.
Rebuilt == {txfont[f] : f \in managed}

\* rtb_font_manager_set_dpi empties the atlas.
SetDpi ==
  /\ phase = "open" /\ dpi < MaxDpi /\ dpi' = dpi + 1
  /\ tx' = [a \in Address |-> IF a \in Rebuilt THEN [tx[a] EXCEPT !.dpi = dpi'] ELSE tx[a]]
  /\ UNCHANGED <<phase, types, styles, txfont, managed>>

-------------------------------------------------------------------------------
(***************************************************************************)
(* Elements                                                                *)
(***************************************************************************)

\* rtb_elem_add_child, and the attached() of the window when it is mapped: the
\* types of e are referred to, the list is resolved, and every element in the
\* tree that has no style is given one.
Attach(e) ==
  /\ phase = "open" /\ e \notin attached
  /\ times[e] < IF Last(Chain[e]) \in leaked THEN 1 ELSE MaxAttached
  /\ e = Win \/ Win \in attached
  /\ \E alloc \in [Missing(e) -> Free(desc)] :
       /\ IsInjective(alloc)
       /\ LET at   == [n \in Names(e) |-> IF n \in Missing(e) THEN alloc[n] ELSE Lookup(desc, n)]
              heap == RefChain(e, at)
              res  == Resolve(heap)
              new  == {s \in Unresolved : res[s] # None /\ HasFont(s)}
          IN  /\ desc' = heap /\ resolved' = res
              /\ inherit' = Inherit(heap, res)
              /\ type' = [type EXCEPT ![e] = at[Last(Chain[e])]]
              /\ attached' = attached \cup {e}
              /\ style' = [x \in Elem |->
                             IF x \in attached' /\ style[x] = 0
                             THEN StyleForType(heap, res, type'[x]) ELSE style[x]]
              /\ \E where \in [new -> Address] : LoadFonts(new, where)
  /\ times' = [times EXCEPT ![e] = @ + 1]
  /\ UNCHANGED <<phase, leaked, stale, dpi>>

\* rtb_elem_remove_child: detached() forgets the style and keeps the type.
Detach(e) ==
  /\ phase = "open" /\ e \in attached \ {Win}
  /\ attached' = attached \ {e} /\ style' = [style EXCEPT ![e] = 0]
  /\ UNCHANGED <<phase, desc, type, times, leaked, resolved, inherit, stale, fonts>>

\* rtb_elem_fini; the element may be initialised anew.
Fini(e) ==
  /\ phase \in {"open", "closed"} /\ e \notin attached /\ type[e] # None
  /\ desc' = Unref(type[e])
  /\ type' = [type EXCEPT ![e] = None] /\ times' = [times EXCEPT ![e] = 0]
  /\ leaked' = leaked \cup IF times[e] > 1 THEN Names(e) ELSE {}
  /\ stale' = stale \cup {s \in Style : resolved[s] # None /\ desc[resolved[s]] # None
                                          /\ desc'[resolved[s]] = None}
  /\ UNCHANGED <<phase, attached, resolved, inherit, style, fonts>>

Open ==
  /\ phase = "new" /\ phase' = "open"
  /\ UNCHANGED <<types, styles, fonts>>

\* rtb_window_close: the fonts and the styles go, and the window's own type. The
\* elements that are still attached are the application's.
Close ==
  /\ phase = "open" /\ phase' = "closed"
  /\ \A f \in External : txfont[f] = None
  /\ tx' = UnrefFonts(managed) /\ txfont' = [f \in Font |-> None] /\ managed' = {}
  /\ desc' = IF type[Win] = None THEN desc ELSE Unref(type[Win])
  /\ type' = [type EXCEPT ![Win] = None]
  /\ attached' = {} /\ style' = [e \in Elem |-> 0]
  /\ resolved' = [s \in Style |-> None] /\ inherit' = [s \in Style |-> 0] /\ stale' = {}
  /\ UNCHANGED <<times, leaked, dpi>>

\* rtb_free_all_types; no element is finalised later.
FreeAllTypes ==
  /\ phase = "closed" /\ phase' = "freed"
  /\ desc' = [a \in Address |-> None] /\ type' = [e \in Elem |-> None]
  /\ UNCHANGED <<times, leaked, attached, styles, fonts>>

Next ==
  \/ \E e \in Elem : Attach(e) \/ Detach(e) \/ Fini(e)
  \/ \E f \in External : LoadExternal(f) \/ FreeExternal(f)
  \/ SetDpi \/ Open \/ Close \/ FreeAllTypes

Spec == Init /\ [][Next]_vars

-------------------------------------------------------------------------------
\* The types of the variables.
TypeOK ==
  /\ phase \in {"new", "open", "closed", "freed"}
  /\ desc \in [Address -> Descriptor \cup {None}] /\ tx \in [Address -> TextureFont \cup {None}]
  /\ type \in [Elem -> Address \cup {None}] /\ attached \subseteq Elem
  /\ times \in [Elem -> Nat] /\ leaked \subseteq Type
  /\ resolved \in [Style -> Address \cup {None}]
  /\ inherit \in [Style -> {0} \cup Style] /\ style \in [Elem -> {0} \cup Style]
  /\ stale \subseteq Style /\ txfont \in [Font -> Address \cup {None}] /\ managed \subseteq Style
  /\ dpi \in Nat

\* An element's descriptor is there, named for the element's class, with those of
\* all its superclasses: although the superclasses' counts are shared with other
\* classes, none of them is freed before its subclasses.
TypesLive ==
  \A e \in Elem : type[e] # None =>
    /\ desc[type[e]] # None /\ desc[type[e]].name = Last(Chain[e])
    /\ \A a \in desc[type[e]].super : desc[a] # None
    /\ {desc[a].name : a \in desc[type[e]].super} = ToSet(Front(Chain[e]))

\* A descriptor goes with the last element of its class, if none of its class was
\* attached twice: rtb_elem_fini gives back the references of one attachment.
FreedWithLast ==
  phase # "freed" => \A a \in Address : desc[a] # None =>
    desc[a].name \in leaked \cup UNION {Names(e) : e \in {e \in Elem : type[e] # None}}

Listed(names) == FirstStyle({s \in Style : Styles[s].for \in names})

\* An element has the first style of the list that is for one of its types, and a
\* style inherits from the first for one of its supertypes, whatever was attached
\* when; but a style goes astray once the last element of its type is finalised:
\* it is not resolved again (style.c:290), and its address may come to be another's.
StyledByList ==
  /\ \A e \in attached :
       style[e] = Listed(Names(e)) \/ {style[e], Listed(Names(e))} \cap stale # {}
  /\ \A e \in attached, s \in Style :
       Styles[s].for = Last(Chain[e]) /\ s \notin stale =>
         LET first == Listed(ToSet(Front(Chain[e]))) IN
         inherit[s] = first \/ {inherit[s], first} \cap stale # {}

\* A query goes up inherit_from to an end, even through styles gone astray.
QueriesEnd == \A S \in SUBSET Style : S # {} => \E s \in S : inherit[s] \notin S

\* A texture font is there as long as a font uses it and no longer, managed fonts
\* of one face and size share one, and a change of resolution reaches them all.
\* (Fonts of the application's are not managed and keep the old one.)
FontsShared ==
  /\ \A a \in Address :
       LET users == {f \in Font : txfont[f] = a}
       IN  IF users = {} THEN tx[a] = None ELSE tx[a] # None /\ tx[a].refs = Cardinality(users)
  /\ \A f, g \in managed :
       /\ Key[f] = Key[g] <=> txfont[f] = txfont[g]
       /\ tx[txfont[f]].key = Key[f] /\ tx[txfont[f]].dpi = dpi

\* Of the descriptors: there as long as they are used, and no longer.
TypesCounted == TypeOK /\ TypesLive /\ FreedWithLast

\* Of the styles: the right one is found, and every query of it ends.
StylesSound == StyledByList /\ QueriesEnd
===============================================================================
