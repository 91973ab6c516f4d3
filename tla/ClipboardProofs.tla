---------------------------- MODULE ClipboardProofs ----------------------------
(***************************************************************************)
(* Theorems about the clipboard, for all texts, sizes and bounds.          *)
(***************************************************************************)
EXTENDS Clipboard, TLAPS

-------------------------------------------------------------------------------
(***************************************************************************)
(* The types                                                               *)
(***************************************************************************)

\* The answers to come and the notifications to read.
Pending == asked + selfAsked + notes

\* TypeOK bounds each of them; what keeps it is the bound of the sum.
Typed == TypeOK /\ Pending <= MaxAsked /\ (pc = "poll" => polls < MaxPolls)

LEMMA SizeFacts ==
  ASSUME NEW t \in Text \cup {None}
  PROVE  SizeOf(t) \in Nat /\ (SizeOf(t) # 0 => t # None) /\ (t = None => SizeOf(t) = 0)
BY ClipboardAssumption DEF SizeOf

LEMMA FetchedFacts ==
  ASSUME TypeOK
  PROVE  Fetched \in Text \cup {Empty, Error, Garbage}
BY DEF TypeOK, Fetched

LEMMA InitTyped == Init => Typed
<1>. SUFFICES ASSUME Init PROVE Typed
  OBVIOUS
<1>1. theyAsk \in BOOLEAN /\ clean \in BOOLEAN /\ left \in BOOLEAN
  BY Zenon DEF Init
<1>. QED  BY <1>1, ClipboardAssumption DEF Init, Typed, TypeOK, Pending, Empty, None

LEMMA NextTyped == Typed /\ [Next]_vars => Typed'
<1>. SUFFICES ASSUME Typed, [Next]_vars PROVE Typed'
  OBVIOUS
<1>. USE ClipboardAssumption DEF Typed, TypeOK, Pending
<1>1. ASSUME NEW t \in Text, rtb_copy_to_clipboard(t) PROVE Typed'
  BY <1>1 DEF rtb_copy_to_clipboard, others, paste
<1>2. CASE PasteKept
  BY <1>2 DEF PasteKept, others
<1>3. CASE AskRefused
  BY <1>3 DEF AskRefused, others
<1>4. CASE Ask
  BY <1>4 DEF Ask
<1>5. CASE Poll
  BY <1>5 DEF Poll, others
<1>6. CASE ReadSize
  BY <1>6, SizeFacts DEF ReadSize, others
<1>7. CASE ReadValue
  BY <1>7, FetchedFacts DEF ReadValue, others
<1>8. CASE handle_selection_clear
  BY <1>8 DEF handle_selection_clear, others, paste
<1>9. CASE handle_selection_request
  <2>1. theyAsk' \in BOOLEAN /\ left' \in BOOLEAN
    BY <1>9, Zenon DEF handle_selection_request, AnswerOurselves, AnswerThem
  <2>. QED  BY <1>9, <2>1 DEF handle_selection_request, AnswerOurselves, AnswerThem, Written
<1>10. ASSUME NEW t \in Text, OtherCopies(t) PROVE Typed'
  BY <1>10 DEF OtherCopies, paste
<1>11. CASE OtherPastes
  BY <1>11 DEF OtherPastes, paste
<1>12. CASE OtherAnswers
  BY <1>12 DEF OtherAnswers, Written
<1>13. CASE UNCHANGED vars
  BY <1>13 DEF vars
<1>. QED
  BY <1>1, <1>2, <1>3, <1>4, <1>5, <1>6, <1>7, <1>8, <1>9, <1>10, <1>11, <1>12, <1>13
     DEF Next, Paste

\* For any texts of any sizes the variables keep their types: the notifications
\* a paste left unread and the requests still open stay as few as were made.
THEOREM TypeCorrect == Spec => []TypeOK
<1>1. Typed => TypeOK
  BY DEF Typed
<1>. QED  BY <1>1, InitTyped, NextTyped, PTL DEF Spec

-------------------------------------------------------------------------------
(***************************************************************************)
(* The text that is kept                                                   *)
(***************************************************************************)
LEMMA NextKept == Typed /\ KeptIsOwned /\ [Next]_vars => KeptIsOwned'
<1>. SUFFICES ASSUME Typed, KeptIsOwned, [Next]_vars PROVE KeptIsOwned'
  OBVIOUS
<1>. USE DEF Typed, TypeOK, KeptIsOwned
<1>1. ASSUME NEW t \in Text, rtb_copy_to_clipboard(t) PROVE KeptIsOwned'
  BY <1>1 DEF rtb_copy_to_clipboard
<1>2. ASSUME NEW t \in Text, OtherCopies(t) PROVE KeptIsOwned'
  BY <1>2 DEF OtherCopies
<1>3. CASE handle_selection_clear
  BY <1>3 DEF handle_selection_clear
<1>4. CASE Paste \/ handle_selection_request \/ OtherPastes \/ OtherAnswers
  BY <1>4 DEF Paste, PasteKept, AskRefused, Ask, Poll, ReadSize, ReadValue,
              handle_selection_request, AnswerOurselves, AnswerThem, OtherPastes, OtherAnswers
<1>5. CASE UNCHANGED vars
  BY <1>5 DEF vars
<1>. QED  BY <1>1, <1>2, <1>3, <1>4, <1>5 DEF Next

\* Whatever copies and events come in between, a text is kept only while the
\* selection is ours or its loss is still on its way to us.
THEOREM KeptOnlyWhileOwned == Spec => []KeptIsOwned
<1>1. Init => Typed /\ KeptIsOwned
  BY InitTyped DEF Init, KeptIsOwned
<1>2. Typed /\ KeptIsOwned /\ [Next]_vars => (Typed /\ KeptIsOwned)'
  BY NextTyped, NextKept
<1>. QED  BY <1>1, <1>2, PTL DEF Spec

-------------------------------------------------------------------------------
(***************************************************************************)
(* What a paste leaves behind                                              *)
(***************************************************************************)

\* Between its two reads the property grows only if an answer comes, which
\* leaves a notification to read.
ReadsAll == pc = "read" /\ asked + notes = 0 => SizeOf(prop) <= ret

LeavesNothing == Typed /\ NoStaleProperty /\ ReadsAll

LEMMA NextLeaves == LeavesNothing /\ [Next]_vars => LeavesNothing'
<1>. SUFFICES ASSUME LeavesNothing, [Next]_vars PROVE (NoStaleProperty /\ ReadsAll)'
  BY NextTyped DEF LeavesNothing
<1>. USE DEF LeavesNothing, Typed, TypeOK, NoStaleProperty, ReadsAll, Pending
<1>1. ASSUME NEW t \in Text, rtb_copy_to_clipboard(t) PROVE (NoStaleProperty /\ ReadsAll)'
  BY <1>1 DEF rtb_copy_to_clipboard, others, paste
<1>2. ASSUME NEW t \in Text, OtherCopies(t) PROVE (NoStaleProperty /\ ReadsAll)'
  BY <1>2 DEF OtherCopies, paste
<1>3. CASE PasteKept \/ AskRefused \/ handle_selection_clear \/ OtherPastes
  BY <1>3 DEF PasteKept, AskRefused, handle_selection_clear, OtherPastes, others, paste
<1>4. CASE Ask
  BY <1>4 DEF Ask
<1>5. CASE Poll
  BY <1>5 DEF Poll, others
<1>6. CASE ReadSize
  <2>1. pc' = "read" => SizeOf(prop)' <= ret'
    BY <1>6, SizeFacts DEF ReadSize, SizeOf
  <2>2. pc' = "idle" => prop' = None \/ left'
    BY <1>6, Zenon DEF ReadSize
  <2>. QED  BY <2>1, <2>2 DEF NoStaleProperty, ReadsAll
<1>7. CASE ReadValue
  BY <1>7, SizeFacts DEF ReadValue, Deletes, others
<1>8. CASE handle_selection_request
  <2>1. pc = "idle" /\ pc' = "idle" /\ asked' = asked /\ notes' = notes
    BY <1>8 DEF handle_selection_request
  <2>2. left' \/ (left' = left /\ prop' = prop)
    BY <1>8, Zenon DEF handle_selection_request, AnswerOurselves, AnswerThem
  <2>. QED  BY <2>1, <2>2
<1>9. CASE OtherAnswers
  BY <1>9 DEF OtherAnswers
<1>10. CASE UNCHANGED vars
  BY <1>10 DEF vars, SizeOf
<1>. QED  BY <1>1, <1>2, <1>3, <1>4, <1>5, <1>6, <1>7, <1>8, <1>9, <1>10 DEF Next, Paste

\* However late the answers come and whatever replaces the property between the
\* two reads, once all is in and read no text is left for a later paste to take,
\* but by a paste that had no memory for it or by our answer to ourselves.
THEOREM PastesLeaveNothing == Spec => []NoStaleProperty
<1>1. Init => LeavesNothing
  BY InitTyped DEF Init, LeavesNothing, NoStaleProperty, ReadsAll
<1>2. LeavesNothing => NoStaleProperty
  BY DEF LeavesNothing
<1>. QED  BY <1>1, <1>2, NextLeaves, PTL DEF Spec

-------------------------------------------------------------------------------
(***************************************************************************)
(* What a paste returns                                                    *)
(***************************************************************************)

\* A paste asked with nothing late has one answer to get, and finds in the
\* property that answer or nothing.
OneAnswer ==
  clean /\ pc # "idle" =>
    /\ prop = answer
    /\ asked <= 1 /\ (prop # None => asked = 0)

\* The answer may come between its two reads, when the first has found nothing.
NeverShort == clean /\ pc = "read" => ret <= SizeOf(prop)

Whole == LeavesNothing /\ CleanPasteWhole /\ OneAnswer /\ NeverShort

LEMMA NextWhole == Whole /\ [Next]_vars => Whole'
<1>. SUFFICES ASSUME Whole, [Next]_vars PROVE (CleanPasteWhole /\ OneAnswer /\ NeverShort)'
  BY NextLeaves DEF Whole
<1>. DEFINE Goal == CleanPasteWhole /\ OneAnswer /\ NeverShort
<1>0. LeavesNothing /\ TypeOK
  BY DEF Whole, LeavesNothing, Typed
<1>1. ASSUME NEW t \in Text, rtb_copy_to_clipboard(t) PROVE Goal'
  BY <1>1 DEF rtb_copy_to_clipboard, others, paste, Whole, CleanPasteWhole, OneAnswer, NeverShort
<1>2. ASSUME NEW t \in Text, OtherCopies(t) PROVE Goal'
  BY <1>2 DEF OtherCopies, paste, Whole, CleanPasteWhole, OneAnswer, NeverShort, SizeOf
<1>3. CASE PasteKept \/ AskRefused
  BY <1>3 DEF PasteKept, AskRefused, CleanPasteWhole, OneAnswer, NeverShort
<1>4. CASE handle_selection_clear \/ OtherPastes
  BY <1>4 DEF handle_selection_clear, OtherPastes, others, paste,
              Whole, CleanPasteWhole, OneAnswer, NeverShort, SizeOf
<1>5. CASE Ask
  <2>1. clean' => prop = None /\ asked = 0
    <3>1. clean' => asked + selfAsked + notes = 0 /\ ~left
      BY <1>5, Zenon DEF Ask
    <3>. QED  BY <1>0, <1>5, <3>1 DEF Ask, LeavesNothing, NoStaleProperty, TypeOK
  <2>. QED  BY <1>0, <1>5, <2>1 DEF Ask, TypeOK, CleanPasteWhole, OneAnswer, NeverShort
<1>6. CASE Poll
  BY <1>6 DEF Poll, others, Whole, CleanPasteWhole, OneAnswer, NeverShort
<1>7. CASE ReadSize
  BY <1>0, <1>7, SizeFacts DEF ReadSize, others, TypeOK, Whole, CleanPasteWhole, OneAnswer,
                               NeverShort, Error, Empty, None, SizeOf
<1>8. CASE ReadValue
  <2>1. clean => Fetched \in {Empty, Error, answer} \ {None}
    <3>. HAVE clean
    <3>1. prop = answer /\ ~(SizeOf(prop) < ret)
      BY <1>0, <1>8, SizeFacts DEF ReadValue, Whole, OneAnswer, NeverShort, TypeOK
    <3>. QED  BY <3>1 DEF Fetched, Empty, Error, None
  <2>. QED  BY <1>8, <2>1 DEF ReadValue, CleanPasteWhole, OneAnswer, NeverShort
<1>9. CASE handle_selection_request
  BY <1>9 DEF handle_selection_request, AnswerOurselves, AnswerThem, Written, Whole, CleanPasteWhole, OneAnswer, NeverShort
<1>10. CASE OtherAnswers
  <2>1. CASE pc = "idle"
    BY <1>10, <2>1 DEF OtherAnswers, Written, Whole, CleanPasteWhole, OneAnswer, NeverShort
  <2>2. CASE pc # "idle" /\ clean
    <3>1. prop = None /\ answer = None /\ asked = 1
      BY <1>0, <1>10, <2>2 DEF OtherAnswers, Whole, OneAnswer, TypeOK
    <3>2. pc = "read" => ret = 0
      BY <1>0, <2>2, <3>1, SizeFacts DEF Whole, NeverShort, TypeOK
    <3>3. prop' = answer' /\ prop' \in Text \cup {None}
      BY <1>0, <1>10, <2>2, <3>1 DEF OtherAnswers, Written, TypeOK
    <3>4. SizeOf(prop') \in Nat
      BY <3>3, SizeFacts
    <3>5. asked' = 0 /\ pc' = pc /\ ret' = ret
      BY <1>10, <3>1 DEF OtherAnswers
    <3>. QED  BY <2>2, <3>2, <3>3, <3>4, <3>5 DEF CleanPasteWhole, OneAnswer, NeverShort, SizeOf
  <2>3. CASE ~clean
    BY <1>10, <2>3 DEF OtherAnswers, CleanPasteWhole, OneAnswer, NeverShort
  <2>. QED  BY <2>1, <2>2, <2>3
<1>11. CASE UNCHANGED vars
  BY <1>11 DEF vars, Whole, CleanPasteWhole, OneAnswer, NeverShort, SizeOf
<1>. QED
  BY <1>1, <1>2, <1>3, <1>4, <1>5, <1>6, <1>7, <1>8, <1>9, <1>10, <1>11 DEF Next, Paste

\* For texts of every size: a paste asked with nothing late or left returns whole what
\* the owner of the selection wrote for it, or nothing, whenever that came.
THEOREM PastesAreWhole == Spec => []PasteSound
<1>1. Init => Whole
  <2>1. Init => LeavesNothing
    BY InitTyped DEF Init, LeavesNothing, NoStaleProperty, ReadsAll
  <2>. QED  BY <2>1 DEF Init, Whole, CleanPasteWhole, OneAnswer, NeverShort
<1>2. Whole => PasteSound
  BY DEF Whole, LeavesNothing, Typed, PasteSound
<1>. QED  BY <1>1, <1>2, NextWhole, PTL DEF Spec
===============================================================================
