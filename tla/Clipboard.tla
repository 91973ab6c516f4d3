-------------------------------- MODULE Clipboard --------------------------------
(***************************************************************************)
(* The clipboard on X11.  A copy keeps the text and takes the CLIPBOARD    *)
(* selection; a paste returns the text kept or, when there is none, asks   *)
(* the selection's owner, polls for its answer a limited number of times,  *)
(* and reads the property the owner writes the text to, first its size and *)
(* then its value.  It all happens in the thread of the event loop, so the *)
(* program handles no event of its own while it polls.                     *)
(*                                                                         *)
(* The other client, the server and the events under way are external.     *)
(* MaxPolls is the number of polls, Long the texts that outgrow the word   *)
(* the second read asks for beyond the size, MaxAsked bounds the requests  *)
(* under way.                                                              *)
(***************************************************************************)
EXTENDS Naturals

CONSTANTS Text, Size, Long, MaxPolls, MaxAsked

ASSUME ClipboardAssumption ==
  /\ Size \in [Text -> Nat \ {0}] /\ Long \subseteq Text
  /\ MaxPolls \in Nat \ {0} /\ MaxAsked \in Nat

VARIABLES
  buffer,    \* the text kept, or None
  owner,     \* who owns the selection: "us", "other" or "nobody"
  theirs,    \* the other client's text
  clears,    \* SelectionClear events on their way to us
  asked,     \* our requests the other client has not answered
  selfAsked, \* our requests to ourselves the event loop has not come to
  theyAsk,   \* the other client is waiting for our text
  got,       \* what it last got: a text, or None when refused
  notes,     \* SelectionNotify events for us, unread
  prop,      \* the text in our window's property, or None
  pc, polls, \* what the paste is doing, and the polls so far
  ret,       \* the size it read
  result,    \* what the last paste returned
  clean,     \* it was asked with no earlier answer to come, to read or left
  left,      \* history: a text was left there that nothing tells us to read: a
             \* paste had no memory for it, or we wrote it for ourselves too late
  answer     \* the text written to the property since it was asked, if any

vars == << buffer, owner, theirs, clears, asked, selfAsked, theyAsk, got, notes, prop,
           pc, polls, ret, result, clean, left, answer >>

None == "none"
Empty == "empty"
Error == "error"
Garbage == "garbage"   \* more bytes than the property had

SizeOf(t) == IF t = None THEN 0 ELSE Size[t]

Init ==
  /\ buffer = None /\ owner \in {"nobody", "other"} /\ theirs \in Text
  /\ clears = 0 /\ asked = 0 /\ selfAsked = 0 /\ theyAsk = FALSE /\ got = None
  /\ notes = 0 /\ prop = None
  /\ pc = "idle" /\ polls = 0 /\ ret = 0
  /\ result = Empty /\ clean = FALSE /\ left = FALSE /\ answer = None

paste == << pc, polls, ret, result, clean, left, answer >>
others == << theirs, asked, theyAsk, got >>

-----------------------------------------------------------------------------
(* rtb_copy_to_clipboard.  Without memory for the text the selection stays   *)
(* with whoever has it.                                                      *)
rtb_copy_to_clipboard(t) ==
  /\ pc = "idle"
  /\ \/ buffer' = t /\ owner' = "us"
     \/ buffer' = None /\ UNCHANGED owner
  /\ UNCHANGED << others, clears, selfAsked, notes, prop, paste >>

(* rtb_paste_from_clipboard, up to its polls.  The server answers at once    *)
(* when nobody owns the selection.                                           *)
PasteKept ==
  /\ pc = "idle" /\ buffer # None
  /\ result' = buffer /\ clean' = FALSE /\ answer' = None
  /\ UNCHANGED << buffer, owner, others, clears, selfAsked, notes, prop, pc, polls, ret, left >>

\* The server refuses the request.
AskRefused ==
  /\ pc = "idle" /\ buffer = None
  /\ result' = Error /\ clean' = FALSE /\ answer' = None
  /\ UNCHANGED << buffer, owner, others, clears, selfAsked, notes, prop, pc, polls, ret, left >>

Ask ==
  /\ pc = "idle" /\ buffer = None /\ asked + selfAsked + notes < MaxAsked
  /\ pc' = "poll" /\ polls' = 0
  /\ clean' = (asked + selfAsked + notes = 0 /\ ~left) /\ answer' = None
  /\ asked' = IF owner = "other" THEN asked + 1 ELSE asked
  /\ selfAsked' = IF owner = "us" THEN selfAsked + 1 ELSE selfAsked
  /\ notes' = IF owner = "nobody" THEN notes + 1 ELSE notes
  /\ UNCHANGED << buffer, owner, theirs, theyAsk, got, clears, prop, ret, result, left >>

Poll ==
  /\ pc = "poll"
  /\ IF notes > 0 THEN notes' = notes - 1 /\ pc' = "size" /\ UNCHANGED polls
     ELSE /\ polls' = polls + 1
          /\ pc' = IF polls + 1 = MaxPolls THEN "size" ELSE "poll"
          /\ UNCHANGED notes
  /\ UNCHANGED << buffer, owner, others, clears, selfAsked, prop, ret, result, clean, left, answer >>

\* Without memory for the text it stays in the property.
ReadSize ==
  /\ pc = "size" /\ ret' = SizeOf(prop)
  /\ \/ pc' = "read" /\ UNCHANGED << result, left >>
     \/ pc' = "idle" /\ result' = Error /\ left' = (left \/ prop # None)
  /\ UNCHANGED << buffer, owner, others, clears, selfAsked, notes, prop, polls, clean, answer >>

\* Mutation: the second read does not delete.
DeletesNever == FALSE
\* A read that leaves nothing unread deletes the property; it asks for the
\* size read before and up to a word more.
Deletes == prop \notin Long \/ SizeOf(prop) <= ret

Fetched ==
  CASE SizeOf(prop) > ret -> Error
    [] SizeOf(prop) < ret -> Garbage
    [] OTHER -> IF prop = None THEN Empty ELSE prop

ReadValue ==
  /\ pc = "read" /\ pc' = "idle"
  /\ result' = Fetched
  /\ IF Deletes THEN prop' = None /\ left' = FALSE ELSE UNCHANGED << prop, left >>
  /\ UNCHANGED << buffer, owner, others, clears, selfAsked, notes, polls, ret, clean, answer >>

-----------------------------------------------------------------------------
(* The event loop: SelectionClear drops the text, whoever owns the selection *)
(* by now; SelectionRequest is answered with the text or refused.            *)
\* Mutation: the text is kept when the selection is lost.
ClearKept ==
  /\ pc = "idle" /\ clears > 0
  /\ clears' = clears - 1
  /\ UNCHANGED << buffer, owner, others, selfAsked, notes, prop, paste >>

handle_selection_clear ==
  /\ pc = "idle" /\ clears > 0
  /\ clears' = clears - 1 /\ buffer' = None
  /\ UNCHANGED << owner, others, selfAsked, notes, prop, paste >>

Written(t) == prop' = t /\ answer' = (IF pc = "idle" THEN answer ELSE t)

\* Our own request is answered after the paste that made it has given up.  The
\* notification goes to clients that look at the clipboard window's properties:
\* none does, so nothing tells us of the text.
AnswerOurselves ==
  /\ selfAsked > 0 /\ selfAsked' = selfAsked - 1
  /\ IF buffer # None THEN Written(buffer) /\ left' = TRUE
     ELSE UNCHANGED << prop, answer, left >>
  /\ UNCHANGED << theyAsk, got >>

AnswerThem ==
  /\ theyAsk /\ theyAsk' = FALSE /\ got' = buffer
  /\ UNCHANGED << selfAsked, prop, answer, left >>

handle_selection_request ==
  /\ pc = "idle"
  /\ AnswerOurselves \/ AnswerThem
  /\ UNCHANGED << buffer, owner, theirs, asked, clears, notes, pc, polls, ret, result, clean >>

-----------------------------------------------------------------------------
(* The other client: takes the selection with a text of its own, asks for    *)
(* ours, and answers or refuses what it was asked, when it comes to it.      *)
OtherCopies(t) ==
  /\ theirs' = t /\ owner' = "other"
  /\ clears < MaxAsked
  /\ clears' = IF owner = "us" THEN clears + 1 ELSE clears
  /\ UNCHANGED << buffer, asked, theyAsk, got, selfAsked, notes, prop, paste >>

OtherPastes ==
  /\ owner = "us" /\ theyAsk' = TRUE
  /\ UNCHANGED << buffer, owner, theirs, clears, asked, selfAsked, got, notes, prop, paste >>

OtherAnswers ==
  /\ asked > 0 /\ asked' = asked - 1 /\ notes' = notes + 1
  /\ \/ Written(theirs)
     \/ UNCHANGED << prop, answer >>
  /\ UNCHANGED << buffer, owner, theirs, clears, selfAsked, theyAsk, got, pc, polls, ret, result, clean, left >>

-----------------------------------------------------------------------------
Paste == PasteKept \/ AskRefused \/ Ask \/ Poll \/ ReadSize \/ ReadValue
Next ==
  \/ \E t \in Text : rtb_copy_to_clipboard(t) \/ OtherCopies(t)
  \/ Paste \/ handle_selection_clear \/ handle_selection_request
  \/ OtherPastes \/ OtherAnswers

Spec == Init /\ [][Next]_vars

-----------------------------------------------------------------------------
\* The types of the variables.
TypeOK ==
  /\ buffer \in Text \cup {None} /\ owner \in {"us", "other", "nobody"} /\ theirs \in Text
  /\ clears \in 0..MaxAsked /\ asked \in 0..MaxAsked /\ selfAsked \in 0..MaxAsked
  /\ theyAsk \in BOOLEAN /\ got \in Text \cup {None}
  /\ notes \in 0..MaxAsked /\ prop \in Text \cup {None}
  /\ pc \in {"idle", "poll", "size", "read"} /\ polls \in 0..MaxPolls
  /\ ret \in Nat /\ result \in Text \cup {Empty, Error, Garbage}
  /\ clean \in BOOLEAN /\ left \in BOOLEAN /\ answer \in Text \cup {None}

(* With the other client's answers in and the notifications read, no text is *)
(* left in the property for a later paste to take for its own, whatever came *)
(* late, but two: that of a paste without memory for it                      *)
(* (rtb_paste_from_clipboard), and that with which we answer our own request *)
(* (handle_selection_request).                                               *)
NoStaleProperty == pc = "idle" /\ asked + notes = 0 => prop = None \/ left

(* A paste asked with nothing late and nothing left in the property returns  *)
(* whole what the selection's owner wrote for it, or fails: never an earlier *)
(* text, nor bytes beyond the property's.                                    *)
CleanPasteWhole ==
  clean /\ pc = "idle" => result \in {Empty, Error, answer} \ {None}

(* The text kept is dropped once the loss of the selection is known: a paste *)
(* never returns a text of ours after another client's copy was handled.     *)
KeptIsOwned == buffer # None /\ clears = 0 => owner = "us"

(* Of what a paste returns, whoever answers it and when.                     *)
PasteSound == TypeOK /\ CleanPasteWhole
===============================================================================
