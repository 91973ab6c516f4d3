----------------------------- MODULE TextInput -----------------------------
(***************************************************************************)
(* The text input widget: a buffer of UTF-8 bytes (text/text-buffer.c), a  *)
(* cursor that counts characters, the label that shows the text and the    *)
(* glyphs its text object made of it (widgets/text-input.c, label.c).      *)
(*                                                                         *)
(* A byte is <<character, place>>: place 1 is the byte that starts a       *)
(* sequence, any other a continuation byte.  Glyphs are one unit wide and  *)
(* the newline has none, so an x coordinate is a number of glyphs.         *)
(***************************************************************************)
EXTENDS Integers, Sequences, FiniteSets, SequencesExt

CONSTANTS
  Chars,      \* the characters that keys and texts are made of
  Newline,    \* the one among them that has no glyph and cannot be typed
  Bytes,      \* Bytes[c]: how many bytes encode c
  Texts,      \* what the application sets, as sequences of characters
  InnerWidths, \* the widths inner_rect may have
  MaxChars    \* bound: the most characters a key press may leave in the buffer

ASSUME CharsAssumption == Newline \in Chars /\ Bytes \in [Chars -> 1 .. 4]
ASSUME TextsAssumption == \A t \in Texts : t \in Seq(Chars) /\ Len(t) <= MaxChars
ASSUME WidthAssumption == InnerWidths \subseteq Nat /\ MaxChars \in Nat

VARIABLES
  data,      \* rtb_text_buffer: the bytes, the terminating NUL included
  cursor,    \* cursor_position
  shown,     \* label.text, as bytes
  attached,  \* in a window: the label has a text object
  styled,    \* restyled since: the label has a font
  tobj,      \* the bytes that the glyphs of the text object were made from
  inner,     \* the width of inner_rect
  offset,    \* label_offset
  bar,       \* where the line in cursor_vbo is, from the left of inner_rect
  clipped,   \* the last text set was longer than the nbytes passed with it
  damaged    \* memory outside of the buffer was written: nothing is defined after

vars == <<data, cursor, shown, attached, styled, tobj, inner, offset, bar, clipped, damaged>>

-----------------------------------------------------------------------------
NUL == <<"NUL", 1>>
Starts(b) == b[2] = 1               \* ~UTF8_IS_CONTINUATION

\* u8enc, and a text as a C string has it.
Encode(c) == [k \in 1 .. Bytes[c] |-> <<c, k>>]
EncodeAll(t) == FlattenSeq([i \in DOMAIN t |-> Encode(t[i])])

\* u8dec over a string, and u8chars: one character for every starting byte.
Decode(bytes) == [i \in DOMAIN SelectSeq(bytes, Starts) |-> SelectSeq(bytes, Starts)[i][1]]

\* A NUL ends what strdup and the text object see of the buffer.
CString(bytes) == SelectSeq(bytes, LAMBDA b : b # NUL)

-----------------------------------------------------------------------------
(***************************************************************************)
(* The buffer.  Offsets are those of the code, from 0; -1 is no such       *)
(* character.                                                              *)
(***************************************************************************)
\* The offset of the byte that starts character idx, the NUL counted as one.
StartsBefore(d, o) == Cardinality({i \in 1 .. o : Starts(d[i])})
\* Mutation: the search goes one character too far.
utf8_idxPast(d, idx) ==
  LET here == {o \in 0 .. Len(d) - 1 : Starts(d[o + 1]) /\ StartsBefore(d, o) = idx + 1}
  IN IF here = {} THEN -1 ELSE CHOOSE o \in here : TRUE
utf8_idx(d, idx) ==
  IF idx < 0 THEN 0
  ELSE LET here == {o \in 0 .. Len(d) - 1 : Starts(d[o + 1]) /\ StartsBefore(d, o) = idx}
       IN IF here = {} THEN -1 ELSE CHOOSE o \in here : TRUE

\* rtb_text_buffer_insert_u32: the bytes go where character after_idx starts.
insert_u32(d, idx, c) ==
  LET o == utf8_idx(d, idx)
  IN [data |-> IF o < 0 THEN d ELSE SubSeq(d, 1, o) \o Encode(c) \o SubSeq(d, o + 1, Len(d)),
      wild |-> o < 0]

\* The offset of the last byte at or before o that starts a sequence: -1, one
\* before the buffer, if there is none.
\* Mutation: the byte right before is taken.
SeekNowhere(d, o) == o
SeekBack(d, o) ==
  LET starts == {s \in 0 .. o : Starts(d[s + 1])}
  IN IF starts = {} THEN -1 ELSE CHOOSE s \in starts : \A t \in starts : t <= s

\* rtb_text_buffer_erase_char: the character in front of character idx.
erase_char(d, idx) ==
  LET end == utf8_idx(d, idx)
      start == SeekBack(d, end - 1)
      refused == Len(d) <= 1 \/ end < 0
  IN [data |-> IF refused THEN d
               ELSE SubSeq(d, 1, start) \o SubSeq(d, end + 1, Len(d)),
      ret |-> IF refused THEN -1 ELSE 0,
      wild |-> ~refused /\ start < 0]

-----------------------------------------------------------------------------
(***************************************************************************)
(* The text object and the cursor's line.                                  *)
(***************************************************************************)
Drawable(c) == c # Newline
Glyphs(bytes) == Len(SelectSeq(Decode(bytes), Drawable))     \* count_glyphs
Lines(bytes) == 1 + Len(SelectSeq(Decode(bytes), LAMBDA c : c = Newline))

\* How many glyphs there are between the start of the line and character i.
Column(t, i) == Cardinality({j \in 1 .. i - 1 : \A k \in j .. i - 1 : Drawable(t[k])})

\* tobj->w: the longest line, and one more.
Width(bytes) ==
  LET t == Decode(bytes)
  IN 1 + FoldSet(LAMBDA i, w : IF Column(t, i) > w THEN Column(t, i) ELSE w,
                 0, 1 .. Len(t) + 1)

\* rtb_text_object_get_glyph_rect: it fails, or where it says glyph idx is.
NoGlyph(bytes, idx) == idx < 0 \/ idx > Glyphs(bytes)
GlyphX(bytes, idx) ==
  LET t == Decode(bytes)
      i == CHOOSE j \in DOMAIN t :
             Drawable(t[j]) /\ Cardinality({k \in 1 .. j : Drawable(t[k])}) = idx
  IN Column(t, i)

\* update_cursor: the cursor is between a glyph and the next, or at the end.
CursorX(c, bytes) ==
  IF c <= 0 THEN 0
  ELSE IF NoGlyph(bytes, c + 1) THEN Width(bytes) ELSE GlyphX(bytes, c + 1)

\* The label is pulled right as long as it leaves room, then moved so that the
\* cursor is inside; each move reflows the input, which comes back here.
Pulled(o, w) == IF o < 0 /\ o + w < inner'
                THEN IF inner' - w < 0 THEN inner' - w ELSE 0
                ELSE o
\* Mutation: only a cursor left of the box moves the label.
MovedInRight(o, x) == IF o + x < 0 THEN -x ELSE o
MovedIn(o, x) == IF o + x < 0 THEN -x
                 ELSE IF o + x > inner' THEN inner' - x ELSE o

\* A text object that was never updated has no glyphs and no width.
UpdateCursor(c, bytes) ==
  LET x == IF styled' THEN CursorX(c, bytes) ELSE 0
      w == IF styled' THEN Width(bytes) ELSE 0
  IN /\ offset' = MovedIn(Pulled(offset, w), x)
     /\ bar' = offset' + x

\* fix_cursor: a position that no glyph has becomes the last one's.
Fixed(c) == IF c < 0 THEN 0 ELSE IF c > 0 /\ NoGlyph(tobj, c) THEN Glyphs(tobj) ELSE c

\* rtb_label_set_text with what the buffer holds: nothing for an equal text; a
\* label that has a font updates its text object, and only a text of another
\* size reflows the input, which puts the cursor's line where it belongs.
\* Mutation: the width is not compared.
ResizesTaller(bytes) == Lines(bytes) # Lines(tobj)
Resizes(bytes) == Width(bytes) # Width(tobj) \/ Lines(bytes) # Lines(tobj)
PostChange ==
  LET text == CString(data')
  IN /\ shown' = text
     /\ IF text # shown /\ styled
        THEN /\ tobj' = text
             /\ IF Resizes(text) THEN UpdateCursor(cursor', text)
                                 ELSE UNCHANGED <<offset, bar>>
        ELSE UNCHANGED <<tobj, offset, bar>>

-----------------------------------------------------------------------------

\* Adding the input to a window: the label makes a text object, still empty.
Attach ==
  /\ ~attached
  /\ attached' = TRUE
  /\ UNCHANGED <<data, cursor, shown, styled, tobj, inner, offset, bar, clipped, damaged>>

\* restyle finds the font: the label lays its text out and reflows the input.
Restyle ==
  /\ attached /\ ~styled
  /\ styled' = TRUE
  /\ tobj' = shown
  /\ UNCHANGED <<data, cursor, shown, attached, inner, clipped, damaged>>
  /\ UpdateCursor(cursor, shown)

\* Keys only come to an input that has the focus, from the window's event loop,
\* which runs when the window was restyled.
push_u32(c) ==
  LET new == insert_u32(data, cursor, c)
  IN /\ c # Newline
     /\ Len(Decode(data)) - 1 < MaxChars
     /\ data' = new.data
     /\ cursor' = cursor + 1
     /\ damaged' = new.wild
     /\ PostChange

pop_u32 ==
  LET new == erase_char(data, cursor)
  IN /\ data' = new.data
     /\ cursor' = IF new.ret # 0 THEN cursor ELSE cursor - 1
     /\ damaged' = new.wild
     /\ PostChange
delete_u32 ==
  LET new == erase_char(data, cursor + 1)
  IN /\ data' = new.data
     /\ cursor' = cursor
     /\ damaged' = new.wild
     /\ PostChange

Navigate(c) ==
  /\ cursor' = Fixed(c)
  /\ UpdateCursor(cursor', tobj)
  /\ UNCHANGED <<data, shown, tobj, damaged>>

Home == Navigate(0)
End == Navigate(Glyphs(tobj) + 1)          \* INT_MAX: beyond every glyph
Left == Navigate(cursor - 1)
Right == Navigate(cursor + 1)

KeyPress ==
  /\ styled
  /\ UNCHANGED <<attached, styled, inner>>
  /\ ~damaged
  /\ (\E c \in Chars : push_u32(c)) \/ pop_u32 \/ delete_u32 \/ Home \/ End \/ Left \/ Right
  /\ clipped' = (clipped /\ cursor' > Len(Decode(data')) - 1)

\* rtb_text_input_set_text copies nbytes of the text, all of it if nbytes is
\* negative, but counts the characters up to the NUL that ends the text.
SetText(t, nbytes) ==
  LET bytes == EncodeAll(t)
      copied == IF nbytes < 0 THEN bytes ELSE SubSeq(bytes, 1, nbytes)
  IN /\ ~damaged
     /\ data' = copied \o <<NUL>>
     /\ cursor' = Len(t)
     /\ clipped' = (Len(copied) < Len(bytes))
     /\ UNCHANGED <<attached, styled, inner, damaged>>
     /\ PostChange

\* nbytes says "all of it" or ends the text behind its first character.
AppSetText == \E t \in Texts : \E nbytes \in {-1} \cup {Bytes[t[i]] : i \in DOMAIN t \cap {1}} :
                SetText(t, nbytes)

\* reflow: the input is laid out at another width; a neighbour's restyle does
\* so before its own.
Resize(w) ==
  /\ attached /\ ~damaged /\ w # inner
  /\ inner' = w
  /\ UNCHANGED <<data, cursor, shown, attached, styled, tobj, clipped, damaged>>
  /\ UpdateCursor(cursor, tobj)

Init ==
  /\ data = <<NUL>>
  /\ cursor = 0
  /\ shown = << >>
  /\ attached = FALSE /\ styled = FALSE
  /\ tobj = << >>
  /\ inner \in InnerWidths
  /\ offset = 0
  /\ bar = 0
  /\ clipped = FALSE
  /\ damaged = FALSE

Next == Attach \/ Restyle \/ KeyPress \/ AppSetText \/ \E w \in InnerWidths : Resize(w)
Spec == Init /\ [][Next]_vars

-----------------------------------------------------------------------------
\* The types of the variables.
TypeOK ==
  /\ data \in Seq((Chars \X (1 .. 4)) \cup {NUL})
  /\ cursor \in -1 .. MaxChars
  /\ shown \in Seq(Chars \X (1 .. 4)) /\ tobj \in Seq(Chars \X (1 .. 4))
  /\ attached \in BOOLEAN /\ styled \in BOOLEAN
  /\ inner \in InnerWidths /\ offset \in Int /\ bar \in Int
  /\ clipped \in BOOLEAN /\ damaged \in BOOLEAN

\* The characters that the buffer holds.
Text == Decode(CString(data))

\* No edit tears a character: up to the moment the code writes outside of the
\* buffer, its bytes are those of whole characters and one NUL behind them
\* (utf8_idx, rtb_text_buffer_erase_char).
WholeCharacters == ~damaged => data = EncodeAll(Text) \o <<NUL>>

\* The cursor is in the text, unless the application passed an nbytes shorter
\* than the text it set (rtb_text_input_set_text counts the whole of it).
CursorInText == ~damaged => cursor >= 0 /\ (cursor <= Len(Text) \/ clipped)

\* What the label shows, and the glyphs that navigation is clamped to, are
\* those of the buffer (post_change, rtb_label_set_text, restyle).
LabelShowsBuffer ==
  ~damaged => shown = CString(data) /\ (styled => tobj = shown)

\* The line of the cursor never leaves the box once the input is styled,
\* however the text is scrolled (update_cursor).
BarInBox == styled /\ ~damaged => bar \in 0 .. inner

Plain == Newline \notin ToSet(Text) /\ ~clipped /\ ~damaged

\* A key never parts the drawn line from the cursor of a one line text: if the
\* line was where the cursor is, it is so after the key (fix_cursor,
\* post_change: only an edit that changes the width moves the line).
BarAtCursor == bar = offset + CursorX(cursor, tobj)
KeysKeepBar == [][KeyPress /\ BarAtCursor /\ Plain /\ Plain' => BarAtCursor']_vars

\* The bytes and the counter implement an editor of characters, up to the
\* first write outside of the buffer, as long as no text has a newline and no
\* text set was clipped.
Editor == INSTANCE TextEditor WITH text <- Text, pos <- cursor
ImplementsEditor ==
  Editor!Init /\ [][Plain /\ Plain' => Editor!Next]_<<Text, cursor>>

\* Of the bytes and the counter that tells where in them the cursor is.
TextSound == TypeOK /\ WholeCharacters /\ CursorInText

\* Of what is seen of them: the label's text and the line of the cursor.
ShownSound == LabelShowsBuffer /\ BarInBox
=============================================================================
