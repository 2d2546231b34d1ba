----------------------------- MODULE NanoBuffer -----------------------------
(***************************************************************************)
(* The open buffer of the editor (openfile): its lines, cursor, mark and   *)
(* undo stack, the cutbuffer that goes with it, and the operations on      *)
(* which every editing command is built: taking a segment out, grafting    *)
(* one in, and adding to and updating the undo stack.                      *)
(*                                                                         *)
(* A command is a function from buffers to buffers: it runs to its end     *)
(* without reading another key.  A pointer to a line is the line's number; *)
(* the operations that insert or remove lines move mark and spillage line  *)
(* along as the pointers would.  Left out: anchors, colours, the screen.   *)
(*                                                                         *)
(* The fields of a buffer b:                                               *)
(*   text, y, x, want   lines, current, current_x, placewewant             *)
(*   mark, soft         mark and mark_x (NoMark when unset), softmark      *)
(*   size, mod          totsize, modified                                  *)
(*   undo, cur          the stack, oldest first; how many are applied      *)
(*   last               last_action                                        *)
(*   saved              the item last_saved points to: 0 for NULL, Stale   *)
(*                      when it was freed                                  *)
(*   clip, keep         cutbuffer (<<>> for NULL), keep_cutbuffer          *)
(*   pad, bottom        whose buffer cutbuffer and cutbottom point into    *)
(*   spill              spillage_line, 0 for none                          *)
(*   opts               the options that are set                           *)
(*   needle             last_search                                        *)
(*   pletion, tried     where completing goes on, and the words it tried   *)
(*   also, shift        also_the_last, shift_held                          *)
(*   reuse              whether a freed undo item is allocated anew        *)
(*   fault              die() was reached, or an invalid pointer followed  *)
(***************************************************************************)
EXTENDS NanoText

NoMark == <<0, 0>>
Stale == -1

IsSet(b, option) == option \in b.opts
Line(b) == b.text[b.y]
Bottom(b) == Len(b.text)                       \* filebot
AtEnd(b) == b.x = Len(Line(b))
Next1(b) == b.text[b.y + 1]
Here(b) == <<b.y, b.x>>
Rest(b) == Drop(Line(b), b.x)

XPlusTabs(b) == Wideness(Line(b), b.x)
Settled(b) == [b EXCEPT !.want = XPlusTabs(b)]
SetModified(b) == [b EXCEPT !.mod = TRUE]
At(b, line, x) == [b EXCEPT !.y = line, !.x = x]

(* goto_line_posx(): a line beyond the last one stands for the last one.   *)
GotoLinePosx(b, line, x) ==
  Settled(At(b, IF line < Bottom(b) THEN line ELSE Bottom(b), x))

MarkIsBeforeCursor(b) == AtOrBefore(b.mark, Here(b))

(* get_region(): the two ends of the marked region, in order.              *)
Region(b) == IF MarkIsBeforeCursor(b) THEN <<b.mark, Here(b)>>
             ELSE <<Here(b), b.mark>>

(***************************************************************************)
(* The magic line: the empty last line every buffer has unless NO_NEWLINES *)
(* is set.                                                                 *)
(***************************************************************************)
NewMagicLine(b) == [b EXCEPT !.text = Append(@, <<>>), !.size = @ + 1]

EnsureMagicLine(b) ==
  IF ~IsSet(b, "NO_NEWLINES") /\ Last(b.text) # <<>> THEN NewMagicLine(b) ELSE b

RemoveMagicLine(b) ==
  IF Last(b.text) = <<>> /\ Bottom(b) > 1
  THEN [b EXCEPT !.text = Front(@), !.size = @ - 1,
                 !.y = IF @ = Bottom(b) THEN @ - 1 ELSE @]
  ELSE b

(***************************************************************************)
(* Taking text out and putting text in.                                    *)
(***************************************************************************)
(* The text between two positions, as lines of their own.                  *)
Segment(text, p, q) ==
  IF p[1] = q[1] THEN <<SubSeq(text[p[1]], p[2] + 1, q[2])>>
  ELSE <<Drop(text[p[1]], p[2])>>
         \o SubSeq(text, p[1] + 1, q[1] - 1) \o <<Take(text[q[1]], q[2])>>

TextWithout(text, p, q) ==
  SubSeq(text, 1, p[1] - 1)
    \o <<Take(text[p[1]], p[2]) \o Drop(text[q[1]], q[2])>>
    \o SubSeq(text, q[1] + 1, Len(text))

TextWith(text, p, lines) ==
  SubSeq(text, 1, p[1] - 1)
    \o Meld(Meld(<<Take(text[p[1]], p[2])>>, lines), <<Drop(text[p[1]], p[2])>>)
    \o SubSeq(text, p[1] + 1, Len(text))

(* The line number a pointer has once the text from p to q is gone, or 0   *)
(* when its line left the buffer.  Of whole lines the last one stays, of   *)
(* other segments the first one.                                           *)
LineWithout(line, p, q) ==
  LET kept == IF p[1] < q[1] /\ p[2] = 0 /\ q[2] = 0 THEN q[1] ELSE p[1]
  IN CASE line = kept                      -> p[1]
       [] line # kept /\ line \in p[1] .. q[1] -> 0
       [] line > q[1]                      -> line - (q[1] - p[1])
       [] OTHER                            -> line

(* A mark on the line of an excision, or after it, comes to its place.     *)
MarkWithout(mark, p) ==
  IF mark # NoMark /\ ~AtOrBefore(mark, p) THEN p ELSE mark

(* extract_segment(): move the text from p to q to the end of the          *)
(* cutbuffer.                                                              *)
Excised(b, p, q, taken) ==
  [b EXCEPT !.text = TextWithout(@, p, q),
            !.size = @ - NumberOfCharacters(taken),
            !.clip = IF @ = <<>> THEN taken ELSE Meld(@, taken),
            !.fault = @ \/ (b.clip # <<>> /\ b.bottom # b.pad),
            !.bottom = b.pad,
            !.y = p[1], !.x = p[2],
            !.mark = MarkWithout(@, p),
            !.spill = LineWithout(@, p, q)]

ExtractSegment(b, p, q) ==
  IF p = q THEN b ELSE EnsureMagicLine(Excised(b, p, q, Segment(b.text, p, q)))

(* ingraft_buffer(): insert the given lines at the cursor, which ends up   *)
(* after them.  A mark after the cursor on its line moves along.           *)
IngraftBuffer(b, lines) ==
  LET added == Len(lines) - 1
      end == IF added = 0 THEN <<b.y, b.x + Len(lines[1])>>
             ELSE <<b.y + added, Len(Last(lines))>>
      markFollows == b.mark[1] = b.y /\ ~MarkIsBeforeCursor(b)
  IN EnsureMagicLine([b EXCEPT
       !.text = TextWith(@, Here(b), lines),
       !.size = @ + NumberOfCharacters(lines),
       !.y = end[1], !.x = end[2],
       !.mark = IF markFollows THEN <<end[1], end[2] + @[2] - b.x>>
                ELSE IF @[1] > b.y THEN <<@[1] + added, @[2]>> ELSE @,
       !.spill = IF @ > b.y THEN @ + added ELSE @])

(***************************************************************************)
(* The undo stack.                                                         *)
(***************************************************************************)
Item(b, type) ==
  [type |-> type, hy |-> b.y, hx |-> b.x, ty |-> b.y, tx |-> b.x,
   str |-> <<>>, clip |-> <<>>, group |-> <<>>,
   was |-> b.size, new |-> b.size, flags |-> {}]

(* discard_until(current_undo): free the undone items.  What last_saved    *)
(* points to may be among them.                                            *)
Discarded(b) ==
  [b EXCEPT !.undo = Take(@, b.cur), !.last = "OTHER",
            !.saved = IF @ > b.cur THEN Stale ELSE @]

(* discard_until(undotop->next): free the newest item too.                 *)
DiscardTop(b) == Discarded([b EXCEPT !.cur = Len(b.undo) - 1])

(* What add_undo() records at once.                                        *)
Recorded(b, u) ==
  LET onLast == IF b.y = Bottom(b) THEN {"INCLUDED_LAST_LINE"} ELSE {}
      markFirst == MarkIsBeforeCursor(b)
  IN CASE u.type \in {"ADD", "INSERT"} -> [u EXCEPT !.flags = onLast]
       [] u.type = "PASTE" -> [u EXCEPT !.flags = onLast, !.clip = b.clip]
       [] u.type = "REPLACE" -> [u EXCEPT !.str = Line(b)]
       [] u.type \in {"BACK", "DEL"} /\ ~AtEnd(b) ->
            [u EXCEPT !.str = <<Line(b)[b.x + 1]>>,
                      !.tx = IF u.type = "BACK" THEN @ + 1 ELSE @]
       [] u.type \in {"BACK", "DEL"} /\ AtEnd(b) ->
            LET joins == b.y < Bottom(b) IN
            [u EXCEPT !.type = "JOIN",
                      !.str = IF joins THEN Next1(b) ELSE <<>>,
                      !.hy = IF joins /\ u.type = "BACK" THEN b.y + 1 ELSE @,
                      !.hx = IF joins /\ u.type = "BACK" THEN 0 ELSE @,
                      !.flags = IF u.type = "BACK" /\ b.y + 1 = Bottom(b)
                                   /\ Line(b) # <<>>
                                THEN {"WAS_BACKSPACE_AT_EOF"} ELSE {}]
       [] u.type = "CUT_TO_EOF" ->
            [u EXCEPT !.flags = {"INCLUDED_LAST_LINE", "CURSOR_WAS_AT_HEAD"}]
       [] u.type \in {"ZAP", "CUT"} /\ b.mark # NoMark ->
            LET tail == Region(b)[2] IN
            [u EXCEPT !.hy = Region(b)[1][1], !.hx = Region(b)[1][2],
                      !.ty = tail[1], !.tx = tail[2],
                      !.flags = {"MARK_WAS_SET"}
                        \cup (IF markFirst THEN {} ELSE {"CURSOR_WAS_AT_HEAD"})
                        \cup (IF tail[1] = Bottom(b)
                             THEN {"INCLUDED_LAST_LINE"} ELSE {})]
       [] u.type \in {"ZAP", "CUT"} /\ b.mark = NoMark ->
            IF IsSet(b, "CUT_FROM_CURSOR")
            THEN [u EXCEPT !.flags = {"CURSOR_WAS_AT_HEAD"}]
            ELSE [u EXCEPT !.flags = {"WAS_WHOLE_LINE", "CURSOR_WAS_AT_HEAD"},
                           !.tx = 0]
       [] OTHER -> u

Top(b) == Last(b.undo)

(* The item goes on top, a SPLIT_BEGIN beneath the top.  With "reuse", a   *)
(* new item gets the address of the freed one that last_saved still points *)
(* to.                                                                     *)
Pushed(d, u) ==
  LET n == Len(d.undo) + 1
      again == d.saved = Stale /\ d.reuse
  IN IF u.type = "SPLIT_BEGIN"
     THEN [d EXCEPT !.undo = Append(Front(@), [u EXCEPT !.was = Top(d).was]) \o <<Top(d)>>,
                    !.cur = n, !.last = Top(d).type,
                    !.saved = IF @ = n - 1 THEN n ELSE IF again THEN n - 1 ELSE @]
     ELSE [d EXCEPT !.undo = Append(@, u), !.cur = n, !.last = u.type,
                    !.saved = IF again THEN n ELSE @]

(* add_undo()                                                              *)
AddUndo(b, type) == Pushed(Discarded(b), Recorded(b, Item(b, type)))

CurrentUndo(b) == b.undo[b.cur]
WithTop(b, u) == [b EXCEPT !.undo = Append(Front(@), u)]

(* The part of a cut item that is only known once the text is gone.        *)
CutRecorded(b, u) ==
  LET lines == IF u.type # "ZAP" /\ b.clip = <<>> THEN u.clip ELSE b.clip
      count == Len(lines) - 1
      fromCursor == IsSet(b, "CUT_FROM_CURSOR") \/ u.type = "CUT_TO_EOF"
      atFileEnd == b.y = Bottom(b) /\ IsSet(b, "NO_NEWLINES")
  IN IF "MARK_WAS_SET" \in u.flags \/ (u.type # "ZAP" /\ b.clip = <<>>)
     THEN [u EXCEPT !.clip = lines]
     ELSE [u EXCEPT !.clip = lines, !.ty = u.hy + count,
             !.tx = IF fromCursor
                    THEN Len(Last(lines)) + (IF count = 0 THEN u.hx ELSE 0)
                    ELSE IF atFileEnd THEN Len(Last(lines)) ELSE @]

(* A variant that takes any other place for the one before.                *)
DeletionRecordedAnywhere(b, u) ==
  LET c == <<Line(b)[b.x + 1]>>
  IN WithTop(b, IF b.x = u.hx THEN [u EXCEPT !.str = @ \o c, !.tx = b.x]
                ELSE [u EXCEPT !.str = c \o @, !.hx = b.x])

(* A character taken out at the cursor, added to the item's earlier ones.  *)
(* A character taken out elsewhere starts an item of its own.              *)
DeletionRecorded(b, u) ==
  LET c == <<Line(b)[b.x + 1]>> IN
  CASE b.x = u.hx -> WithTop(b, [u EXCEPT !.str = @ \o c, !.tx = b.x])
    [] b.x = u.hx - 1 -> WithTop(b, [u EXCEPT !.str = c \o @, !.hx = b.x])
    [] OTHER -> AddUndo(WithTop(b, u), u.type)

(* update_undo(): dies when the newest item is of another type.            *)
UpdateUndo(b, type) ==
  LET u == [Top(b) EXCEPT !.new = b.size]
  IN CASE Top(b).type # type -> [b EXCEPT !.fault = TRUE]
       [] type = "ADD" ->
            WithTop(b, [u EXCEPT !.str = SubSeq(Line(b), u.hx + 1, b.x),
                                 !.tx = b.x])
       [] type = "ENTER" ->
            WithTop(b, [u EXCEPT !.str = Line(b), !.tx = b.x])
       [] type \in {"BACK", "DEL"} -> DeletionRecorded(b, u)
       [] type = "ZAP" /\ b.clip = <<>> -> [b EXCEPT !.fault = TRUE]
       [] type \in {"ZAP", "CUT", "CUT_TO_EOF"} /\ ~(type = "ZAP" /\ b.clip = <<>>) ->
            WithTop(b, CutRecorded(b, u))
       [] type \in {"COUPLE_END", "PASTE", "INSERT"} ->
            WithTop(b, [u EXCEPT !.ty = b.y, !.tx = b.x])
       [] OTHER -> WithTop(b, u)

(* update_multiline_undo(): the indentation of one more line.  A group is  *)
(* a run of lines; the newest one comes first.                             *)
UpdateMultilineUndo(b, line, indentation) ==
  LET u == CurrentUndo(b)
      extends == u.group # <<>>
                   /\ Head(u.group).top + Len(Head(u.group).dents) = line
      groups == IF extends
                THEN <<[Head(u.group) EXCEPT !.dents = Append(@, indentation)]>>
                       \o Tail(u.group)
                ELSE <<[top |-> line, dents |-> <<indentation>>]>> \o u.group
  IN WithTop(b, [u EXCEPT !.group = groups, !.new = b.size])
=============================================================================
