------------------------------ MODULE NanoUndo ------------------------------
(***************************************************************************)
(* Undoing and redoing.  Every item is undone from what it recorded: line  *)
(* numbers and indices of head and tail, and a piece of text.              *)
(***************************************************************************)
EXTENDS NanoIndent

(***************************************************************************)
(* Changes of single lines.                                                *)
(***************************************************************************)
Spliced(s, x, str) == Take(s, x) \o str \o Drop(s, x)
WithLine(b, y, s) == [b EXCEPT !.text[y] = s]

WithoutLine(b, y) ==
  [b EXCEPT !.text = SubSeq(@, 1, y - 1) \o SubSeq(@, y + 1, Len(@)),
            !.spill = IF @ = y THEN 0 ELSE IF @ > y THEN @ - 1 ELSE @]

(* Cut line y at x and put s below it; the reverse.                        *)
LineBroken(b, y, x, s) == InsertLine(WithLine(b, y, Take(b.text[y], x)), y + 1, s)
LineMended(b, y, s) == At(WithoutLine(WithLine(b, y, b.text[y] \o s), y + 1), y, b.x)

WithItem(b, n, u) == [b EXCEPT !.undo[n] = u]

(***************************************************************************)
(* Cuts and insertions.                                                    *)
(***************************************************************************)
(* Whether the magic line has to go that the change added.                 *)
TookLastLine(b, u) == "INCLUDED_LAST_LINE" \in u.flags /\ ~IsSet(b, "NO_NEWLINES")

HeadX(u) == IF "WAS_WHOLE_LINE" \in u.flags THEN 0 ELSE u.hx

WithClip(b, u) == IF u.clip = <<>> THEN b ELSE IngraftBuffer(b, u.clip)

(* undo_cut(), which is redo_paste() as well.                              *)
UndoCut(b, u) ==
  LET Whole(c) == IF TookLastLine(b, u) /\ c.y # Bottom(c) /\ c.text[Bottom(c) - 1] = <<>>
                  THEN RemoveMagicLine(c) ELSE c
      Returned(c) == IF "CURSOR_WAS_AT_HEAD" \in u.flags THEN GotoLinePosx(c, u.hy, u.hx)
                     ELSE c
  IN Returned(Whole(WithClip(GotoLinePosx(b, u.hy, HeadX(u)), u)))

(* redo_cut(), which is undo_paste() as well.                              *)
RedoCut(b, u) ==
  LET marked == [GotoLinePosx(b, u.ty, u.tx) EXCEPT
                   !.mark = <<u.hy, HeadX(u)>>, !.clip = <<>>, !.pad = "redo"]
  IN [DoSnip(marked, TRUE, FALSE, u.type = "ZAP") EXCEPT !.clip = b.clip, !.pad = "clip"]

WithoutSurplusLine(b, u) ==
  IF TookLastLine(b, u) /\ b.y # Bottom(b) THEN RemoveMagicLine(b) ELSE b

UndoInsert(b, u) ==
  LET Kept(cut) == [WithItem(cut, b.cur, [u EXCEPT !.clip = cut.clip])
                    EXCEPT !.clip = b.clip, !.pad = "clip"]
      marked == [GotoLinePosx(b, u.hy, u.hx) EXCEPT
                   !.mark = <<u.ty, u.tx>>, !.clip = <<>>, !.pad = "insert"]
  IN WithoutSurplusLine(Kept(CutMarkedRegion(marked)), u)

RedoInsert(b, n, u) ==
  WithItem(WithClip(GotoLinePosx(b, u.hy, u.hx), u), n, [u EXCEPT !.clip = <<>>])

(***************************************************************************)
(* The text changes of do_undo() and do_redo(), by type of item.           *)
(***************************************************************************)
Replaced(b, n, u) ==
  GotoLinePosx(WithItem(WithLine(b, u.ty, u.str), n, [u EXCEPT !.str = b.text[u.ty]]),
               u.hy, u.hx)

WithoutString(b, u) ==
  WithLine(b, u.ty, Take(b.text[u.ty], u.hx) \o Drop(b.text[u.ty], u.hx + Len(u.str)))
WithString(b, u) == WithLine(b, u.ty, Spliced(b.text[u.ty], u.hx, u.str))

(* An Enter that trimmed the blanks before it has stored a head of zero.   *)
UndoEnter(b, u) ==
  GotoLinePosx(LineMended(b, u.ty, Drop(u.str, IF u.hx = 0 THEN 0 ELSE u.tx)),
               u.hy, IF u.hx = 0 THEN u.tx ELSE u.hx)

AtEof(b, u) == "WAS_BACKSPACE_AT_EOF" \in u.flags /\ ~IsSet(b, "NO_NEWLINES")

Undone(b, u) ==
  CASE u.type = "ADD" ->
         LET c == IF TookLastLine(b, u) THEN RemoveMagicLine(b) ELSE b
         IN GotoLinePosx(WithoutString(c, u), u.hy, u.hx)
    [] u.type = "ENTER" -> UndoEnter(b, u)
    [] u.type \in {"BACK", "DEL"} -> GotoLinePosx(WithString(b, u), u.ty, u.tx)
    [] u.type = "JOIN" ->
         IF AtEof(b, u) THEN GotoLinePosx(b, Bottom(b), 0)
         ELSE GotoLinePosx(LineBroken(b, u.ty, u.tx, u.str), u.hy, u.hx)
    [] u.type = "REPLACE" -> Replaced(b, b.cur, u)
    [] u.type \in {"CUT", "CUT_TO_EOF", "ZAP"} -> UndoCut(b, u)
    [] u.type = "PASTE" -> WithoutSurplusLine(RedoCut(b, u), u)
    [] u.type = "INSERT" -> UndoInsert(b, u)
    [] u.type = "COUPLE_BEGIN" -> GotoLinePosx(b, u.hy, u.hx)
    [] u.type \in {"INDENT", "UNINDENT"} -> HandleIndent(b, u, TRUE, u.type = "INDENT")
    [] u.type \in {"COMMENT", "UNCOMMENT"} -> HandleComment(b, u, TRUE, u.type = "COMMENT")
    [] u.type \in {"SPLIT_BEGIN", "SPLIT_END"} -> b

Redone(b, n, u) ==
  CASE u.type = "ADD" ->
         LET c == IF TookLastLine(b, u) THEN NewMagicLine(b) ELSE b
         IN GotoLinePosx(WithString(c, u), u.ty, u.tx)
    [] u.type = "ENTER" -> GotoLinePosx(LineBroken(b, u.ty, u.hx, u.str), u.hy + 1, u.tx)
    [] u.type \in {"BACK", "DEL"} -> GotoLinePosx(WithoutString(b, u), u.hy, u.hx)
    [] u.type = "JOIN" ->
         GotoLinePosx(IF AtEof(b, u) THEN b ELSE LineMended(b, u.ty, u.str), u.ty, u.tx)
    [] u.type = "REPLACE" -> Replaced(b, n, u)
    [] u.type \in {"CUT", "CUT_TO_EOF", "ZAP"} -> RedoCut(b, u)
    [] u.type = "PASTE" -> UndoCut(b, u)
    [] u.type = "INSERT" -> RedoInsert(b, n, u)
    [] u.type = "COUPLE_END" -> GotoLinePosx(b, u.ty, u.tx)
    [] u.type \in {"INDENT", "UNINDENT"} -> HandleIndent(b, u, FALSE, u.type = "INDENT")
    [] u.type \in {"COMMENT", "UNCOMMENT"} -> HandleComment(b, u, FALSE, u.type = "COMMENT")
    [] u.type \in {"SPLIT_BEGIN", "SPLIT_END"} -> b

(***************************************************************************)
(* The whole commands.                                                     *)
(***************************************************************************)
(* What both do at the end: the size is the recorded one, and the buffer   *)
(* counts as unmodified where it was saved.                                *)
Concluded(b, cur, size, quietly) ==
  Settled([b EXCEPT !.cur = cur, !.last = "OTHER", !.mark = NoMark, !.size = size,
                    !.mod = IF cur = b.saved THEN FALSE ELSE IF quietly THEN @ ELSE TRUE])

(* do_undo(): an item that ends a group is undone with the whole group.    *)
RECURSIVE DoUndo(_), UndoToSplit(_)
DoUndo(b) ==
  LET u == CurrentUndo(b)
      above == [b EXCEPT !.cur = @ - 1]
  IN CASE b.cur = 0 -> b
       [] b.cur > 0 /\ u.type = "SPLIT_END" ->
            LET c == UndoToSplit(above)
            IN Concluded(c, c.cur - 1, CurrentUndo(c).was, FALSE)
       [] b.cur > 0 /\ u.type = "COUPLE_END" -> DoUndo(DoUndo(DoUndo(above)))
       [] b.cur > 0 /\ u.type \notin {"SPLIT_END", "COUPLE_END"} ->
            Concluded(Undone(b, u), b.cur - 1, u.was, FALSE)
UndoToSplit(b) ==
  IF CurrentUndo(b).type = "SPLIT_BEGIN" THEN b ELSE UndoToSplit(DoUndo(b))

(* do_redo(), likewise.  Redoing an insertion of nothing modifies nothing. *)
RECURSIVE DoRedo(_), RedoToSplit(_)
DoRedo(b) ==
  LET n == b.cur + 1
      u == b.undo[n]
      at == [b EXCEPT !.cur = n]
  IN CASE n > Len(b.undo) -> b
       [] n <= Len(b.undo) /\ u.type = "SPLIT_BEGIN" ->
            LET c == RedoToSplit(at)
                end == CurrentUndo(c)
            IN Concluded(GotoLinePosx(c, end.hy, end.hx), c.cur, end.new, FALSE)
       [] n <= Len(b.undo) /\ u.type = "COUPLE_BEGIN" -> DoRedo(DoRedo(DoRedo(at)))
       [] n <= Len(b.undo) /\ u.type \notin {"SPLIT_BEGIN", "COUPLE_BEGIN"} ->
            Concluded(Redone(b, n, u), n, u.new, u.type = "INSERT" /\ u.clip = <<>>)
RedoToSplit(b) ==
  IF CurrentUndo(b).type = "SPLIT_END" THEN b ELSE RedoToSplit(DoRedo(b))
=============================================================================
