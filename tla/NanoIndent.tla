----------------------------- MODULE NanoIndent -----------------------------
(***************************************************************************)
(* Indenting, unindenting and commenting a range of lines, and undoing     *)
(* that.  The lines are treated one after the other.                       *)
(***************************************************************************)
EXTENDS NanoInsert

(* get_range(): the current line or the marked lines.  A last line that is *)
(* marked up to its start only counts when it counted the time before.     *)
RangeOf(b) ==
  LET top == Region(b)[1]
      bot == Region(b)[2]
      without == bot[2] = 0 /\ bot[1] # top[1] /\ ~b.also
  IN IF b.mark = NoMark THEN [top |-> b.y, bot |-> b.y, also |-> b.also]
     ELSE IF without THEN [top |-> top[1], bot |-> bot[1] - 1, also |-> b.also]
     ELSE [top |-> top[1], bot |-> bot[1], also |-> TRUE]

LinesFrom(top, bot) == [i \in 1 .. bot - top + 1 |-> top + i - 1]

(* What an operation on each of a range of lines makes of the buffer.      *)
Done(b) == [SetModified(b) EXCEPT !.shift = TRUE]

(***************************************************************************)
(* Adding and removing text at the start of a line.                        *)
(***************************************************************************)
(* Positions on the line move right with their text, but not from the      *)
(* very start of the line.                                                 *)
MovedRight(b, y, n) ==
  LET onIt == b.y = y /\ b.x > 0
      c == [b EXCEPT !.mark[2] = IF b.mark[1] = y /\ @ > 0 THEN @ + n ELSE @,
                     !.x = IF onIt THEN @ + n ELSE @]
  IN IF onIt THEN Settled(c) ELSE c

(* A variant that goes left of the start of the line.                      *)
MovedLeftFar(b, y, n) ==
  IF b.y = y THEN [b EXCEPT !.x = @ - n] ELSE b

(* compensate_leftward()                                                   *)
MovedLeft(b, y, n) ==
  LET c == [b EXCEPT !.mark[2] = IF b.mark[1] = y THEN Max({@ - n, 0}) ELSE @,
                     !.x = IF b.y = y THEN Max({@ - n, 0}) ELSE @]
  IN IF b.y = y THEN Settled(c) ELSE c

IndentALine(b, y, dent) ==
  IF dent = <<>> THEN b
  ELSE MovedRight([b EXCEPT !.text[y] = dent \o @, !.size = @ + Len(dent)], y, Len(dent))

UnindentALine(b, y, n) ==
  IF n = 0 THEN b
  ELSE MovedLeft([b EXCEPT !.text[y] = Drop(@, n), !.size = @ - n], y, n)

(***************************************************************************)
(* do_indent() and do_unindent()                                           *)
(***************************************************************************)
Indentation(b) == IF IsSet(b, "TABS_TO_SPACES") THEN Spaces(TabSize) ELSE <<"\t">>

IndentNoted(b, y) ==
  LET dent == IF b.text[y] = <<>> THEN <<>> ELSE Indentation(b)
  IN UpdateMultilineUndo(IndentALine(b, y, dent), y, dent)

UnindentNoted(b, y) ==
  LET n == LengthOfWhite(b.text[y])
  IN UpdateMultilineUndo(UnindentALine(b, y, n), y, Take(b.text[y], n))

(* The range without the leading lines that there is nothing to do for.    *)
Shifted(b, type, Worth(_), Step(_, _)) ==
  LET range == RangeOf(b)
      worth == {y \in range.top .. range.bot : Worth(b.text[y])}
      ranged == [b EXCEPT !.also = range.also]
  IN IF worth = {} THEN ranged
     ELSE Done(FoldLeft(Step, AddUndo(ranged, type), LinesFrom(Min(worth), range.bot)))

DoIndent(b) == Shifted(b, "INDENT", LAMBDA s : s # <<>>, IndentNoted)
DoUnindent(b) == Shifted(b, "UNINDENT", LAMBDA s : LengthOfWhite(s) > 0, UnindentNoted)

(* do_tab(): indents a region of more than one line, otherwise types.      *)
DoTab(b) ==
  IF b.mark # NoMark /\ b.mark[1] # b.y THEN DoIndent(b)
  ELSE Inject(b, IF IsSet(b, "TABS_TO_SPACES")
                 THEN Spaces(TabSize - (XPlusTabs(b) % TabSize)) ELSE <<"\t">>)

(***************************************************************************)
(* comment_line() and do_comment(): a comment sequence has a prefix and    *)
(* may have a suffix.                                                      *)
(***************************************************************************)
CommentSeq(b) == IF IsSet(b, "BRACKETING") THEN <<<<"(", ".">>, <<".", ")">>>>
                 ELSE <<<<"#">>, <<>>>>

PastEnd(b, y) == ~IsSet(b, "NO_NEWLINES") /\ y = Bottom(b)

EndsWith(s, suffix) == Len(s) >= Len(suffix) /\ Drop(s, Len(s) - Len(suffix)) = suffix
IsCommented(s, seq) == IsPrefix(seq[1], s) /\ EndsWith(s, seq[2])

CommentLine(b, y, seq) ==
  MovedRight([b EXCEPT !.text[y] = seq[1] \o @ \o seq[2],
                       !.size = @ + Len(seq[1]) + Len(seq[2])], y, Len(seq[1]))

(* When prefix and suffix overlap, the line is truncated before its start. *)
UncommentLine(b, y, seq) ==
  LET n == Len(seq[1]) + Len(seq[2])
  IN MovedLeft([b EXCEPT !.text[y] = SubSeq(@, Len(seq[1]) + 1, Len(@) - Len(seq[2])),
                         !.size = @ - n,
                         !.fault = @ \/ Len(b.text[y]) < n], y, Len(seq[1]))

(* Whether comment_line() changes a line, and what it makes of it.         *)
Changes(b, action, y, seq) ==
  ~PastEnd(b, y) /\ (action = "UNCOMMENT" => IsCommented(b.text[y], seq))
Changed(b, action, y, seq) ==
  IF ~Changes(b, action, y, seq) THEN b
  ELSE IF action = "COMMENT" THEN CommentLine(b, y, seq) ELSE UncommentLine(b, y, seq)

ChangeNoted(b, y) ==
  LET u == CurrentUndo(b)
  IN IF Changes(b, u.type, y, u.str)
     THEN UpdateMultilineUndo(Changed(b, u.type, y, u.str), y, <<>>) ELSE b

(* All lines are commented when a line with text in it is not commented or *)
(* when no line has text in it.                                            *)
DoComment(b) ==
  LET range == RangeOf(b)
      ranged == [b EXCEPT !.also = range.also]
      texts == {y \in range.top .. range.bot : ~IsWhite(b.text[y])}
      action == IF texts = {} \/ \E y \in texts : ~Changes(b, "UNCOMMENT", y, CommentSeq(b))
                THEN "COMMENT" ELSE "UNCOMMENT"
      noted == AddUndo(ranged, action)
      begun == [noted EXCEPT !.undo[noted.cur].str = CommentSeq(b)]
  IN IF range.top = range.bot /\ PastEnd(b, range.bot) THEN ranged
     ELSE Done(FoldLeft(ChangeNoted, begun, LinesFrom(range.top, range.bot)))

(***************************************************************************)
(* Undoing and redoing, group by group.                                    *)
(***************************************************************************)
LinesOf(group) == LinesFrom(group.top, group.top + Len(group.dents) - 1)

(* handle_indent_action(): there is one group, as no line is left out.     *)
HandleIndent(b, u, undoing, adds) ==
  LET group == Head(u.group)
      Step(c, y) == LET dent == group.dents[y - group.top + 1]
                    IN IF undoing # adds THEN IndentALine(c, y, dent)
                       ELSE UnindentALine(c, y, Len(dent))
      from == IF undoing THEN b ELSE GotoLinePosx(b, u.hy, u.hx)
      done == FoldLeft(Step, from, LinesOf(group))
  IN IF undoing THEN GotoLinePosx(done, u.hy, u.hx) ELSE done

(* handle_comment_action()                                                 *)
HandleComment(b, u, undoing, adds) ==
  LET action == IF undoing # adds THEN "COMMENT" ELSE "UNCOMMENT"
      Step(c, y) == Changed(c, action, y, u.str)
      from == IF undoing THEN b ELSE GotoLinePosx(b, u.hy, u.hx)
      done == FoldLeft(LAMBDA c, group : FoldLeft(Step, c, LinesOf(group)), from, u.group)
  IN IF undoing THEN GotoLinePosx(done, u.hy, u.hx) ELSE done
=============================================================================
