----------------------------- MODULE NanoSearch -----------------------------
(***************************************************************************)
(* Searching, replacing, going to a line or to a matching bracket, and     *)
(* correcting the spelling of a word.  What is sought is a nonempty piece  *)
(* of a line; regular expressions are left out.  The field "needle" of a   *)
(* buffer is last_search.                                                  *)
(***************************************************************************)
EXTENDS NanoJustify

Occurrences(s, needle) ==
  {x \in 0 .. Len(s) - Len(needle) : SubSeq(s, x + 1, x + Len(needle)) = needle}

(* is_separate_word()                                                      *)
IsSeparate(s, x, length) ==
  /\ x = 0 \/ ~IsWordChar(s[x], FALSE)
  /\ x + length = Len(s) \/ ~IsWordChar(s[x + length + 1], FALSE)

(* The occurrences in line y that a search q may find.                     *)
Candidates(b, y, q) ==
  {x \in Occurrences(b.text[y], q.needle) :
     q.whole => IsSeparate(b.text[y], x, Len(q.needle))}

(***************************************************************************)
(* findnextstr(): a search q has the fields needle, whole, modus, begin    *)
(* (the line where the searching began, 0 for NULL) and beginX.  "circle"  *)
(* is came_full_circle.                                                    *)
(***************************************************************************)
Backwards(b) == IsSet(b, "BACKWARDS_SEARCH")
NotFound == [found |-> FALSE]

(* On the line where the search began, nothing beyond its start is found.  *)
Beyond(b, x, q) ==
  IF Backwards(b) THEN x < q.beginX
  ELSE x > q.beginX \/ (q.modus = "REPLACING" /\ x = q.beginX)

RECURSIVE SeekFrom(_, _, _, _, _)
SeekFrom(b, q, y, xs, circle) ==
  LET x == IF Backwards(b) THEN Max(xs) ELSE Min(xs)
      next == IF Backwards(b) THEN y - 1 ELSE y + 1
      line == CASE next = 0 -> Bottom(b) [] next > Bottom(b) -> 1 [] OTHER -> next
      stops == line # next /\ (q.whole \/ q.modus = "INREGION")
  IN IF xs # {}
     THEN IF circle /\ Beyond(b, x, q) THEN NotFound
          ELSE [found |-> TRUE, y |-> y, x |-> x, circle |-> circle]
     ELSE IF circle \/ stops THEN NotFound
     ELSE SeekFrom(b, q, line, Candidates(b, line, q), line = q.begin)

(* From the cursor, or from one character further.                         *)
FindNextStr(b, q, skipOne, circle) ==
  LET all == Candidates(b, b.y, q)
      skip == IF skipOne THEN 1 ELSE 0
      ahead == IF Backwards(b) THEN {x \in all : x <= b.x - skip}
               ELSE {x \in all : x >= b.x + skip}
  IN SeekFrom(b, q, b.y, ahead, circle /\ q.begin # 0)

(* go_looking()                                                            *)
GoLooking(b) ==
  LET hit == FindNextStr(b, [needle |-> b.needle, whole |-> FALSE, modus |-> "JUSTFIND",
                             begin |-> b.y, beginX |-> b.x], TRUE, FALSE)
  IN IF hit.found THEN MovedTo(b, <<hit.y, hit.x>>) ELSE Settled(b)

DoResearch(b) == IF b.needle = <<>> THEN b ELSE GoLooking(b)

(* search_init() for a search: an answer is remembered.                    *)
DoSearchForward(b, answer) ==
  GoLooking([b EXCEPT !.needle = answer, !.opts = @ \ {"BACKWARDS_SEARCH"}])
DoSearchBackward(b, answer) ==
  GoLooking([b EXCEPT !.needle = answer, !.opts = @ \cup {"BACKWARDS_SEARCH"}])
DoFindNext(b) == DoResearch([b EXCEPT !.opts = @ \ {"BACKWARDS_SEARCH"}])
DoFindPrevious(b) == DoResearch([b EXCEPT !.opts = @ \cup {"BACKWARDS_SEARCH"}])

(***************************************************************************)
(* Replacing.  The loop works on a state r: the buffer b, the cursor's     *)
(* original place (real, realX), which is kept beside the text as it       *)
(* changes, the bounds of the marked region, the mark as it will be        *)
(* restored, and the answers that are still to come.                       *)
(***************************************************************************)
(* A variant that only looks at where the instance starts.                 *)
OutsideRegionAtStart(r, hit, length) ==
  /\ r.mark # NoMark
  /\ \/ hit.y > r.bot[1] \/ hit.y < r.top[1]
     \/ hit.y = r.bot[1] /\ hit.x >= r.bot[2]
     \/ hit.y = r.top[1] /\ hit.x < r.top[2]

(* An instance that is not wholly within the marked region.                *)
OutsideRegion(r, hit, length) ==
  /\ r.mark # NoMark
  /\ \/ hit.y > r.bot[1] \/ hit.y < r.top[1]
     \/ hit.y = r.bot[1] /\ hit.x + length > r.bot[2]
     \/ hit.y = r.top[1] /\ hit.x < r.top[2]

(* Mark or cursor, whichever is the later one, moves along with its text.  *)
MarkKept(r, hit, length, change) ==
  LET x == IF r.mark[2] < hit.x + length THEN hit.x ELSE r.mark[2] + change
  IN IF r.mark # NoMark /\ ~r.upright /\ hit.y = r.mark[1] /\ r.mark[2] > hit.x
     THEN [r EXCEPT !.mark[2] = x, !.bot[2] = x] ELSE r

CursorKept(r, hit, length, change) ==
  LET x == Max({r.realX, hit.x + length}) + change
  IN IF (r.mark = NoMark \/ r.upright) /\ hit.y = r.real /\ hit.x < r.realX
     THEN [r EXCEPT !.realX = x, !.bot[2] = x] ELSE r

(* replace_line() and what the loop does around it.                        *)
ReplacedAt(r, hit, answer) ==
  LET length == Len(r.q.needle)
      change == Len(answer) - length
      noted == AddUndo(At(r.b, hit.y, hit.x), "REPLACE")
      altered == [noted EXCEPT
        !.text[hit.y] = Take(@, hit.x) \o answer \o Drop(@, hit.x + length),
        !.x = IF Backwards(r.b) THEN @ ELSE @ + length + change,
        !.size = @ + change]
      kept == CursorKept(MarkKept(r, hit, length, change), hit, length, change)
  IN [kept EXCEPT !.b = SetModified(altered)]

RECURSIVE ReplaceLoop(_, _)
ReplaceLoop(r, answer) ==
  LET q == [r.q EXCEPT !.beginX = r.realX]
      hit == FindNextStr(r.b, q, r.skip, r.circle)
      choice == IF r.all THEN "ALL" ELSE Head(r.choices)
      chosen == [r EXCEPT !.b = At(@, hit.y, hit.x), !.circle = hit.circle,
                          !.all = choice = "ALL",
                          !.choices = IF r.all THEN @ ELSE Tail(@),
                          !.skip = IF r.all THEN @ ELSE choice = "NO" \/ Backwards(r.b)]
  IN IF ~hit.found THEN r
     ELSE IF \/ OutsideRegion(r, hit, Len(q.needle))
             \/ ~r.all /\ (r.choices = <<>> \/ choice = "CANCEL")
     THEN [r EXCEPT !.b = At(@, hit.y, hit.x)]
     ELSE IF choice = "NO" THEN ReplaceLoop(chosen, answer)
     ELSE ReplaceLoop(ReplacedAt(chosen, hit, answer), answer)

(* do_replace_loop(): a marked region is framed and the mark taken off     *)
(* while the loop runs.                                                    *)
DoReplaceLoop(b, needle, whole, real, realX, answer, choices) ==
  LET marked == b.mark # NoMark
      ends == Region(b)
      start == IF ~marked THEN Here(b) ELSE IF Backwards(b) THEN ends[2] ELSE ends[1]
      q == [needle |-> needle, whole |-> whole,
            modus |-> IF marked THEN "INREGION" ELSE "REPLACING",
            begin |-> real, beginX |-> realX]
  IN ReplaceLoop([b |-> Unmarked(At(b, start[1], start[2])), q |-> q,
                  real |-> real, realX |-> realX, mark |-> b.mark,
                  upright |-> marked /\ MarkIsBeforeCursor(b),
                  top |-> ends[1], bot |-> ends[2], skip |-> Backwards(b),
                  circle |-> FALSE, all |-> FALSE, choices |-> choices], answer)

(* do_replace(), search_init() and ask_for_and_do_replacements().          *)
DoReplace(b, needle, backwards, answer, choices) ==
  LET asked == [b EXCEPT !.needle = needle,
                  !.opts = IF backwards THEN @ \cup {"BACKWARDS_SEARCH"}
                           ELSE @ \ {"BACKWARDS_SEARCH"}]
      r == DoReplaceLoop(asked, needle, FALSE, b.y, b.x, answer, choices)
  IN [At(r.b, b.y, r.realX) EXCEPT !.mark = r.mark]

(***************************************************************************)
(* fix_spello(): the first whole occurrence of a word, and then all of     *)
(* them, are offered for correction.  The checker searches forward.        *)
(***************************************************************************)
FixSpello(b, word, answer, choices) ==
  LET ends == Region(b)
      upright == b.mark # NoMark /\ MarkIsBeforeCursor(b)
      ready == [(IF b.mark = NoMark THEN At(b, 1, 0) ELSE At(b, ends[1][1], ends[1][2]))
                EXCEPT !.mark = IF b.mark = NoMark THEN @ ELSE ends[2],
                       !.opts = @ \ {"BACKWARDS_SEARCH"}]
      hit == FindNextStr(ready, [needle |-> word, whole |-> TRUE, modus |-> "INREGION",
                                 begin |-> 0, beginX |-> 0], FALSE, FALSE)
      r == DoReplaceLoop(At(ready, hit.y, hit.x), word, TRUE, b.y, b.x, answer, choices)
      c == [r.b EXCEPT !.opts = b.opts]
  IN IF ~hit.found \/ word = answer THEN b
     ELSE CASE b.mark = NoMark -> At(c, b.y, r.realX)
            [] b.mark # NoMark /\ upright ->
                 [At(c, r.mark[1], r.mark[2]) EXCEPT !.mark = ends[1]]
            [] b.mark # NoMark /\ ~upright ->
                 [At(c, ends[1][1], ends[1][2]) EXCEPT !.mark = r.mark]

(***************************************************************************)
(* goto_line_and_column(): both count from one.  A negative number counts  *)
(* from the end, and zero stands for where the cursor is.                  *)
(***************************************************************************)
GotoLineAndColumn(b, line, column) ==
  LET wanted == CASE line < 0 -> Bottom(b) + line + 1 [] line = 0 -> b.y
                  [] OTHER -> line
      y == Max({1, Min({wanted, Bottom(b)})})
      width == Breadth(b.text[y])
      col == Max({1, CASE column < 0 -> width + column + 2
                       [] column = 0 -> b.want + 1 [] OTHER -> column})
      past == IsSet(b, "SOFTWRAP")
                /\ (col - 1) \div EditWinCols > width \div EditWinCols
  IN [At(b, y, ActualX(b.text[y], col - 1)) EXCEPT
        !.want = IF past THEN width ELSE col - 1]

(***************************************************************************)
(* do_find_bracket(): the place of the bracket that matches the one at the *)
(* cursor, found by counting.  There is one pair of brackets.              *)
(***************************************************************************)
MatchBrackets == {"(", ")"}

RECURSIVE BracketFrom(_, _, _, _)
BracketFrom(b, places, ch, balance) ==
  LET p == Head(places)
      n == balance + IF b.text[p[1]][p[2] + 1] = ch THEN 1 ELSE -1
  IN IF places = <<>> THEN Here(b)
     ELSE IF n = 0 THEN p ELSE BracketFrom(b, Tail(places), ch, n)

DoFindBracket(b) ==
  LET ch == Line(b)[b.x + 1]
      Earlier(p, q) == AtOrBefore(p, q)
      Later(p, q) == AtOrBefore(q, p)
      all == UNION {{<<y, x>> : x \in {x \in 0 .. Len(b.text[y]) - 1 :
                                         b.text[y][x + 1] \in MatchBrackets}}
                      : y \in 1 .. Bottom(b)} \ {Here(b)}
      places == IF ch = "(" THEN SetToSortSeq({p \in all : AtOrBefore(Here(b), p)}, Earlier)
                ELSE SetToSortSeq({p \in all : AtOrBefore(p, Here(b))}, Later)
      found == BracketFrom(b, places, ch, 1)
  IN IF AtEnd(b) \/ ch \notin MatchBrackets THEN b
     ELSE IF found = Here(b) THEN b ELSE MovedTo(b, found)
=============================================================================
