------------------------------ MODULE NanoMove ------------------------------
(***************************************************************************)
(* The commands that move the cursor.  What they do to the viewport is     *)
(* left out.                                                               *)
(***************************************************************************)
EXTENDS NanoChunks

(* The last lines of most movements: edit_redraw() sets placewewant.       *)
MovedTo(b, p) == Settled(At(b, p[1], p[2]))

ToFirstLine(b) == MovedTo(b, <<1, 0>>)
ToLastLine(b) == MovedTo(b, <<Bottom(b), Len(Last(b.text))>>)

(***************************************************************************)
(* Characters.                                                             *)
(***************************************************************************)
(* One character left or right in line s, passing over zero-widths.        *)
LeftIn(s, x) ==
  Max({0} \cup {n \in 0 .. x - 1 : ~IsZeroWidth(s[n + 1])})
RightIn(s, x) ==
  Min({Len(s)} \cup {n \in x + 1 .. Len(s) - 1 : ~IsZeroWidth(s[n + 1])})

DoLeft(b) ==
  IF b.x > 0 THEN MovedTo(b, <<b.y, LeftIn(Line(b), b.x)>>)
  ELSE IF b.y > 1 THEN MovedTo(b, <<b.y - 1, Len(b.text[b.y - 1])>>)
  ELSE Settled(b)

DoRight(b) ==
  IF ~AtEnd(b) THEN MovedTo(b, <<b.y, RightIn(Line(b), b.x)>>)
  ELSE IF b.y < Bottom(b) THEN MovedTo(b, <<b.y + 1, 0>>)
  ELSE Settled(b)

(***************************************************************************)
(* Words.  A position is a place in the text; the one at the end of a line *)
(* stands for the line break.                                              *)
(***************************************************************************)
WordAt(b, p) ==
  p[2] < Len(b.text[p[1]])
    /\ IsWordChar(b.text[p[1]][p[2] + 1], IsSet(b, "WORD_BOUNDS"))
ZeroWidthAt(b, p) ==
  p[2] < Len(b.text[p[1]]) /\ IsZeroWidth(b.text[p[1]][p[2] + 1])

StepBack(b, p) ==
  IF p[2] > 0 THEN <<p[1], p[2] - 1>>
  ELSE <<p[1] - 1, Max({Len(b.text[p[1] - 1]) - 1, 0})>>
StepOn(b, p) ==
  IF p[2] < Len(b.text[p[1]]) THEN <<p[1], p[2] + 1>> ELSE <<p[1] + 1, 0>>

(* do_prev_word(): back to the start of the first word that is passed.     *)
RECURSIVE PrevWordFrom(_, _, _)
PrevWordFrom(b, p, seen) ==
  LET q == StepBack(b, p)
  IN IF p = <<1, 0>> THEN p
     ELSE IF WordAt(b, q)
     THEN IF q[2] = 0 THEN q ELSE PrevWordFrom(b, q, TRUE)
     ELSE IF seen /\ ~ZeroWidthAt(b, q)
     THEN <<q[1], q[2] + 1>>
     ELSE PrevWordFrom(b, q, seen)

DoPrevWord(b) == LET p == PrevWordFrom(b, Here(b), FALSE) IN At(b, p[1], p[2])

(* do_next_word(): on to the next word start or, when that is asked for,   *)
(* word end.  "seen" is seen_space or seen_word.                           *)
RECURSIVE NextWordFrom(_, _, _, _)
NextWordFrom(b, p, seen, ends) ==
  LET q == StepOn(b, p)
      broken == seen \/ (~ends /\ p[2] = Len(b.text[p[1]]))
  IN IF p = <<Bottom(b), Len(Last(b.text))>> THEN p
     ELSE IF ZeroWidthAt(b, q) THEN NextWordFrom(b, q, broken, ends)
     ELSE IF WordAt(b, q) # ends
     THEN IF broken THEN q ELSE NextWordFrom(b, q, ends, ends)
     ELSE NextWordFrom(b, q, TRUE, ends)

DoNextWord(b, ends) ==
  LET seen == WordAt(b, Here(b)) = ends
      p == NextWordFrom(b, Here(b), seen, ends)
  IN At(b, p[1], p[2])

ToPrevWord(b) == Settled(DoPrevWord(b))
ToNextWord(b) == Settled(DoNextWord(b, IsSet(b, "AFTER_ENDS")))

(***************************************************************************)
(* Along the line, or the chunk when soft wrapping.                        *)
(***************************************************************************)
(* A variant that may stay on a tab which begins on another chunk.         *)
ProperXOnTab(b, y, left, forward, column) ==
  LET x == ActualX(b.text[y], column)
  IN [x |-> x, shifted |-> FALSE, left |-> LeftEdgeFor(b, Wideness(b.text[y], x), y)]

(* Whether index x is at a tab which begins on the chunk before.           *)
OnTabFromBefore(b, y, left, forward, column, x) ==
  LET s == b.text[y]
      tab == column \div TabSize
  IN /\ IsSet(b, "SOFTWRAP") /\ x < Len(s) /\ s[x + 1] = "\t"
     /\ \/ forward /\ Wideness(s, x) < left
        \/ /\ ~forward
           /\ tab = (left - 1) \div TabSize
           /\ tab < (left + EditWinCols - 1) \div TabSize

IndexOnChunk(b, y, x, shifted) ==
  LET at == IF shifted THEN x + 1 ELSE x
  IN [x |-> at, shifted |-> shifted, left |-> LeftEdgeFor(b, Wideness(b.text[y], at), y)]

(* proper_x(): the index for a column, one further when that is such a tab.*)
ProperX(b, y, left, forward, column) ==
  LET x == ActualX(b.text[y], column)
  IN IndexOnChunk(b, y, x, OnTabFromBefore(b, y, left, forward, column, x))

(* actual_last_column(): the wanted column, kept within the chunk.         *)
ActualLastColumn(b, y, left, column) ==
  LET Within(chunk) == Min({column, chunk.at - left - (IF chunk.end THEN 0 ELSE 1)})
  IN left + IF IsSet(b, "SOFTWRAP")
            THEN Within(SoftwrapBreakpoint(b.text[y], left, 0, IsSet(b, "AT_BLANKS")))
            ELSE column

ProperXFor(b, y, left, target, forward) ==
  ProperX(b, y, left, forward, ActualLastColumn(b, y, left, target))

(* set_proper_index_and_pww(): onto the given chunk of line y, or onto the *)
(* one where the index that was found first is.                            *)
SecondTry(b, y, left, target, forward, first) ==
  IF first.shifted \/ first.left < left THEN ProperXFor(b, y, first.left, target, forward)
  ELSE first

OntoChunk(b, y, left, target, forward) ==
  LET Onto(place) == [At(b, y, place.x) EXCEPT !.want = place.left + target]
  IN Onto(SecondTry(b, y, left, target, forward, ProperXFor(b, y, left, target, forward)))

LeftEdge(b) == LeftEdgeFor(b, XPlusTabs(b), b.y)

(* get_edge_and_target(): the column that is wanted on the chunk.          *)
TargetColumn(b) ==
  LET shim == EditWinCols * (1 + (TabSize \div EditWinCols))
  IN IF IsSet(b, "SOFTWRAP") THEN (b.want + shim - LeftEdge(b)) % EditWinCols
     ELSE b.want

(* Onto the given place or, when there are not that many rows, elsewhere.  *)
VerticallyTo(b, place, forward, otherwise) ==
  IF place.short > 0 THEN otherwise
  ELSE OntoChunk(b, place.y, place.left, TargetColumn(b), forward)

MustMove == IF EditWinRows < 3 THEN 1 ELSE EditWinRows - 2

DoUp(b) == VerticallyTo(b, GoBackChunks(b, 1, b.y, LeftEdge(b)), FALSE, b)
DoDown(b) == VerticallyTo(b, GoForwardChunks(b, 1, b.y, LeftEdge(b)), TRUE, b)
DoPageUp(b) ==
  VerticallyTo(b, GoBackChunks(b, MustMove, b.y, LeftEdge(b)), FALSE, ToFirstLine(b))
DoPageDown(b) ==
  VerticallyTo(b, GoForwardChunks(b, MustMove, b.y, LeftEdge(b)), TRUE, ToLastLine(b))

DoHome(b) ==
  LET indent == IndentLength(Line(b))
      smart == IsSet(b, "SMART_HOME") /\ indent < Len(Line(b))
      Home(edge) ==
        CASE smart /\ b.x = indent -> MovedTo(b, <<b.y, 0>>)
          [] smart /\ b.x # indent /\ edge.x <= indent -> MovedTo(b, <<b.y, indent>>)
          [] ~(smart /\ (b.x = indent \/ edge.x <= indent)) ->
               IF b.x = edge.x \/ ~IsSet(b, "SOFTWRAP") THEN MovedTo(b, <<b.y, 0>>)
               ELSE [b EXCEPT !.x = edge.x, !.want = edge.left]
  IN Home(IF IsSet(b, "SOFTWRAP") THEN ProperX(b, b.y, LeftEdge(b), FALSE, LeftEdge(b))
          ELSE [x |-> 0, left |-> 0])

DoEnd(b) ==
  LET Right(chunk) == IF chunk.end THEN chunk.at ELSE chunk.at - 1
      Onto(right, x) ==
        IF ~IsSet(b, "SOFTWRAP") \/ b.x = x THEN MovedTo(b, <<b.y, Len(Line(b))>>)
        ELSE [b EXCEPT !.x = x, !.want = right]
      OntoColumn(right) == Onto(right, ActualX(Line(b), right))
  IN OntoColumn(Right(SoftwrapBreakpoint(Line(b), LeftEdge(b), 0, IsSet(b, "AT_BLANKS"))))

(***************************************************************************)
(* Paragraphs and blocks.                                                  *)
(***************************************************************************)
InPar(s) == LeadLength(s) < Len(s)

(* begpar(): whether line y of a text begins a paragraph.  The limit on    *)
(* the depth of the recursion is beyond any text of the model.             *)
RECURSIVE BegPar(_, _, _)
BegPar(text, y, opts) ==
  LET s == text[y]
      above == text[y - 1]
      quote == QuoteLength(s)
      dent == IndentLength(Drop(above, quote))
  IN IF y = 1 THEN TRUE
     ELSE IF ~InPar(s) THEN FALSE
     ELSE \/ "BOOKSTYLE" \in opts /\ "AUTOINDENT" \notin opts /\ IsBlank(s[1])
          \/ quote # QuoteLength(above)
          \/ Take(s, quote) # Take(above, quote)
          \/ quote + dent = Len(above)
          \/ /\ Wideness(above, quote + dent) # Wideness(s, LeadLength(s))
             /\ ~BegPar(text, y - 1, opts)

ParBegin(text, y, opts) ==
  Max({1} \cup {n \in 1 .. y - 1 : BegPar(text, n, opts)})
ParEnd(text, y, opts) ==
  LET first == Min({Len(text)} \cup {n \in y .. Len(text) : InPar(text[n])})
  IN Min({Len(text)} \cup {n \in first .. Len(text) - 1 :
                             ~InPar(text[n + 1]) \/ BegPar(text, n + 1, opts)})

ToParaBegin(b) == MovedTo(b, <<ParBegin(b.text, b.y, b.opts), 0>>)
ToParaEnd(b) ==
  LET end == ParEnd(b.text, b.y, b.opts)
  IN MovedTo(b, IF end < Bottom(b) THEN <<end + 1, 0>> ELSE <<end, Len(b.text[end])>>)

ToPrevBlock(b) ==
  LET White(y) == IsWhite(b.text[y])
      seen == {y \in 1 .. b.y - 1 : ~White(y)}
      stop == Max({1} \cup {y \in 1 .. Max({0} \cup seen) : White(y)})
  IN MovedTo(b, <<IF seen # {} /\ White(stop) /\ stop < Bottom(b)
                  THEN stop + 1 ELSE stop, 0>>)

ToNextBlock(b) ==
  LET White(y) == IsWhite(b.text[y])
      white == Min({Bottom(b)} \cup {y \in b.y .. Bottom(b) : White(y)})
  IN MovedTo(b, <<Min({Bottom(b)} \cup {y \in Max({white, b.y + 1}) .. Bottom(b) :
                                        ~White(y)}), 0>>)
=============================================================================
