----------------------------- MODULE NanoInsert -----------------------------
(***************************************************************************)
(* Typing, Enter, hard-wrapping of long lines, and pasting.                *)
(***************************************************************************)
EXTENDS NanoCut

InsertLine(b, y, s) ==
  [b EXCEPT !.text = SubSeq(@, 1, y - 1) \o <<s>> \o SubSeq(@, y, Len(@)),
            !.mark = IF @[1] >= y THEN <<@[1] + 1, @[2]>> ELSE @,
            !.spill = IF @ >= y THEN @ + 1 ELSE @]

(***************************************************************************)
(* do_enter(): break the line at the cursor.  With AUTOINDENT, the new     *)
(* line gets the indentation of the sample line, and a line of only blanks *)
(* before the cursor is emptied.                                           *)
(***************************************************************************)
SampleLine(b) ==
  IF /\ IsSet(b, "BREAK_LONG_LINES") /\ b.y < Bottom(b)
     /\ InPar(Next1(b)) /\ ~BegPar(b.text, b.y + 1, b.opts)
  THEN Next1(b) ELSE Line(b)

DoEnter(b) ==
  LET auto == IsSet(b, "AUTOINDENT")
      Mark(extra, allBlanks) ==
        CASE b.mark[1] = b.y /\ b.mark[2] > b.x -> <<b.y + 1, b.mark[2] + extra - b.x>>
          [] b.mark[1] = b.y /\ b.mark[2] <= b.x /\ allBlanks -> <<b.y, 0>>
          [] b.mark[1] > b.y -> <<b.mark[1] + 1, b.mark[2]>>
          [] OTHER -> b.mark
      Noted(x) == AddUndo([b EXCEPT !.x = x, !.text[b.y] = Take(@, x)], "ENTER")
      Broken(extra, allBlanks) ==
        [InsertLine(Noted(IF allBlanks THEN 0 ELSE b.x), b.y + 1,
                    Take(SampleLine(b), extra) \o Rest(b)) EXCEPT
           !.y = b.y + 1, !.x = extra, !.mark = Mark(extra, allBlanks),
           !.size = @ + 1 + (IF auto /\ ~allBlanks THEN extra ELSE 0)]
      Dented(dent) == Broken(Min({dent, b.x}),
                             auto /\ dent = b.x /\ IndentLength(Line(b)) = dent)
  IN UpdateUndo(SetModified(Settled(Dented(
       IF auto THEN IndentLength(SampleLine(b)) ELSE 0))), "ENTER")

(***************************************************************************)
(* break_line(): the last blank at which a piece of text can be broken so  *)
(* that it is at most goal + 1 wide, or the first blank after that; the    *)
(* last one of a series.  The length when there is no need to break, -1    *)
(* when there is no place to.                                              *)
(***************************************************************************)
BreakLine(s, goal) ==
  LET LastOfSeries(n) == n + Leading(Drop(s, n), Blanks) - 1
      Breaking(stop, within, beyond) ==
        CASE Wideness(s, stop) <= goal -> stop
          [] Wideness(s, stop) > goal /\ within # {} -> LastOfSeries(Max(within))
          [] Wideness(s, stop) > goal /\ within = {} ->
               IF beyond = {} THEN -1 ELSE LastOfSeries(Min(beyond))
      Before(start, stop) == Breaking(stop, {n \in start .. stop - 1 : IsBlank(s[n + 1])},
                                      {n \in stop .. Len(s) - 1 : IsBlank(s[n + 1])})
      From(start) == Before(start, FirstBeyond(s, start, goal))
  IN From(IndentLength(s))

(***************************************************************************)
(* do_wrap(), in the order of the code: find the place, note SPLIT_BEGIN,  *)
(* join the next line when it is the spillage of an earlier wrap, snip     *)
(* trailing blanks, break the line, copy the quoting, note SPLIT_END.      *)
(***************************************************************************)
WrapPlace(b) ==
  LET Place(lead, at) == IF at < 0 \/ lead + at = Len(Line(b)) THEN -1 ELSE lead + at + 1
      Beyond(lead) == Place(lead, BreakLine(Drop(Line(b), lead),
                                            WrapAt - Wideness(Line(b), lead)))
  IN Beyond(LeadLength(Line(b)))

Prepends(b, place) ==
  /\ b.spill # 0 /\ b.spill = b.y + 1 /\ b.y < Bottom(b)
  /\ Len(Line(b)) - place + Breadth(Next1(b)) <= WrapAt

WithSpaceAtEnd(b) ==
  IF IsBlank(Last(Line(b))) THEN b
  ELSE UpdateUndo([AddUndo(b, "ADD") EXCEPT !.text[b.y] = Append(@, " "),
                                            !.size = @ + 1, !.x = @ + 1], "ADD")

RECURSIVE ExpungeTimes(_, _)
ExpungeTimes(b, n) == IF n = 0 THEN b ELSE ExpungeTimes(Expunge(b, "DEL"), n - 1)

WithoutLead(b, lead) ==
  IF IsPrefix(Take(Line(b), lead), Rest(b)) THEN ExpungeTimes(b, lead) ELSE b

JoinedToSpillage(b, place) ==
  IF ~Prepends(b, place) THEN b
  ELSE ExpungeWhile(WithoutLead(Expunge(WithSpaceAtEnd([b EXCEPT !.x = Len(Line(b))]), "DEL"),
                                LeadLength(Line(b))), Blanks)

(* Snip the blanks before the place, except one that was just typed.       *)
RECURSIVE SnippedBefore(_, _, _, _)
SnippedBefore(b, rear, place, cursor) ==
  IF /\ rear # Max({cursor - 1, 0}) \/ cursor >= place
     /\ IsBlank(Line(b)[rear + 1])
  THEN SnippedBefore(Expunge([b EXCEPT !.x = rear], "DEL"),
                     Max({rear - 1, 0}), place, cursor)
  ELSE b

(* A variant that does not count the quoting.                              *)
WithQuotingUncounted(b, lead) ==
  UpdateUndo([b EXCEPT !.text[b.y] = lead \o @, !.x = @ + Len(lead)], "ENTER")

WithQuoting(b, lead) ==
  LET quoted == [b EXCEPT !.text[b.y] = lead \o @, !.x = @ + Len(lead),
                          !.size = @ + Len(lead)]
  IN UpdateUndo(quoted, "ENTER")

WrappedAt(b, place) ==
  LET quoting == QuoteLength(Line(b)) > 0
      lead == Take(Line(b), LeadLength(Line(b)))
      Placed(c) ==
        [c EXCEPT !.x = place, !.opts = IF quoting THEN @ \ {"AUTOINDENT"} ELSE @]
      Snipped(c) ==
        IF IsSet(b, "TRIM_BLANKS") THEN SnippedBefore(c, place - 1, place, b.x) ELSE c
      Led(c) == IF quoting THEN [WithQuoting(c, lead) EXCEPT !.opts = b.opts] ELSE c
      Back(c) == IF b.x < place THEN [At(c, b.y, b.x) EXCEPT !.spill = c.y]
                 ELSE [c EXCEPT !.spill = c.y, !.x = @ + b.x - place]
  IN AddUndo(Settled(Back(Led(DoEnter(Snipped(Placed(
       JoinedToSpillage(AddUndo(b, "SPLIT_BEGIN"), place))))))), "SPLIT_END")

DoWrap(b) ==
  LET place == WrapPlace(b)
  IN IF place < 0 \/ place = Len(Line(b)) THEN b ELSE WrappedAt(b, place)

(* After a change within line y.                                           *)
WrappedIfAsked(b, y) ==
  IF b.y = y /\ IsSet(b, "BREAK_LONG_LINES") THEN DoWrap(b) ELSE b

(***************************************************************************)
(* Typing and pasting.                                                     *)
(***************************************************************************)
(* inject(): typing goes on in the same undo item as long as it is         *)
(* contiguous.                                                             *)
Inject(b, burst) ==
  LET u == CurrentUndo(b)
      noted == IF b.last # "ADD" \/ u.ty # b.y \/ u.tx # b.x THEN AddUndo(b, "ADD") ELSE b
      typed == SetModified([noted EXCEPT
        !.text[b.y] = Take(@, b.x) \o burst \o Drop(@, b.x),
        !.mark[2] = IF b.mark[1] = b.y /\ b.x < @ THEN @ + Len(burst) ELSE @,
        !.x = @ + Len(burst), !.size = @ + Len(burst)])
      Whole(c) == IF b.y = Bottom(b) /\ ~IsSet(b, "NO_NEWLINES") THEN NewMagicLine(c) ELSE c
  IN Settled(WrappedIfAsked(UpdateUndo(Whole(typed), "ADD"), b.y))

(* paste_text()                                                            *)
PasteText(b) ==
  LET pasted == UpdateUndo(IngraftBuffer(AddUndo(b, "PASTE"), b.clip), "PASTE")
  IN IF b.clip = <<>> THEN b ELSE SetModified(Settled(WrappedIfAsked(pasted, b.y)))

(* suck_up_input_and_paste_it(): a bracketed paste, past the cutbuffer.    *)
BracketedPaste(b, lines) == [PasteText([b EXCEPT !.clip = lines]) EXCEPT !.clip = b.clip]
=============================================================================
