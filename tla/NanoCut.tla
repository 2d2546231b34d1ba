------------------------------ MODULE NanoCut -------------------------------
(***************************************************************************)
(* Deleting, cutting, zapping and copying.                                 *)
(***************************************************************************)
EXTENDS NanoMove

(***************************************************************************)
(* Single characters.                                                      *)
(***************************************************************************)
(* The undo item for a deletion: the same one as long as the same kind of  *)
(* deletion goes on in the same line.                                      *)
DeletionNoted(b, action) ==
  IF action # b.last \/ b.y # CurrentUndo(b).hy THEN AddUndo(b, action)
  ELSE UpdateUndo(b, action)

Counted(b) ==
  SetModified([b EXCEPT !.size = @ - 1, !.undo[b.cur].new = b.size - 1])

(* The two ways in which expunge() changes the text.                       *)
CharacterGone(b, action) ==
  LET Gone(n) == [n EXCEPT !.text[b.y] = Take(@, b.x) \o Drop(@, b.x + 1),
                           !.mark[2] = IF b.mark[1] = b.y /\ @ > b.x THEN @ - 1 ELSE @]
  IN Counted(Gone(DeletionNoted(b, action)))

LinesJoined(b, action) ==
  LET n == AddUndo(b, action)
  IN Counted([n EXCEPT
       !.text = TextWithout(@, Here(b), <<b.y + 1, 0>>),
       !.mark = IF @[1] = b.y + 1 THEN <<b.y, @[2] + b.x>>
                ELSE IF @[1] > b.y + 1 THEN <<@[1] - 1, @[2]>> ELSE @,
       !.spill = IF @ = b.y + 1 THEN 0 ELSE IF @ > b.y THEN @ - 1 ELSE @])

(* expunge(): before the magic line, a line break is not deleted but a     *)
(* Backspace is noted all the same.                                        *)
Expunge(b, action) ==
  LET p == Settled(b)
      beforeMagic == b.y + 1 = Bottom(b) /\ b.x # 0 /\ ~IsSet(b, "NO_NEWLINES")
  IN CASE ~AtEnd(b) -> CharacterGone(p, action)
       [] AtEnd(b) /\ b.y < Bottom(b) /\ ~beforeMagic -> LinesJoined(p, action)
       [] AtEnd(b) /\ b.y < Bottom(b) /\ beforeMagic ->
            IF action = "BACK" THEN AddUndo(p, "BACK") ELSE p
       [] AtEnd(b) /\ b.y = Bottom(b) -> p

(* Expunge as long as there is one of the given characters at the cursor.  *)
RECURSIVE ExpungeWhile(_, _)
ExpungeWhile(b, chars) ==
  IF ~AtEnd(b) /\ Line(b)[b.x + 1] \in chars
  THEN ExpungeWhile(Expunge(b, "DEL"), chars) ELSE b

(***************************************************************************)
(* Cutting.                                                                *)
(***************************************************************************)
(* is_cuttable(): whether there is anything to cut.                        *)
IsCuttable(b, testCliff) ==
  LET from == IF testCliff THEN b.x ELSE 0
      nothingAfter == from = Len(Line(b))
  IN ~ \/ b.y = Bottom(b) /\ nothingAfter /\ b.mark = NoMark
       \/ b.mark = Here(b)
       \/ from > 0 /\ ~IsSet(b, "NO_NEWLINES") /\ nothingAfter
            /\ b.y + 1 = Bottom(b)

Unmarked(b) == [b EXCEPT !.mark = NoMark]

EndOfText(b) == <<Bottom(b), Len(Last(b.text))>>

CutMarkedRegion(b) ==
  Settled(ExtractSegment(b, Region(b)[1], Region(b)[2]))

(* The line, or with CUT_FROM_CURSOR its rest, or its line break.          *)
CutFromCursor(b) ==
  IF ~AtEnd(b) THEN ExtractSegment(b, Here(b), <<b.y, Len(Line(b))>>)
  ELSE IF b.y < Bottom(b) THEN Settled(ExtractSegment(b, Here(b), <<b.y + 1, 0>>))
  ELSE b

CutLine(b) ==
  [ExtractSegment(b, <<b.y, 0>>, IF b.y < Bottom(b) THEN <<b.y + 1, 0>>
                                 ELSE <<b.y, Len(Line(b))>>) EXCEPT !.want = 0]

SnippedOut(b, untilEof) ==
  IF untilEof THEN ExtractSegment(b, Here(b), EndOfText(b))
  ELSE IF b.mark # NoMark THEN Unmarked(CutMarkedRegion(b))
  ELSE IF IsSet(b, "CUT_FROM_CURSOR") THEN CutFromCursor(b)
  ELSE CutLine(b)

(* do_snip(): what is cut is added to the cutbuffer when the command       *)
(* before was a cut of lines as well, or when zapping.                     *)
DoSnip(b, marked, untilEof, append) ==
  LET keep == b.keep /\ b.last # "COPY"
      ready == IF (marked \/ untilEof \/ ~keep) /\ ~append
               THEN [b EXCEPT !.clip = <<>>] ELSE b
  IN SetModified([SnippedOut(ready, untilEof) EXCEPT !.keep = ~marked /\ ~untilEof])

(* A variant that forgets that a zap may have come before.                 *)
CutTextUnnoted(b) ==
  LET noted == IF ~b.keep THEN AddUndo(b, "CUT") ELSE b
  IN IF IsCuttable(b, IsSet(b, "CUT_FROM_CURSOR") /\ b.mark = NoMark)
     THEN UpdateUndo(DoSnip(noted, b.mark # NoMark, FALSE, FALSE), "CUT")
     ELSE Unmarked(b)

CutText(b) ==
  LET noted == IF b.last # "CUT" \/ ~b.keep
               THEN AddUndo([b EXCEPT !.keep = FALSE], "CUT") ELSE b
  IN IF IsCuttable(b, IsSet(b, "CUT_FROM_CURSOR") /\ b.mark = NoMark)
     THEN UpdateUndo(DoSnip(noted, b.mark # NoMark, FALSE, FALSE), "CUT")
     ELSE Unmarked(b)

CutTillEof(b) ==
  IF /\ AtEnd(b)
     /\ \/ b.y = Bottom(b)
        \/ ~IsSet(b, "NO_NEWLINES") /\ b.x > 0 /\ b.y + 1 = Bottom(b)
  THEN b
  ELSE UpdateUndo(DoSnip(AddUndo(b, "CUT_TO_EOF"), FALSE, TRUE, FALSE), "CUT_TO_EOF")

(* zap_text(): a cut into the cutbuffer of the undo item.                  *)
ZapText(b) ==
  LET noted == IF b.last # "ZAP" \/ ~b.keep THEN AddUndo(b, "ZAP") ELSE b
      aside == [noted EXCEPT !.clip = CurrentUndo(noted).clip, !.pad = "zap"]
  IN IF IsCuttable(b, IsSet(b, "CUT_FROM_CURSOR") /\ b.mark = NoMark)
     THEN [UpdateUndo(DoSnip(aside, b.mark # NoMark, FALSE, TRUE), "ZAP")
           EXCEPT !.clip = b.clip, !.pad = "clip"]
     ELSE Unmarked(b)

(* A word start on another line counts as the near edge of this line,      *)
(* unless the cursor is there.                                             *)
NearEdge(b, to) ==
  CASE to.y = b.y -> Here(to)
    [] to.y < b.y -> IF b.x > 0 THEN <<b.y, 0>> ELSE <<to.y, Len(b.text[to.y])>>
    [] to.y > b.y -> IF ~AtEnd(b) THEN <<b.y, Len(Line(b))>> ELSE Here(to)

(* A variant that does not put the cutbuffer back.                         *)
ChopWordIntoClip(b, forward) ==
  LET to == IF forward THEN DoNextWord(b, IsSet(b, "AFTER_ENDS")) ELSE DoPrevWord(b)
      marked == AddUndo([b EXCEPT !.mark = Here(to), !.clip = <<>>], "CUT")
  IN UpdateUndo(DoSnip(marked, TRUE, FALSE, FALSE), "CUT")

(* chop_word(), which leaves the cutbuffer alone.                          *)
ChopWord(b, forward) ==
  LET to == IF forward THEN DoNextWord(b, IsSet(b, "AFTER_ENDS")) ELSE DoPrevWord(b)
      marked == [b EXCEPT !.mark = NearEdge(b, to), !.clip = <<>>, !.pad = "word"]
  IN [UpdateUndo(DoSnip(AddUndo(marked, "CUT"), TRUE, FALSE, FALSE), "CUT")
      EXCEPT !.clip = b.clip, !.pad = "clip"]

ChopPreviousWord(b) == IF Here(b) = <<1, 0>> THEN b ELSE ChopWord(b, FALSE)
ChopNextWord(b) ==
  IF IsCuttable(Unmarked(b), TRUE) THEN ChopWord(Unmarked(b), TRUE) ELSE Unmarked(b)

(***************************************************************************)
(* Delete and Backspace, which zap a marked region when that is asked for. *)
(***************************************************************************)
ZapsRegion(b) == b.mark # NoMark /\ IsSet(b, "LET_THEM_ZAP")

DoDelete(b) ==
  IF ZapsRegion(b) THEN ZapText(b) ELSE ExpungeWhile(Expunge(b, "DEL"), ZeroWidths)

DoBackspace(b) ==
  CASE ZapsRegion(b) -> ZapText(b)
    [] ~ZapsRegion(b) /\ b.x > 0 -> Expunge([b EXCEPT !.x = @ - 1], "BACK")
    [] ~ZapsRegion(b) /\ b.x = 0 /\ b.y > 1 -> Expunge(DoLeft(b), "BACK")
    [] ~ZapsRegion(b) /\ Here(b) = <<1, 0>> -> b

(***************************************************************************)
(* Copying.                                                                *)
(***************************************************************************)
CopyMarkedRegion(b) ==
  LET ends == Region(b)
      copied == IF ends[1] = ends[2] THEN <<>> ELSE Segment(b.text, ends[1], ends[2])
  IN [b EXCEPT !.last = "OTHER", !.keep = FALSE, !.mark = NoMark,
               !.clip = copied, !.bottom = "gone"]

(* The cutbuffer after a line, or part of one, has been copied to it.      *)
ClipWithLine(b, clip, addition, sansNewline) ==
  CASE clip = <<>> /\ sansNewline -> <<addition>>
    [] clip = <<>> /\ ~sansNewline -> <<addition, <<>>>>
    [] clip # <<>> /\ sansNewline -> Append(Front(clip), addition)
    [] clip # <<>> /\ ~sansNewline ->
         IF IsSet(b, "CUT_FROM_CURSOR") THEN Append(clip, addition)
         ELSE Append(Front(clip), addition) \o <<Last(clip)>>

(* copy_text(): copies of lines add up, which relies on cutbottom being    *)
(* the last line of the cutbuffer and, in two of the cases, on there being *)
(* a line before it.                                                       *)
CopyText(b) ==
  LET fromCursor == IsSet(b, "CUT_FROM_CURSOR")
      keep == b.keep /\ b.mark = NoMark /\ b.last = "COPY"
      clip == IF keep THEN b.clip ELSE <<>>
      onLast == b.y = Bottom(b)
      sansNewline == IF fromCursor THEN ~AtEnd(b)
                     ELSE IsSet(b, "NO_NEWLINES") /\ onLast
      addition == IF fromCursor THEN Rest(b) ELSE Line(b)
      unlinked == Len(clip) = 1 /\ (sansNewline \/ ~fromCursor)
      moved == IF (~fromCursor \/ AtEnd(b)) /\ ~onLast THEN <<b.y + 1, 0>>
               ELSE <<b.y, Len(Line(b))>>
      copied == [b EXCEPT
        !.clip = ClipWithLine(b, clip, addition, sansNewline), !.bottom = "clip",
        !.fault = @ \/ (clip # <<>> /\ b.bottom # "clip") \/ unlinked,
        !.keep = TRUE, !.last = "COPY"]
  IN CASE b.mark # NoMark -> CopyMarkedRegion(b)
       [] b.mark = NoMark /\ onLast /\ AtEnd(b) /\ (fromCursor \/ b.x = 0 \/ clip # <<>>) ->
            [b EXCEPT !.keep = keep, !.clip = clip]
       [] OTHER -> MovedTo(copied, moved)
=============================================================================
