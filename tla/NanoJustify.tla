---------------------------- MODULE NanoJustify -----------------------------
(***************************************************************************)
(* Justification: cut a paragraph, all paragraphs or the marked text out   *)
(* of the buffer, rewrap it in the cutbuffer, and paste it back.           *)
(***************************************************************************)
EXTENDS NanoUndo

(* A lead that was copied from a line shorter than it should be long holds *)
(* a NUL: the text after it is in memory but not part of the line.         *)
Lead(s, length) == [s |-> s, length |-> length]
After(lead, s) == IF Len(lead.s) < lead.length THEN lead.s ELSE lead.s \o s

(***************************************************************************)
(* Reshaping lines.                                                        *)
(***************************************************************************)
(* A variant that expects the same leading part on every line.             *)
TackedFromLead(s, next) ==
  (IF s # <<>> /\ Last(s) # " " THEN Append(s, " ") ELSE s)
    \o Drop(next, Min({LeadLength(s), Len(next)}))

(* concat_paragraph(): lines "at" to "at + count - 1" as one line.         *)
Tacked(s, next) ==
  (IF s # <<>> /\ Last(s) # " " THEN Append(s, " ") ELSE s) \o Drop(next, LeadLength(next))

ConcatParagraph(lines, at, count) ==
  SubSeq(lines, 1, at - 1)
    \o <<FoldLeft(Tacked, lines[at], SubSeq(lines, at + 1, at + count - 1))>>
    \o SubSeq(lines, at + count, Len(lines))

(* squeeze(): one space for any series of blanks, at most two after the    *)
(* end of a sentence, none at the end of the line.                         *)
RECURSIVE Squeezed(_)
Squeezed(s) ==
  LET ends == s # <<>> /\ s[1] \in SentenceEnds
      closed == ends /\ Len(s) > 1 /\ s[2] \in Brackets
      kept == IF closed THEN 2 ELSE IF s[1] \in Blanks THEN 0 ELSE 1
      blanks == IndentLength(Drop(s, kept))
      spaces == IF ends THEN Min({blanks, 2}) ELSE IF kept = 0 THEN 1 ELSE 0
      passed == kept + IF spaces > 0 THEN blanks ELSE 0
  IN IF s = <<>> THEN <<>>
     ELSE Take(s, kept) \o Spaces(spaces) \o Squeezed(Drop(s, passed))

Trimmed(s) == Take(s, Max({0} \cup {n \in 1 .. Len(s) : s[n] # " "}))

Squeeze(s, skip) == Take(s, Min({skip, Len(s)})) \o Trimmed(Squeezed(Drop(s, skip)))

(* rewrap_paragraph(): break line "at" into lines that are narrow enough;  *)
(* "at" is then the line after them, when there is one.                    *)
RECURSIVE RewrapParagraph(_, _, _, _)
RewrapParagraph(lines, at, lead, trim) ==
  LET s == lines[at]
      Trim(head) == IF trim THEN Trimmed(head) ELSE head
      BrokenAt(place) ==
        SubSeq(lines, 1, at - 1) \o <<Trim(Take(s, place)), After(lead, Drop(s, place))>>
          \o SubSeq(lines, at + 1, Len(lines))
      Rewrapped(break) ==
        IF Breadth(s) <= WrapAt \/ break < 0 \/ lead.length + break = Len(s)
        THEN [lines |-> lines, at |-> IF at < Len(lines) THEN at + 1 ELSE at]
        ELSE RewrapParagraph(BrokenAt(lead.length + break + 1), at + 1, lead, trim)
  IN Rewrapped(BreakLine(Drop(s, lead.length), WrapAt - Wideness(s, lead.length)))

(* justify_paragraph(): the leading part comes from the second line.       *)
JustifyParagraph(lines, at, count, trim) ==
  LET sample == lines[IF count = 1 THEN at ELSE at + 1]
      lead == Lead(Take(sample, LeadLength(sample)), LeadLength(sample))
      joined == ConcatParagraph(lines, at, count)
      skip == QuoteLength(sample) + IndentLength(Drop(joined[at], QuoteLength(sample)))
  IN RewrapParagraph([joined EXCEPT ![at] = Squeeze(@, skip)], at, lead, trim)

(* find_paragraph(): the first paragraph at or after line "at".            *)
FindParagraph(text, at, opts) ==
  LET first == Min({Len(text)} \cup {n \in at .. Len(text) : InPar(text[n])})
      last == ParEnd(text, first, opts)
  IN [found |-> InPar(text[last]), first |-> first, count |-> last - first + 1]

RECURSIVE JustifyAll(_, _, _)
JustifyAll(lines, at, opts) ==
  LET Onward(done) == IF done.at = Len(done.lines) THEN done.lines
                      ELSE JustifyAll(done.lines, done.at, opts)
      From(par) == IF ~par.found THEN lines
                   ELSE Onward(JustifyParagraph(lines, par.first, par.count,
                                                "TRIM_BLANKS" \in opts))
  IN From(FindParagraph(lines, at, opts))

(***************************************************************************)
(* The marked text is treated as one paragraph.  Its ends are moved out    *)
(* of the leading parts and over the blanks around it.                     *)
(***************************************************************************)
WholeRegion(b) ==
  LET p == Region(b)[1]
      q == Region(b)[2]
      s == b.text[p[1]]
      e == b.text[q[1]]
      from == IF p[2] <= LeadLength(s) THEN 0 ELSE p[2]
      to == IF 0 < q[2] /\ q[2] < LeadLength(e) THEN LeadLength(e) ELSE q[2]
  IN [start |-> <<p[1], Max({0} \cup {n \in 1 .. from : ~IsBlank(s[n])})>>,
      end |-> <<q[1], IF to = 0 THEN 0 ELSE to + IndentLength(Drop(e, to))>>]

(* The line whose leading part the new paragraph gets.                     *)
RegionSample(b, y) ==
  LET first == Max({n \in 1 .. y : n = 1 \/ ~InPar(b.text[n])
                                     \/ BegPar(b.text, n, b.opts)})
  IN Min({Bottom(b)} \cup {n \in first .. Bottom(b) : InPar(b.text[n])})

RegionLeads(b, region) ==
  LET y == region.start[1]
      White(other) == SubSeq(other, QuoteLength(other) + 1, LeadLength(other))
      Second(length, quote, white) ==
        Lead(IF Len(quote) = length THEN quote \o white ELSE quote, length + Len(white))
      Leads(sample, other) ==
        [primary |-> Take(sample, LeadLength(sample)),
         secondary |-> Second(QuoteLength(sample),
                              Take(b.text[y], Min({QuoteLength(sample), Len(b.text[y])})),
                              White(other))]
      From(n) == Leads(b.text[n], b.text[IF n < Bottom(b) /\ y # region.end[1]
                                         THEN n + 1 ELSE n])
  IN From(RegionSample(b, y))

JustifiedRegion(b, lines, region, leads) ==
  LET first == leads.primary \o Drop(lines[1], LeadLength(lines[1]))
      count == region.end[1] - region.start[1] + IF region.end[2] > 0 THEN 1 ELSE 0
      joined == ConcatParagraph([lines EXCEPT ![1] = first], 1, count)
      squeezed == [joined EXCEPT ![1] = Squeeze(@, Len(leads.primary))]
      wrapped == RewrapParagraph(squeezed, 1, leads.secondary, IsSet(b, "TRIM_BLANKS")).lines
      beforeEol == region.end[2] > 0 /\ region.end[2] < Len(b.text[region.end[1]])
  IN (IF region.start[2] > 0 THEN <<<<>>>> ELSE <<>>) \o wrapped
       \o IF beforeEol THEN <<leads.primary>> ELSE <<>>

(***************************************************************************)
(* justify_text(): one item for the cut, one for the paste, coupled.       *)
(***************************************************************************)
CutForJustifying(b, start, end) ==
  UpdateUndo(ExtractSegment([AddUndo(b, "CUT") EXCEPT !.clip = <<>>, !.pad = "justify"],
                            start, end), "CUT")

PastedBack(b, lines) ==
  UpdateUndo(IngraftBuffer(AddUndo([b EXCEPT !.clip = lines], "PASTE"), lines), "PASTE")

Coupled(b, was) ==
  Done(Settled([AddUndo(b, "COUPLE_END") EXCEPT !.clip = was.clip, !.pad = "clip"]))

JustifyMarked(b) ==
  LET begun == AddUndo(b, "COUPLE_BEGIN")
      Marking(region) ==
        [At(begun, region.end[1], region.end[2]) EXCEPT !.mark = region.start]
      PutBack(cut, region) ==
        PastedBack(cut, JustifiedRegion(b, cut.clip, region, RegionLeads(b, region)))
      Swapped(c) == IF MarkIsBeforeCursor(b) THEN c
                    ELSE [At(c, c.mark[1], c.mark[2]) EXCEPT !.mark = Here(c)]
      Justified(region) ==
        PutBack(CutForJustifying(Marking(region), region.start, region.end), region)
  IN IF b.mark = Here(b) THEN DiscardTop(begun)
     ELSE Coupled(Swapped(Justified(WholeRegion(b))), b)

JustifyPlain(b, whole) ==
  LET begun == AddUndo(b, "COUPLE_BEGIN")
      inside == InPar(Line(b)) /\ ~BegPar(b.text, b.y, b.opts)
      from == IF whole THEN 1 ELSE IF inside THEN ParBegin(b.text, b.y, b.opts) ELSE b.y
      End(last) == IF last < Bottom(b) THEN <<last + 1, 0>> ELSE <<last, Len(b.text[last])>>
      Others(one) == IF whole THEN JustifyAll(one.lines, one.at, b.opts) ELSE one.lines
      PutBack(cut, par) ==
        PastedBack(cut, Others(JustifyParagraph(cut.clip, 1, par.count,
                                                IsSet(b, "TRIM_BLANKS"))))
      Placed(c) == IF whole THEN GotoLinePosx(c, b.y, 0) ELSE c
      Justified(par) ==
        PutBack(CutForJustifying(At(begun, par.first, 0), <<par.first, 0>>,
                  End(IF whole THEN Bottom(b) ELSE par.first + par.count - 1)), par)
      Found(par) == IF par.found THEN Coupled(Placed(Justified(par)), b)
                    ELSE At(DiscardTop(begun), par.first, Len(Last(b.text)))
  IN Found(FindParagraph(b.text, from, b.opts))

JustifyText(b, whole) == IF b.mark # NoMark THEN JustifyMarked(b) ELSE JustifyPlain(b, whole)

DoJustify(b) == JustifyText(b, FALSE)
DoFullJustify(b) == JustifyText(b, TRUE)
=============================================================================
