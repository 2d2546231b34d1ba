------------------------------ MODULE NanoText ------------------------------
(***************************************************************************)
(* Lines of text as the editor sees them: which characters are blank, may  *)
(* form words, quote, or end sentences, and which columns they occupy.     *)
(*                                                                         *)
(* A character is one unit however many bytes encode it: the byte lengths  *)
(* of multibyte characters, which char_length() and step_left() deal with, *)
(* are left out.  The alphabet has one or two characters of every class    *)
(* that some function tells apart; "0" is a character of zero width.       *)
(***************************************************************************)
EXTENDS Integers, Sequences, FiniteSets, SequencesExt, FiniteSetsExt

CONSTANTS TabSize,     \* tabsize
          WrapAt       \* wrap_at, the column at which lines are to be wrapped

ASSUME TabSizeAssumption == TabSize \in Nat \ {0}
ASSUME WrapAtAssumption == WrapAt \in Nat

Blanks == {" ", "\t"}
Quoters == {">", "#"}
Punctuation == {".", ">", "#", "(", ")", "|"}
SentenceEnds == {"."}
Brackets == {")", ">"}
ZeroWidths == {"0"}

IsBlank(c) == c \in Blanks
IsZeroWidth(c) == c \in ZeroWidths

(* is_word_char(): letters, and punctuation when that is asked for.        *)
IsWordChar(c, allowPunct) ==
  c \notin Blanks /\ ~IsZeroWidth(c) /\ (c \in Punctuation => allowPunct)

Take(s, n) == SubSeq(s, 1, n)
Drop(s, n) == SubSeq(s, n + 1, Len(s))
Spaces(n) == [i \in 1 .. n |-> " "]

(* How many of the leading characters of s are in the set S.               *)
Leading(s, S) ==
  Max({n \in 0 .. Len(s) : \A i \in 1 .. n : s[i] \in S})

IndentLength(s) == Leading(s, Blanks)
IsWhite(s) == IndentLength(s) = Len(s)

(* The default quoting expression: quote characters, each of which may be  *)
(* preceded by blanks.                                                     *)
QuoteLength(s) ==
  Max({0} \cup {n \in 1 .. Leading(s, Blanks \cup Quoters) : s[n] \in Quoters})

(* The quoting plus the indentation after it.                              *)
LeadLength(s) == QuoteLength(s) + IndentLength(Drop(s, QuoteLength(s)))

(* length_of_white(): leading whitespace, at most a tab's worth.           *)
LengthOfWhite(s) ==
  LET spaces == Leading(s, {" "})
  IN IF spaces >= TabSize THEN TabSize
     ELSE IF spaces < Len(s) /\ s[spaces + 1] = "\t" THEN spaces + 1
     ELSE spaces

(***************************************************************************)
(* Columns.                                                                *)
(***************************************************************************)
AdvanceOver(c, column) ==
  IF c = "\t" THEN column + TabSize - (column % TabSize)
  ELSE IF IsZeroWidth(c) THEN column
  ELSE column + 1

Breadth(s) ==
  LET column[n \in 0 .. Len(s)] == IF n = 0 THEN 0 ELSE AdvanceOver(s[n], column[n - 1])
  IN column[Len(s)]

(* How many columns the first n characters of s occupy.                    *)
Wideness(s, n) == Breadth(Take(s, Min({n, Len(s)})))

(* The furthest position in s that does not overshoot the given column.    *)
ActualX(s, column) == Max({n \in 0 .. Len(s) : Wideness(s, n) <= column})

(* The first position, from the given one on, beyond a column, or the end. *)
FirstBeyond(s, from, column) ==
  Min({Len(s)} \cup {n \in from .. Len(s) : Wideness(s, n) > column})

(***************************************************************************)
(* Pieces of text: nonempty sequences of lines, the last one not followed  *)
(* by a newline.                                                           *)
(***************************************************************************)
NumberOfCharacters(lines) == Len(FlattenSeq(lines)) + Len(lines) - 1

Meld(A, B) == Front(A) \o <<Last(A) \o Head(B)>> \o Tail(B)

(* Positions are pairs of a line number and an index in that line.         *)
AtOrBefore(p, q) == p[1] < q[1] \/ (p[1] = q[1] /\ p[2] <= q[2])
=============================================================================
