----------------------------- MODULE NanoTools ------------------------------
(***************************************************************************)
(* The commands that bring in text from elsewhere: inserting a file,       *)
(* filtering through an external command, a spell checker, a formatter,    *)
(* and word completion; a linter; and what saving does to the buffer.      *)
(* What a file or a program contains or prints is an argument.             *)
(***************************************************************************)
EXTENDS NanoSearch

DoMark(b) == IF b.mark = NoMark THEN [b EXCEPT !.mark = Here(b), !.soft = FALSE]
             ELSE Unmarked(b)

(* A variant that remembers the newest item instead of the current one.    *)
DoSaveTop(b) == [b EXCEPT !.saved = Len(b.undo), !.last = "OTHER", !.mod = FALSE]

(* The lines of write_file() that update administrivia.                    *)
DoSave(b) == [b EXCEPT !.saved = b.cur, !.last = "OTHER", !.mod = FALSE]

(* read_file() into a buffer that is being edited.                         *)
ReadFile(b, lines) ==
  UpdateUndo(Settled(IngraftBuffer(AddUndo(b, "INSERT"), lines)), "INSERT")

(* open_buffer() and insert_a_file_or(): the buffer counts as modified     *)
(* when the cursor moved.                                                  *)
ModifiedIfMoved(b, c) == IF Here(c) # Here(b) THEN SetModified(c) ELSE c

InsertFile(b, lines) == ModifiedIfMoved(b, ReadFile(b, lines))

(***************************************************************************)
(* execute_command(): insert the output of a command or, with a pipe, let  *)
(* it replace the marked text or the whole buffer.  When the command       *)
(* fails, what was done is undone and forgotten.                           *)
(***************************************************************************)
CutForFilter(b) ==
  LET begun == AddUndo([b EXCEPT !.clip = <<>>, !.pad = "filter"], "COUPLE_BEGIN")
      noted == AddUndo(IF b.mark = NoMark THEN At(begun, 1, 0) ELSE begun, "CUT")
      cut == UpdateUndo(DoSnip(noted, b.mark # NoMark, b.mark = NoMark, FALSE), "CUT")
  IN [cut EXCEPT !.clip = b.clip, !.pad = "clip"]

Forgotten(b) == Discarded(DoUndo(b))

ExecuteCommand(b, pipe, lines, fails) ==
  LET Placed(c) == IF b.mark = NoMark THEN GotoLinePosx(c, b.y, 0) ELSE c
      Coupling(c) == IF pipe THEN AddUndo(Placed(c), "COUPLE_END") ELSE c
      Kept(c) == IF fails THEN Forgotten(c) ELSE c
      read == ReadFile(IF pipe THEN CutForFilter(b) ELSE b, lines)
  IN ModifiedIfMoved(b, Kept(Coupling(read)))

(***************************************************************************)
(* replace_buffer() and treat(): an external program has rewritten the     *)
(* marked text or the whole buffer.                                        *)
(***************************************************************************)
ReplaceBuffer(b, action, lines) ==
  LET begun == [AddUndo(b, "COUPLE_BEGIN") EXCEPT !.clip = <<>>, !.pad = "program"]
      noted == AddUndo(IF action = "CUT_TO_EOF" THEN At(begun, 1, 0) ELSE begun, action)
      cut == UpdateUndo(DoSnip(noted, b.mark # NoMark, b.mark = NoMark, FALSE), action)
  IN AddUndo(ReadFile([cut EXCEPT !.clip = b.clip, !.pad = "clip"], lines), "COUPLE_END")

(* Back to the old position, as far as there is text.                      *)
TreatedAt(b, c, x) ==
  LET There(g) == IF AtEnd(b) \/ g.x > Len(Line(g)) THEN [g EXCEPT !.x = Len(Line(g))] ELSE g
  IN [UpdateUndo(There(GotoLinePosx(c, b.y, x)), "COUPLE_END") EXCEPT !.want = b.want]

(* do_formatter(): a syntax's formatter, for the whole buffer.             *)
DoFormatter(b, lines) ==
  LET u == Unmarked(b) IN TreatedAt(u, ReplaceBuffer(u, "CUT_TO_EOF", lines), b.x)

(* do_spell() with an external checker, which keeps the lines as they are. *)
DoSpell(b, lines) ==
  LET upright == MarkIsBeforeCursor(b)
      Marked(c) == [c EXCEPT !.mark = <<b.mark[1], IF upright THEN b.mark[2] ELSE c.x>>]
      Treated(c) == IF b.mark = NoMark THEN TreatedAt(b, c, b.x)
                    ELSE TreatedAt(b, Marked(c), IF upright THEN c.x ELSE b.x)
      spelled == ReplaceBuffer(b, IF b.mark # NoMark THEN "CUT" ELSE "CUT_TO_EOF", lines)
  IN [Treated(spelled) EXCEPT !.shift = TRUE]

(* do_int_speller(): each misspelled word that the programs list, until    *)
(* the user cancels.                                                       *)
Corrected(b, word) == FixSpello(b, word.s, word.t, word.choices)

DoIntSpeller(b, corrections) ==
  [FoldLeft(Corrected, b, corrections) EXCEPT !.shift = TRUE]

(***************************************************************************)
(* do_linter(): go through the messages of a linter, records of the line,  *)
(* the column and whether they are about this file.  The user leaves at    *)
(* one of them, and skips those for other files.                           *)
(***************************************************************************)
(* The messages that are understood.  One without a valid line number is   *)
(* taken together with the next.                                           *)
Lints(messages) ==
  LET lost[i \in 0 .. Len(messages)] == i > 1 /\ ~lost[i - 1] /\ messages[i - 1].line <= 0
      good == SetToSortSeq({i \in DOMAIN messages : messages[i].line > 0 /\ ~lost[i]}, <)
  IN [k \in DOMAIN good |-> messages[good[k]]]

(* The cursor goes to the reported place, but not beyond the end of line.  *)
Shown(b, message) ==
  LET c == GotoLinePosx(b, message.line, message.col - 1)
  IN [c EXCEPT !.x = ActualX(Line(c), c.want)]

LintReady(b, saves) == IF b.mod /\ saves THEN DoSave(Unmarked(b)) ELSE Unmarked(b)

DoLinter(b, saves, messages, n) ==
  LET ready == LintReady(b, saves)
      lints == SelectSeq(Lints(messages), LAMBDA m : m.own)
  IN IF n \in DOMAIN lints THEN Shown(ready, lints[n]) ELSE ready

(***************************************************************************)
(* complete_a_word(): the first word that starts with the fragment before  *)
(* the cursor, each next time the next such word.  The field "tried" holds *)
(* the words that were tried; "pletion" is the place to go on searching    *)
(* from, NoMark when no completing is going on.                            *)
(***************************************************************************)
ShardStart(b) ==
  Max({0} \cup {n \in 1 .. b.x : ~IsWordChar(Line(b)[n], FALSE)})

WordFrom(s, x) ==
  SubSeq(s, x + 1, Max({n \in x .. Len(s) :
                          \A i \in x + 1 .. n : IsWordChar(s[i], FALSE)}))

Completions(b, shard) ==
  {p \in UNION {{<<y, x>> : x \in Occurrences(b.text[y], shard)} : y \in 1 .. Bottom(b)} :
     LET s == b.text[p[1]] IN
     /\ AtOrBefore(b.pletion, p)
     /\ Len(WordFrom(s, p[2])) > Len(shard)
     /\ p[2] > 0 => ~IsWordChar(s[p[2]], FALSE)
     /\ p # <<b.y, b.x - Len(shard)>>
     /\ WordFrom(s, p[2]) \notin b.tried}

(* The wrapping comes after the whole completion, as one item to undo.     *)
Completed(b, shard, p) ==
  LET word == WordFrom(b.text[p[1]], p[2])
      unwrapped == [b EXCEPT !.opts = @ \ {"BREAK_LONG_LINES"}]
  IN [WrappedIfAsked([Inject(unwrapped, Drop(word, Len(shard))) EXCEPT !.opts = b.opts], b.y)
      EXCEPT !.pletion = <<p[1], p[2] + 1>>, !.tried = @ \cup {word}]

NextCompletion(b, shard) ==
  LET places == Completions(b, shard)
      first == CHOOSE p \in places : \A q \in places : AtOrBefore(p, q)
  IN IF shard = <<>> \/ places = {} THEN [b EXCEPT !.pletion = NoMark]
     ELSE Completed(b, shard, first)

CompletedAgain(b) == NextCompletion(b, SubSeq(Line(b), ShardStart(b) + 1, b.x))

CompleteAWord(b) ==
  CompletedAgain(IF b.pletion # NoMark THEN DoUndo(b)
                 ELSE [b EXCEPT !.last = "OTHER", !.pletion = <<1, 0>>, !.tried = {}])
=============================================================================
