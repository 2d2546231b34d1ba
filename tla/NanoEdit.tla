------------------------------ MODULE NanoEdit ------------------------------
(***************************************************************************)
(* The editor at its main loop: process_a_keystroke() reads a key, resets  *)
(* what only lasts from one command to the next, runs the command, and     *)
(* drops a soft mark when the command was not a shifted movement.          *)
(*                                                                         *)
(* A key is a record: f is the function that is bound to it ("type" for a  *)
(* character), shifted whether Shift was held, and the fields s, t, n, on  *)
(* and choices are what the user then enters at prompts, or the text that  *)
(* a file or a program supplies.  A session is the text and the options it *)
(* starts with, the keys that may be pressed in it, and a bound on how     *)
(* many are.  Left out: the mouse, macros, what only concerns the screen.  *)
(***************************************************************************)
EXTENDS NanoTools

CONSTANTS Sessions,    \* records [text, opts, keys, limit]
          Reuse        \* whether a freed undo item is allocated anew

VARIABLES openfile,    \* the buffer
          session,     \* the session, fixed at the start
          steps        \* how many keys were pressed

vars == <<openfile, session, steps>>

(* read_file() into a new buffer: with the cursor at the start.            *)
NewBuffer(text, opts) ==
  EnsureMagicLine(
    [text |-> text, y |-> 1, x |-> 0, want |-> 0, mark |-> NoMark, soft |-> FALSE,
     size |-> NumberOfCharacters(text), mod |-> FALSE,
     undo |-> <<>>, cur |-> 0, last |-> "OTHER", saved |-> 0,
     clip |-> <<>>, keep |-> FALSE, pad |-> "clip", bottom |-> "none", spill |-> 0,
     opts |-> opts, needle |-> <<>>, pletion |-> NoMark, tried |-> {},
     also |-> FALSE, shift |-> FALSE, reuse |-> Reuse, fault |-> FALSE])

Init ==
  /\ session \in Sessions
  /\ openfile = NewBuffer(session.text, session.opts)
  /\ steps = 0

(***************************************************************************)
(* The functions that keys are bound to.                                   *)
(***************************************************************************)
WantedToMove ==
  {"do_left", "do_right", "do_up", "do_down", "do_home", "do_end", "to_prev_word",
   "to_next_word", "to_para_begin", "to_para_end", "to_prev_block", "to_next_block",
   "do_page_up", "do_page_down", "to_first_line", "to_last_line"}

Movements == WantedToMove \cup {"goto_line_and_column", "do_find_bracket"}
Searches == {"do_search_forward", "do_search_backward", "do_findnext", "do_findprevious"}
Deletions == {"do_delete", "do_backspace", "chop_previous_word", "chop_next_word"}
Cuts == {"cut_text", "cut_till_eof", "zap_text", "copy_text", "paste_text"}
LineChanges == {"do_enter", "do_tab", "do_indent", "do_unindent", "do_comment",
                "do_justify", "do_full_justify"}
Replacements == {"do_replace", "do_int_speller"}
Tools == {"do_insertfile", "do_execute", "do_spell", "do_formatter", "do_linter",
          "complete_a_word"}
History == {"do_undo", "do_redo", "do_savefile"}

ChangesSomething ==
  (Deletions \cup Cuts \cup LineChanges \cup Replacements \cup Tools \cup {"do_savefile"})
    \ {"copy_text", "do_insertfile", "do_linter"}

Move(b, key) ==
  CASE key.f = "do_left" -> DoLeft(b)
    [] key.f = "do_right" -> DoRight(b)
    [] key.f = "do_up" -> DoUp(b)
    [] key.f = "do_down" -> DoDown(b)
    [] key.f = "do_home" -> DoHome(b)
    [] key.f = "do_end" -> DoEnd(b)
    [] key.f = "to_prev_word" -> ToPrevWord(b)
    [] key.f = "to_next_word" -> ToNextWord(b)
    [] key.f = "to_para_begin" -> ToParaBegin(b)
    [] key.f = "to_para_end" -> ToParaEnd(b)
    [] key.f = "to_prev_block" -> ToPrevBlock(b)
    [] key.f = "to_next_block" -> ToNextBlock(b)
    [] key.f = "do_page_up" -> DoPageUp(b)
    [] key.f = "do_page_down" -> DoPageDown(b)
    [] key.f = "to_first_line" -> ToFirstLine(b)
    [] key.f = "to_last_line" -> ToLastLine(b)
    [] key.f = "goto_line_and_column" -> GotoLineAndColumn(b, key.n[1], key.n[2])
    [] key.f = "do_find_bracket" -> DoFindBracket(b)

Search(b, key) ==
  CASE key.f = "do_search_forward" -> DoSearchForward(b, key.s)
    [] key.f = "do_search_backward" -> DoSearchBackward(b, key.s)
    [] key.f = "do_findnext" -> DoFindNext(b)
    [] key.f = "do_findprevious" -> DoFindPrevious(b)

Delete(b, key) ==
  CASE key.f = "do_delete" -> DoDelete(b)
    [] key.f = "do_backspace" -> DoBackspace(b)
    [] key.f = "chop_previous_word" -> ChopPreviousWord(b)
    [] key.f = "chop_next_word" -> ChopNextWord(b)

Cut(b, key) ==
  CASE key.f = "cut_text" -> CutText(b)
    [] key.f = "cut_till_eof" -> CutTillEof(b)
    [] key.f = "zap_text" -> ZapText(b)
    [] key.f = "copy_text" -> CopyText(b)
    [] key.f = "paste_text" -> PasteText(b)

ChangeLines(b, key) ==
  CASE key.f = "do_enter" -> DoEnter(b)
    [] key.f = "do_tab" -> DoTab(b)
    [] key.f = "do_indent" -> DoIndent(b)
    [] key.f = "do_unindent" -> DoUnindent(b)
    [] key.f = "do_comment" -> DoComment(b)
    [] key.f = "do_justify" -> DoJustify(b)
    [] key.f = "do_full_justify" -> DoFullJustify(b)

Replace(b, key) ==
  CASE key.f = "do_replace" -> DoReplace(b, key.s, key.on, key.t, key.choices)
    [] key.f = "do_int_speller" -> DoIntSpeller(b, key.t)

RunTool(b, key) ==
  CASE key.f = "do_insertfile" -> InsertFile(b, key.t)
    [] key.f = "do_execute" -> ExecuteCommand(b, key.on, key.t, key.fails)
    [] key.f = "do_spell" -> DoSpell(b, key.t)
    [] key.f = "do_formatter" -> DoFormatter(b, key.t)
    [] key.f = "do_linter" -> DoLinter(b, key.on, key.t, key.n)
    [] key.f = "complete_a_word" -> CompleteAWord(b)

Revise(b, key) ==
  CASE key.f = "do_undo" -> DoUndo(b)
    [] key.f = "do_redo" -> DoRedo(b)
    [] key.f = "do_savefile" -> DoSave(b)

(***************************************************************************)
(* process_a_keystroke()                                                   *)
(***************************************************************************)
(* Only cuts and copies add to what was cut or copied just before, and     *)
(* only a completion replaces the completion just before.                  *)
Prepared(b, key) ==
  LET c == [b EXCEPT !.keep = @ /\ key.f \in {"cut_text", "copy_text", "zap_text"},
                     !.pletion = IF key.f = "complete_a_word" THEN @ ELSE NoMark,
                     !.shift = key.shifted]
  IN IF key.shifted /\ c.mark = NoMark THEN [c EXCEPT !.mark = Here(b), !.soft = TRUE]
     ELSE c

(* A soft mark goes when its region changes without Shift.                 *)
Finished(b, c, key) ==
  IF key.f = "type" THEN c
  ELSE IF /\ c.mark # NoMark /\ c.soft /\ ~c.shift
          /\ Here(c) # Here(b) \/ key.f \in WantedToMove
  THEN Unmarked(c)
  ELSE [c EXCEPT !.also = @ /\ c.y = b.y]

Ready(key) == Prepared(openfile, key)

(* A command turns the buffer that is ready for it into the result.        *)
Press(key, result) ==
  /\ steps < session.limit
  /\ steps' = steps + 1
  /\ openfile' = IF IsSet(openfile, "VIEW_MODE") /\ key.f \in ChangesSomething THEN openfile
                 ELSE Finished(Ready(key), result, key)
  /\ UNCHANGED session

(* A character, or a pasted text, replaces no selection but drops a soft   *)
(* mark (the paste because the cursor moves).  View mode refuses both.     *)
Typed(b, key) ==
  IF IsSet(b, "VIEW_MODE") THEN b
  ELSE IF key.f = "paste" THEN BracketedPaste(b, key.t)
  ELSE Inject(IF b.soft THEN Unmarked(b) ELSE b, key.s)

TypeText(key) == key.f \in {"type", "paste"} /\ Press(key, Typed(Ready(key), key))
MoveCursor(key) == key.f \in Movements /\ Press(key, Move(Ready(key), key))
SearchText(key) == key.f \in Searches /\ Press(key, Search(Ready(key), key))
ToggleMark(key) == key.f = "do_mark" /\ Press(key, DoMark(Ready(key)))
DeleteText(key) == key.f \in Deletions /\ Press(key, Delete(Ready(key), key))
CutOrPaste(key) == key.f \in Cuts /\ Press(key, Cut(Ready(key), key))
ReshapeLines(key) == key.f \in LineChanges /\ Press(key, ChangeLines(Ready(key), key))
ReplaceText(key) == key.f \in Replacements /\ Press(key, Replace(Ready(key), key))
CallTool(key) == key.f \in Tools /\ Press(key, RunTool(Ready(key), key))
UndoRedoSave(key) == key.f \in History /\ Press(key, Revise(Ready(key), key))

(* do_toggle(): the option of the key; cuts are not joined across a change *)
(* of what they cut.                                                       *)
Toggled(b, option) ==
  [b EXCEPT !.opts = IF option \in @ THEN @ \ {option} ELSE @ \cup {option},
            !.keep = @ /\ option # "CUT_FROM_CURSOR"]
ToggleOption(key) ==
  key.f = "do_toggle" /\ Press(key, Toggled(Ready(key), key.s))

Next ==
  \E key \in session.keys :
    \/ TypeText(key) \/ MoveCursor(key) \/ SearchText(key) \/ ToggleMark(key)
    \/ DeleteText(key) \/ CutOrPaste(key) \/ ReshapeLines(key) \/ ReplaceText(key)
    \/ CallTool(key) \/ UndoRedoSave(key) \/ ToggleOption(key)

Spec == Init /\ [][Next]_vars
=============================================================================
