----------------------------- MODULE NanoHistory ----------------------------
(***************************************************************************)
(* The editor with a record of the texts its buffer has had, and what      *)
(* undoing, saving and the commands promise in terms of that record.       *)
(***************************************************************************)
EXTENDS NanoEdit

VARIABLES past,        \* the texts before each of the changes to undo
          future,      \* the texts after each of the changes to redo
          stored       \* the text as it was last read or saved

historyVars == <<vars, past, future, stored>>

(* What one Undo takes back: an item, or all items of a group.             *)
Begins == {"SPLIT_BEGIN", "COUPLE_BEGIN"}
Ends == {"SPLIT_END", "COUPLE_END"}
Units(items) ==
  LET depth[i \in 0 .. Len(items)] ==
        IF i = 0 THEN 0
        ELSE depth[i - 1] + CASE items[i].type \in Begins -> 1 [] items[i].type \in Ends -> -1
                              [] OTHER -> 0
  IN Cardinality({i \in DOMAIN items : depth[i] = 0})

ToUndo(b) == Units(Take(b.undo, b.cur))
ToRedo(b) == Units(Drop(b.undo, b.cur))

(* A command that made several changes went through the texts between.     *)
RECURSIVE TextsUpTo(_, _)
TextsUpTo(b, n) ==
  IF n = 0 THEN <<>> ELSE Append(TextsUpTo(DoUndo(b), n - 1), b.text)

HistoryInit == Init /\ past = <<>> /\ future = <<>> /\ stored = openfile.text

(* The record follows the numbers of changes to undo and to redo.          *)
Recording(key) ==
  LET b == openfile
      c == openfile'
      added == ToUndo(c) - ToUndo(b)
      redone == key.f = "do_redo" /\ added = 1
      undone == added = -1
  IN /\ past' = IF undone THEN Front(past)
                ELSE IF redone THEN Append(past, b.text)
                ELSE IF added > 0
                THEN Append(past, b.text) \o TextsUpTo(DoUndo(c), added - 1)
                ELSE past
     /\ future' = IF ToRedo(c) = 0 THEN <<>>
                  ELSE IF undone THEN <<b.text>> \o future
                  ELSE IF redone THEN Tail(future)
                  ELSE future
     /\ stored' = IF key.f = "do_savefile" \/ (key.f = "do_linter" /\ key.on /\ openfile.mod)
                 THEN c.text ELSE stored

HistoryNext ==
  \/ \E key \in session.keys : TypeText(key) /\ Recording(key)
  \/ \E key \in session.keys : MoveCursor(key) /\ Recording(key)
  \/ \E key \in session.keys : SearchText(key) /\ Recording(key)
  \/ \E key \in session.keys : ToggleMark(key) /\ Recording(key)
  \/ \E key \in session.keys : DeleteText(key) /\ Recording(key)
  \/ \E key \in session.keys : CutOrPaste(key) /\ Recording(key)
  \/ \E key \in session.keys : ReshapeLines(key) /\ Recording(key)
  \/ \E key \in session.keys : ReplaceText(key) /\ Recording(key)
  \/ \E key \in session.keys : CallTool(key) /\ Recording(key)
  \/ \E key \in session.keys : UndoRedoSave(key) /\ Recording(key)
  \/ \E key \in session.keys : ToggleOption(key) /\ Recording(key)

HistorySpec == HistoryInit /\ [][HistoryNext]_historyVars

(***************************************************************************)
(* Properties.                                                             *)
(***************************************************************************)
Keys(functions) == {key \in session.keys : key.f \in functions}

(* Undo and Redo take the buffer through exactly the texts it has had,     *)
(* whatever commands, merged or grouped in whatever way, made them         *)
(* (do_undo() and do_redo() on what add_undo() and update_undo() stored).  *)
Abstract == INSTANCE UndoList WITH doc <- openfile.text
ImplementsUndoList == Abstract!Spec

(* The number of characters that every command keeps up to date, and that  *)
(* undo and redo take from the items, is the number there are (totsize).   *)
(* A replacement is noted before it is made and its newsize not updated:   *)
(* redoing one makes the number wrong.                                     *)
SizeCounted ==
  openfile.size = NumberOfCharacters(openfile.text)
    \/ \E i \in DOMAIN openfile.undo : openfile.undo[i].type = "REPLACE"

(* The size that an item holds for redoing is the file size after the      *)
(* action, as definitions.h says of newsize.                               *)
SizeAfterAction ==
  openfile.last = "REPLACE" => CurrentUndo(openfile).new = openfile.size

(* Cursor, mark and spillage line are places in the text after any         *)
(* command, and the last line is the magic one (current_x and mark_x are   *)
(* used as indices unchecked).                                             *)
PlaceOf(p, text) == p[1] \in 1 .. Len(text) /\ p[2] \in 0 .. Len(text[p[1]])
PlacesInText ==
  /\ PlaceOf(Here(openfile), openfile.text)
  /\ openfile.mark # NoMark => PlaceOf(openfile.mark, openfile.text)
  /\ openfile.spill \in 0 .. Bottom(openfile)
  /\ IsSet(openfile, "NO_NEWLINES") \/ Last(openfile.text) = <<>>

(* A buffer that does not count as modified holds what was last read or    *)
(* saved (the comparison with last_saved in do_undo() and do_redo()).      *)
UnmodifiedMeansStored == ~openfile.mod => openfile.text = stored

(* No command dies on an undo item of another type, or follows a pointer   *)
(* into a cutbuffer that is gone (update_undo(), copy_text()).             *)
NeverFaults == ~openfile.fault

(* Only the commands for cutting and copying change the cutbuffer, though  *)
(* zapping, chopping, filtering, justifying, undoing and redoing all work  *)
(* by way of it (was_cutbuffer in text.c and cut.c).                       *)
OnlyCutsFillTheClip ==
  [][openfile'.clip # openfile.clip
       => \E key \in Keys({"cut_text", "copy_text", "cut_till_eof"}) : CutOrPaste(key)]_vars

(* Up and Down move by exactly one row of the screen, whatever tabs and    *)
(* row breaks there are around the wanted column (do_up() and do_down()).  *)
SumOfEdges(b, n) == FoldLeft(LAMBDA rows, y : rows + Len(Edges(b, y)), 0, LinesFrom(1, n))
Row(b) == SumOfEdges(b, b.y - 1) + ChunkFor(b, XPlusTabs(b), b.y)
OneRowAtATime ==
  [][\A key \in Keys({"do_up", "do_down"}) :
       LET to == Row(openfile) + IF key.f = "do_up" THEN -1 ELSE 1
           rows == 0 .. SumOfEdges(openfile, Bottom(openfile)) - 1
       IN Row(openfile') # (IF to \in rows THEN to ELSE Row(openfile))
            => ~MoveCursor(key)]_vars

(* Justifying changes nothing but blanks, quoting and line breaks          *)
(* (justify_paragraph() and the marked case of justify_text()).            *)
Essence(text) == SelectSeq(FlattenSeq(text), LAMBDA c : c \notin Blanks \cup Quoters)
JustifyKeepsText ==
  [][Essence(openfile'.text) # Essence(openfile.text)
       => ~ \E key \in Keys({"do_justify", "do_full_justify"}) : ReshapeLines(key)]_vars

(* Replacing in a marked region leaves the text on both sides alone, and   *)
(* mark and cursor frame the region as before (the adjustments to mark_x   *)
(* and real_current_x in do_replace_loop()).                               *)
Sides(b) == <<Segment(b.text, <<1, 0>>, Region(b)[1]),
              Segment(b.text, Region(b)[2], EndOfText(b))>>
ReplaceKeepsFrame ==
  [][\A key \in Keys(Replacements) :
       openfile.mark # NoMark /\ ReplaceText(key) => Sides(openfile') = Sides(openfile)]_vars
=============================================================================
