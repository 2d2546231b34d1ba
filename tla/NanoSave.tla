------------------------------ MODULE NanoSave ------------------------------
(***************************************************************************)
(* The disk that several editors and other programs share, and how an      *)
(* editor writes a buffer to it: the questions of write_it_out(), the      *)
(* backup, the steps of write_file() and what it notes afterwards.         *)
(*                                                                         *)
(* A text is a sequence of pieces, which are numbers: the piece 1 is what  *)
(* files start with, and whatever is typed or written by others is a new   *)
(* piece.  The piece 0 stands for data that was only partly written.  A    *)
(* marked region is the last piece of its buffer.                          *)
(***************************************************************************)
EXTENDS Naturals, Sequences, SequencesExt

CONSTANTS Editors,     \* the running editors
          Names,       \* the names of files
          NoName,      \* the name of a new buffer, and of no lock file
          Nobody,      \* the writer of a lock file that is not there
          Garbled,     \* the writer of a lock file that is not readable
          MaxHistory,  \* MAX_SEARCH_HISTORY
          Scenarios    \* what the runs start with, and what may happen

ASSUME DistinctConstants ==
  /\ Editors \cap Names = {} /\ NoName \notin Names /\ {Nobody, Garbled} \cap Editors = {}
  /\ MaxHistory \in Nat \ {0}

ASSUME ScenariosAssumption ==
  \A s \in Scenarios :
    /\ s.methods \subseteq {"OVERWRITE", "APPEND", "PREPEND"} /\ s.marks \subseteq BOOLEAN
    /\ s.files \cup s.another \subseteq Names /\ s.args \in [Editors -> Seq(Names)]

VARIABLES file, backup, home, rescue,   \* the files, by name
          lock,                         \* the lock files
          poslog, searchlog,            \* the histories of positions and of searches
          now,                          \* the clock, in seconds
          editor, scenario, spent       \* spent counts pieces, saves and searches

stored == <<backup, home, rescue, searchlog>>
world == <<lock, poslog, now, scenario>>

May(event) == event \in scenario.events
Option(option) == option \in scenario.opts

(***************************************************************************)
(* Files.  What is under a name is the same file as long as its id is the  *)
(* same, 0 when it is absent; an inode is a name and an id.  "synced" is   *)
(* what has reached the disk itself.                                       *)
(***************************************************************************)
Torn == <<0>>
NoStat == [of |-> NoName, mtime |-> 0, id |-> 0]
Absent == [text |-> <<>>, synced |-> <<>>, mtime |-> 0, id |-> 0]
NoCopy == [text |-> <<>>, synced |-> <<>>, by |-> Nobody]

Exists(n) == file[n].id # 0
StatIn(files, n) == [of |-> n, mtime |-> files[n].mtime, id |-> files[n].id]
Seen(n) == [text |-> file[n].text, stat |-> StatIn(file, n)]

(* Writing from the start leaves what was there beyond the new text.       *)
Overlaid(old, new) == new \o SubSeq(old, Len(new) + 1, Len(old))

(***************************************************************************)
(* Buffers are kept in the order of the ring, the current one first.  The  *)
(* fields below only serve the properties: the text last read or written,  *)
(* the one read from or written to the file of that name, whether the stat *)
(* information is of a later text than this, whether the file had been     *)
(* written in the second of that stat, and whether the user agreed to drop *)
(* the buffer.                                                             *)
(***************************************************************************)
NewBuffer ==
  [name |-> NoName, text |-> <<>>, mod |-> FALSE, stat |-> NoStat, lock |-> NoName,
   base |-> <<>>, origin |-> <<>>, late |-> FALSE, hasty |-> FALSE, told |-> FALSE]

(* A save: the arguments and local variables of write_it_out() and         *)
(* write_file(); asked, seen (what was there at the check), backed and old *)
(* only serve the properties.                                              *)
NoSave ==
  [name |-> NoName, method |-> "OVERWRITE", exiting |-> FALSE, prompt |-> FALSE,
   mark |-> FALSE, annotate |-> TRUE, temp |-> <<>>,
   asked |-> FALSE, seen |-> [text |-> <<>>, stat |-> NoStat], backed |-> FALSE, old |-> <<>>]

Cur(p) == Head(editor[p].ring)
Save(p) == editor[p].save
Target(p) == Save(p).name
At(p, pc) == editor[p].pc = pc
WithCur(e, b) == [e EXCEPT !.ring = <<b>> \o Tail(e.ring)]
Goto(p, pc) == editor' = [editor EXCEPT ![p].pc = pc]

(* write_region_to_file() is used, not write_file() for the whole buffer.  *)
Region(s) == s.mark /\ s.prompt /\ ~s.exiting /\ s.annotate
Content(p) == IF Region(Save(p)) THEN <<Last(Cur(p).text)>> ELSE Cur(p).text

(* What a write_lockfile() may leave behind.                               *)
LockOutcomes(p, modified) ==
  {[by |-> p, mod |-> modified]}
    \cup (IF May("full") THEN {[by |-> Garbled, mod |-> FALSE]} ELSE {})
NoLock == [by |-> Nobody, mod |-> FALSE]
WithoutLock(n) == IF n = NoName THEN lock ELSE [lock EXCEPT ![n] = NoLock]

(***************************************************************************)
(* write_it_out()                                                          *)
(***************************************************************************)
StartSave(p, exiting, prompt, mark) ==
  /\ spent.saves < scenario.saves
  /\ spent' = [spent EXCEPT !.saves = @ + 1]
  /\ editor' = [editor EXCEPT ![p].pc = "prompt", ![p].save =
                  [NoSave EXCEPT !.exiting = exiting, !.prompt = prompt, !.mark = mark]]

Dropped(p) == editor' = [editor EXCEPT ![p].pc = "closing", ![p].ring[1].told = TRUE]

(* The name and the method, asked for or not; or Cancel; or Discard.       *)
Prompt(p) ==
  LET fixed == /\ Cur(p).name # NoName
               /\ ~Save(p).prompt \/ (Option("SAVE_ON_EXIT") /\ Save(p).exiting)
      Chosen(n, method) ==
        editor' = [editor EXCEPT ![p].save.name = n, ![p].save.method = method,
                                 ![p].pc = IF method = "OVERWRITE" THEN "check" ELSE "stat"]
  IN /\ At(p, "prompt")
     /\ \/ fixed /\ Chosen(Cur(p).name, "OVERWRITE")
        \/ ~fixed /\ \E n \in Names, method \in scenario.methods : Chosen(n, method)
        \/ ~fixed /\ Goto(p, "idle")
        \/ ~fixed /\ Dropped(p)
     /\ UNCHANGED <<file, stored, world, spent>>

(* Whether the name is another one, or the file was changed by others.     *)
Other(p) == IF Cur(p).name = NoName THEN Exists(Target(p)) ELSE Target(p) # Cur(p).name

(* (First a variant that compares the times only.)                         *)
DiffersInTime(stat, n) == stat.mtime < file[n].mtime

Differs(stat, n) ==
  stat.mtime < file[n].mtime \/ <<stat.of, stat.id>> # <<n, file[n].id>>

Changed(p) ==
  /\ ~Other(p) /\ Exists(Target(p)) /\ Cur(p).stat # NoStat
  /\ Differs(Cur(p).stat, Target(p))

Check(p) ==
  LET s == Save(p)
      renaming == Other(p) /\ Cur(p).name # NoName /\ (s.exiting \/ ~s.mark)
      Onto(pc) == editor' = [editor EXCEPT ![p].pc = pc, ![p].save.asked = FALSE,
                                           ![p].save.seen = Seen(s.name)]
  IN /\ At(p, "check")
     /\ \/ renaming /\ Goto(p, "prompt")
        \/ Other(p) /\ Onto(IF Exists(s.name) THEN "overwrite?" ELSE "stat")
        \/ Changed(p) /\ Onto("continue?")
        \/ ~Other(p) /\ ~Changed(p) /\ Onto("stat")
     /\ UNCHANGED <<file, stored, world, spent>>

(* The answers to "File exists; OVERWRITE?" and to "File was modified      *)
(* since you opened it; continue saving?", and what the latter mean when   *)
(* saving on exit is on and a name could be given.                         *)
AnswerOverwrite(p) ==
  /\ At(p, "overwrite?")
  /\ \/ editor' = [editor EXCEPT ![p].pc = "stat", ![p].save.asked = TRUE]
     \/ Goto(p, "prompt")
  /\ UNCHANGED <<file, stored, world, spent>>

AnswerContinue(p) ==
  LET exiting == Save(p).exiting
      tool == Option("SAVE_ON_EXIT") /\ Save(p).prompt
  IN /\ At(p, "continue?")
     /\ \/ editor' = [editor EXCEPT ![p].pc = "stat", ![p].save.asked = TRUE,
                                    ![p].save.annotate = ~tool]
        \/ (tool \/ exiting) /\ Dropped(p)                             \* No
        \/ ~tool /\ ~exiting /\ Goto(p, "idle")                        \* No
        \/ Goto(p, IF ~tool /\ exiting THEN "prompt" ELSE "idle")      \* Cancel
     /\ UNCHANGED <<file, stored, world, spent>>

(***************************************************************************)
(* write_file()                                                            *)
(***************************************************************************)
(* The buffer b with the stat information of what is now under the name.   *)
Restatted(b, files, n) ==
  [b EXCEPT !.stat = StatIn(files, n), !.late = files[n].text # b.origin,
            !.hasty = files[n].mtime = now]

(* Saving failed; when the disk is full the stat information is refreshed, *)
(* from the files as they are after the step.  The buffer stays open.      *)
(* First a variant that takes a failed save for a good one.                *)
AfterFailingAnyhow(save) == IF save.exiting THEN "closing" ELSE "idle"

AfterFailing(save) == "idle"

Failed(p, full, files) ==
  editor' = [editor EXCEPT ![p] =
    WithCur([editor[p] EXCEPT !.pc = AfterFailing(Save(p))],
            IF full THEN Restatted(Cur(p), files, Target(p)) ELSE Cur(p))]

Onward(p) == IF Save(p).method = "PREPEND" THEN "prepend" ELSE "open file"

(* A backup is made when the file is still the one that was read, or when  *)
(* it is not overwritten or there is a mark.                               *)
StatTarget(p) ==
  LET n == Target(p)
      b == IF Cur(p).stat = NoStat /\ Exists(n) THEN Restatted(Cur(p), file, n) ELSE Cur(p)
      backs == /\ Option("MAKE_BACKUP") /\ Exists(n)
               /\ b.stat.mtime = file[n].mtime \/ Save(p).method # "OVERWRITE" \/ Save(p).mark
  IN /\ At(p, "stat")
     /\ editor' = [editor EXCEPT ![p] =
          WithCur([editor[p] EXCEPT !.pc = IF backs THEN "backup" ELSE Onward(p)], b)]
     /\ UNCHANGED <<file, stored, world, spent>>

(* make_backup_of(): the existing backup goes, a new one is created, ...   *)
CreateBackup(p) ==
  /\ At(p, "backup")
  /\ backup' = [backup EXCEPT ![Target(p)] = [NoCopy EXCEPT !.by = p]]
  /\ Goto(p, "copy")
  /\ UNCHANGED <<file, home, rescue, searchlog, world, spent>>

(* ... and is written and synced.  First a variant that does not sync it.  *)
CopiedUnsynced(p, n) == [text |-> file[n].text, synced |-> <<>>, by |-> p]

Copied(p, n) == [text |-> file[n].text, synced |-> file[n].text, by |-> p]

(* (To nowhere when another editor has made its own backup meanwhile.)     *)
CopyToBackup(p) ==
  LET n == Target(p)
      mine == backup[n].by = p
  IN /\ At(p, "copy")
     /\ backup' = IF mine THEN [backup EXCEPT ![n] = Copied(p, n)] ELSE backup
     /\ editor' = [editor EXCEPT ![p].pc = Onward(p), ![p].save.backed = mine,
                                 ![p].save.old = file[n].text]
     /\ UNCHANGED <<file, home, rescue, searchlog, world, spent>>

(* When that fails the backup goes to the home directory; and when that    *)
(* fails too, the user may save without it, except when the disk is full.  *)
FailToBackup(p) ==
  LET n == Target(p)
  IN /\ At(p, "copy") /\ (May("full") \/ May("no backup"))
     /\ backup' = [backup EXCEPT ![n] = NoCopy]
     /\ UNCHANGED <<file, rescue, searchlog, world, spent>>
     /\ \/ home' = [home EXCEPT ![n] = @ \cup {file[n].text}] /\ Goto(p, Onward(p))
        \/ May("no backup") /\ UNCHANGED home /\ Goto(p, Onward(p))
        \/ May("no backup") /\ UNCHANGED home /\ Failed(p, FALSE, file)
        \/ May("full") /\ UNCHANGED home /\ Failed(p, TRUE, file)

(* Prepending: the file is first copied to a temporary file.               *)
CopyToTemp(p) ==
  LET n == Target(p)
  IN /\ At(p, "prepend")
     /\ \/ /\ Exists(n)
           /\ editor' = [editor EXCEPT ![p].save.temp = file[n].text, ![p].pc = "open file"]
        \/ ~Exists(n) /\ Failed(p, FALSE, file)
        \/ Exists(n) /\ May("full") /\ Failed(p, TRUE, file)
     /\ UNCHANGED <<file, stored, world, spent>>

(* The file is opened, and emptied unless the data is to be appended.      *)
OpenFile(p) ==
  LET n == Target(p)
      appending == Save(p).method = "APPEND"
      opened == [text |-> IF appending THEN file[n].text ELSE <<>>, synced |-> file[n].synced,
                 mtime |-> IF appending /\ Exists(n) THEN file[n].mtime ELSE now,
                 id |-> IF Exists(n) THEN file[n].id ELSE spent.pieces]
  IN /\ At(p, "open file")
     /\ \/ file' = [file EXCEPT ![n] = opened] /\ Goto(p, "write")
        \/ May("unwritable") /\ UNCHANGED file /\ Failed(p, FALSE, file)
     /\ UNCHANGED <<stored, world, spent>>

(* What the file holds when data has been written to it.                   *)
Written(p, data) ==
  LET old == file[Target(p)].text
  IN [file EXCEPT ![Target(p)].text = IF Save(p).method = "APPEND" THEN old \o data
                                      ELSE Overlaid(old, data),
                  ![Target(p)].mtime = now]

(* All the data, or part of it and a failure.                              *)
WriteText(p) ==
  /\ At(p, "write")
  /\ \/ file' = Written(p, Content(p) \o Save(p).temp) /\ Goto(p, "sync")
     \/ May("full") /\ file' = Written(p, Torn) /\ Failed(p, TRUE, Written(p, Torn))
  /\ UNCHANGED <<stored, world, spent>>

SyncFile(p) ==
  /\ At(p, "sync")
  /\ file' = [file EXCEPT ![Target(p)].synced = file[Target(p)].text]
  /\ Goto(p, "note")
  /\ UNCHANGED <<stored, world, spent>>

(* What is noted when a whole buffer overwrote a file: the name, with its  *)
(* lock file, and the stat information.                                    *)
Noted(p, lockname) ==
  Restatted([Cur(p) EXCEPT !.name = Target(p), !.lock = lockname, !.mod = FALSE,
                           !.base = Content(p), !.origin = Content(p)], file, Target(p))

FinishSave(p) ==
  LET s == Save(p)
      b == Cur(p)
      noting == s.annotate /\ ~Region(s) /\ s.method = "OVERWRITE"
      Done(c) == editor' = [editor EXCEPT ![p] =
        WithCur([editor[p] EXCEPT !.pc = IF s.exiting THEN "closing" ELSE "idle",
                                  !.save.backed = FALSE], c)]
  IN /\ At(p, "note")
     /\ \/ /\ ~noting
           /\ Done([b EXCEPT !.base = IF Region(s) THEN @ ELSE b.text]) /\ UNCHANGED lock
        \/ noting /\ s.name = b.name /\ Done(Noted(p, b.lock)) /\ UNCHANGED lock
        \/ /\ noting /\ s.name # b.name /\ ~Option("LOCKING")
           /\ Done(Noted(p, NoName)) /\ lock' = WithoutLock(b.lock)
        \/ /\ noting /\ s.name # b.name /\ Option("LOCKING")
           /\ \E l \in LockOutcomes(p, FALSE) :
                /\ lock' = [WithoutLock(b.lock) EXCEPT ![s.name] = l]
                /\ Done(Noted(p, IF l.by = p THEN s.name ELSE NoName))
     /\ UNCHANGED <<file, stored, poslog, now, scenario, spent>>

SaveStep(p) ==
  \/ Prompt(p) \/ Check(p) \/ AnswerOverwrite(p) \/ AnswerContinue(p) \/ StatTarget(p)
  \/ CreateBackup(p) \/ CopyToBackup(p) \/ FailToBackup(p) \/ CopyToTemp(p)
  \/ OpenFile(p) \/ WriteText(p) \/ SyncFile(p) \/ FinishSave(p)
=============================================================================
