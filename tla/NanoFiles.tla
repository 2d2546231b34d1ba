------------------------------ MODULE NanoFiles ------------------------------
(***************************************************************************)
(* Several editors on one disk: starting with files as arguments, opening, *)
(* typing, switching, saving and closing buffers, with their lock files,   *)
(* the histories that the editors share, signals that end an editor, other *)
(* programs that write files, and a loss of power.                         *)
(***************************************************************************)
EXTENDS NanoSave

VARIABLE disturbed    \* whether two updates of the history of positions overlapped

vars == <<file, backup, home, rescue, lock, poslog, searchlog, now, editor, scenario, spent, disturbed>>

Ended == {"off", "gone", "quit", "dead", "cut", "killed"}
Alive(p) == editor[p].pc \notin Ended

Init ==
  /\ scenario \in Scenarios
  /\ file = [n \in Names |->
       IF n \in scenario.files THEN [text |-> <<1>>, synced |-> <<1>>, mtime |-> 1, id |-> 1]
       ELSE Absent]
  /\ backup = [n \in Names |-> NoCopy]
  /\ home = [n \in Names |-> {}]
  /\ rescue = [k \in Names \cup Editors |-> <<>>]
  /\ lock = [n \in Names |-> NoLock]
  /\ poslog = [names |-> <<>>, mtime |-> 0]
  /\ searchlog = <<>>
  /\ now = 1
  /\ editor = [p \in Editors |->
       [pc |-> "off", ring |-> <<>>, args |-> scenario.args[p], up |-> FALSE, save |-> NoSave,
        log |-> <<>>, stamp |-> 0, searches |-> <<>>, searched |-> FALSE, todo |-> 0, slot |-> 0, owed |-> {}, missed |-> FALSE]]
  /\ spent = [pieces |-> 1, saves |-> 0, searches |-> 0]
  /\ disturbed = FALSE

(***************************************************************************)
(* The history of positions: the names of the files closed last.  It is    *)
(* read again when its time stamp is not the one noted; first a variant    *)
(* that never does that.                                                   *)
(***************************************************************************)
LoadPosHistory(e) == [e EXCEPT !.log = poslog.names, !.stamp = poslog.mtime]
LoadHistory(e) == [e EXCEPT !.searches = searchlog]

NotReloaded(e) == e

Reloaded(e) == IF poslog.mtime \in {0, e.stamp} THEN e ELSE LoadPosHistory(e)

UpdatePosHistory(e, n) ==
  LET known == Reloaded(e)
  IN [known EXCEPT !.log = <<n>> \o RemoveFirst(@, n)]

(* The history is being written, or was written within the noted second.   *)
Overlaps(p) ==
  \/ \E q \in Editors : At(q, "write log")
  \/ poslog.mtime = editor[p].stamp /\ poslog.names # editor[p].log

Start(p) ==
  /\ At(p, "off") /\ editor[p].args # <<>>
  /\ editor' = [editor EXCEPT ![p] = LoadHistory(LoadPosHistory([@ EXCEPT !.pc = "open"]))]
  /\ disturbed' = (disturbed \/ \E q \in Editors : At(q, "write log"))
  /\ UNCHANGED <<file, stored, world, spent>>

(***************************************************************************)
(* open_buffer() and do_lockfile() for the next file.                      *)
(***************************************************************************)
Fresh(e) == <<NewBuffer>> \o (IF e.ring = <<>> THEN <<>> ELSE Tail(e.ring) \o <<Head(e.ring)>>)

OpenNext(p) ==
  LET e == editor[p]
      n == Head(e.args)
      Opened(pc) == editor' = [editor EXCEPT ![p].pc = pc, ![p].ring = Fresh(e)]
      Skipped == editor' = [editor EXCEPT ![p].args = Tail(@)]
  IN /\ At(p, "open") /\ e.args # <<>>
     /\ \/ ~Option("LOCKING") /\ Opened("read")
        \/ Option("LOCKING") /\ lock[n].by = Nobody /\ Opened("lock")
        \/ Option("LOCKING") /\ lock[n].by = Garbled /\ Opened("read")
        \/ /\ Option("LOCKING") /\ lock[n].by \in Editors       \* "open anyway?"
           /\ \/ Opened("lock")
              \/ Skipped
              \/ ~e.up /\ Goto(p, "quit")                       \* finish()
     /\ UNCHANGED <<file, stored, world, spent, disturbed>>

MakeLock(p) ==
  LET n == Head(editor[p].args)
  IN /\ At(p, "lock")
     /\ \E l \in LockOutcomes(p, FALSE) :
          /\ lock' = [lock EXCEPT ![n] = l]
          /\ editor' = [editor EXCEPT ![p].pc = "read",
                                      ![p].ring[1].lock = IF l.by = p THEN n ELSE NoName]
     /\ UNCHANGED <<file, stored, poslog, now, scenario, spent, disturbed>>

(* The file is read (a new file has nothing to read) ...                   *)
Read(p) ==
  LET n == Head(editor[p].args)
  IN /\ At(p, "read")
     /\ editor' = [editor EXCEPT
          ![p] = WithCur([editor[p] EXCEPT !.pc = IF Exists(n) THEN "stat file" ELSE "opened"],
                   [Cur(p) EXCEPT !.name = n, !.text = file[n].text,
                                  !.base = file[n].text, !.origin = file[n].text])]
     /\ UNCHANGED <<file, stored, world, spent, disturbed>>

(* ... and statted afterwards.                                             *)
StatFile(p) ==
  /\ At(p, "stat file")
  /\ editor' = [editor EXCEPT
       ![p] = WithCur([editor[p] EXCEPT !.pc = "opened"], Restatted(Cur(p), file, Cur(p).name))]
  /\ UNCHANGED <<file, stored, world, spent, disturbed>>

(* The old position in it is looked up.                                    *)
RestorePosition(p) ==
  LET next == [editor[p] EXCEPT !.pc = "open", !.args = Tail(@)]
  IN /\ At(p, "opened")
     /\ editor' = [editor EXCEPT ![p] = IF Option("POSITIONLOG") THEN Reloaded(next) ELSE next]
     /\ disturbed' = (disturbed \/ (Option("POSITIONLOG") /\ Overlaps(p)))
     /\ UNCHANGED <<file, stored, world, spent>>

(* All files are open: the editor goes to the first, or has a new buffer.  *)
Ready(p) ==
  LET ring == editor[p].ring
  IN /\ At(p, "open") /\ editor[p].args = <<>>
     /\ editor' = [editor EXCEPT ![p].pc = "idle", ![p].up = TRUE,
          ![p].ring = IF ring = <<>> THEN <<NewBuffer>>
                      ELSE IF editor[p].up THEN ring ELSE Tail(ring) \o <<Head(ring)>>]
     /\ UNCHANGED <<file, stored, world, spent, disturbed>>

(***************************************************************************)
(* At the keyboard.                                                        *)
(***************************************************************************)
OpenAnother(p) ==
  /\ At(p, "idle")
  /\ \E n \in scenario.another : editor' = [editor EXCEPT ![p].pc = "open", ![p].args = <<n>>]
  /\ \A b \in ToSet(editor[p].ring) : b.name \notin scenario.another
  /\ UNCHANGED <<file, stored, world, spent, disturbed>>

(* The first change since the last save is noted in the lock file.         *)
Type(p) ==
  LET b == Cur(p)
      n == b.lock
  IN /\ At(p, "idle") /\ spent.pieces < scenario.pieces
     /\ spent' = [spent EXCEPT !.pieces = @ + 1]
     /\ editor' = [editor EXCEPT ![p] = WithCur(editor[p],
                     [b EXCEPT !.text = Append(@, spent.pieces + 1), !.mod = TRUE])]
     /\ \/ (b.mod \/ n = NoName) /\ UNCHANGED lock
        \/ ~b.mod /\ n # NoName /\ \E l \in LockOutcomes(p, TRUE) : lock' = [lock EXCEPT ![n] = l]
     /\ UNCHANGED <<file, stored, poslog, now, scenario, disturbed>>

Rotated(ring) == Tail(ring) \o <<Head(ring)>>

Switch(p) ==
  LET ring == editor[p].ring
  IN /\ At(p, "idle") /\ Len(ring) > 1
     /\ editor' \in {[editor EXCEPT ![p].ring = Rotated(ring)],                      \* next
                     [editor EXCEPT ![p].ring = <<Last(ring)>> \o Front(ring)]}      \* previous
     /\ UNCHANGED <<file, stored, world, spent, disturbed>>

(* A search: its string becomes the newest of the history, in place of the *)
(* same string found from the newest on, and the history keeps the newest  *)
(* ones only.                                                              *)
Updated(history, string) ==
  LET found == SelectLastInSeq(history, LAMBDA s : s = string)
      others == IF found = 0 THEN history ELSE RemoveAt(history, found)
      n == Len(others)
  IN SubSeq(others, IF n < MaxHistory THEN 1 ELSE 2, n) \o <<string>>

Search(p) ==
  /\ At(p, "idle") /\ spent.searches < scenario.searches
  /\ spent' = [spent EXCEPT !.searches = @ + 1]
  /\ \E s \in scenario.strings :
       editor' = [editor EXCEPT ![p].searches = Updated(@, s), ![p].searched = TRUE]
  /\ UNCHANGED <<file, stored, world, disturbed>>

Marks(p) == IF Cur(p).text # <<>> THEN scenario.marks ELSE {FALSE}

DoWriteout(p) ==
  /\ At(p, "idle") /\ \E mark \in Marks(p) : StartSave(p, FALSE, TRUE, mark)
  /\ UNCHANGED <<file, stored, world, disturbed>>

DoSavefile(p) ==
  /\ At(p, "idle") /\ StartSave(p, FALSE, FALSE, FALSE)
  /\ UNCHANGED <<file, stored, world, disturbed>>

DoExit(p) ==
  LET asks == ~(Option("SAVE_ON_EXIT") /\ Cur(p).name # NoName)
  IN /\ At(p, "idle")
     /\ \/ ~Cur(p).mod /\ Goto(p, "closing") /\ UNCHANGED spent
        \/ Cur(p).mod /\ asks /\ Dropped(p) /\ UNCHANGED spent                         \* No
        \/ Cur(p).mod /\ \E mark \in Marks(p) : StartSave(p, TRUE, TRUE, mark)         \* Yes
     /\ UNCHANGED <<file, stored, world, disturbed>>

(***************************************************************************)
(* close_and_go() and update_poshistory().                                 *)
(***************************************************************************)
WithoutFirst(e) ==
  IF Len(e.ring) = 1 THEN [e EXCEPT !.pc = "finish"]
  ELSE [e EXCEPT !.ring = Tail(@), !.pc = "idle"]

(* (First a variant that keeps the lock file of the buffer.)               *)
LeftLocked(b) == lock

Unlocked(b) == WithoutLock(b.lock)

Close(p) ==
  LET n == Cur(p).name
      logging == Option("POSITIONLOG") /\ n # NoName
  IN /\ At(p, "closing")
     /\ lock' = Unlocked(Cur(p))
     /\ \/ ~logging /\ editor' = [editor EXCEPT ![p] = WithoutFirst(@)]
        \/ logging /\ editor' = [editor EXCEPT ![p] =
                       UpdatePosHistory([@ EXCEPT !.pc = "open log"], n)]
     /\ disturbed' = (disturbed \/ (logging /\ (Overlaps(p) \/ \E q \in Editors : At(q, "open log"))))
     /\ UNCHANGED <<file, stored, poslog, now, scenario, spent>>

OpenLog(p) ==
  /\ At(p, "open log")
  /\ poslog' = [names |-> <<>>, mtime |-> now]
  /\ Goto(p, "write log")
  /\ UNCHANGED <<file, stored, lock, now, scenario, spent, disturbed>>

WriteLog(p) ==
  /\ At(p, "write log")
  /\ poslog' = [names |-> Overlaid(poslog.names, editor[p].log), mtime |-> now]
  /\ editor' = [editor EXCEPT ![p] = WithoutFirst([editor[p] EXCEPT !.stamp = now])]
  /\ UNCHANGED <<file, stored, lock, now, scenario, spent, disturbed>>

(* After the last buffer: save_history(), when there was a search, and     *)
(* finish().                                                               *)
Finish(p) ==
  /\ At(p, "finish")
  /\ searchlog' = IF Option("HISTORYLOG") /\ editor[p].searched THEN editor[p].searches
                  ELSE searchlog
  /\ editor' = [editor EXCEPT ![p].pc = "gone", ![p].ring = <<>>]
  /\ UNCHANGED <<file, backup, home, rescue, world, spent, disturbed>>

(***************************************************************************)
(* The end of an editor.  A file being written is left as it is, or with   *)
(* part of the data.                                                       *)
(***************************************************************************)
LeftAsItIs(p) == file' \in ({file} \cup (IF At(p, "write") THEN {Written(p, Torn)} ELSE {}))

(* A hangup or termination: die().  A region that is being written stands  *)
(* in for the buffer.                                                      *)
Hangup(p) ==
  LET e == editor[p]
      writing == e.pc \in {"stat", "backup", "copy", "prepend", "open file", "write", "sync", "note"}
      cut == writing /\ Region(e.save)
      modified == {b \in ToSet(e.ring) : b.mod}
      Key(b) == IF b.name = NoName THEN p ELSE b.name
  IN /\ May("hangup") /\ Alive(p) /\ e.pc \notin {"dying", "rescue"}
     /\ editor' = [editor EXCEPT ![p].pc = "dying", ![p].todo = Len(e.ring), ![p].missed = cut,
                     ![p].ring = IF cut THEN <<[Cur(p) EXCEPT !.text = Content(p)]>> \o Tail(@) ELSE @,
                     ![p].owed = {[key |-> Key(b), text |-> b.text] : b \in modified}]
     /\ LeftAsItIs(p)
     /\ disturbed' = (disturbed \/ e.pc = "write log")
     /\ UNCHANGED <<stored, world, spent>>

(* One buffer after the other: its lock file goes, and when it is modified *)
(* the first name for it that is free is looked for, ...                   *)
Done(e) == [e EXCEPT !.pc = "dying", !.ring = Rotated(@), !.todo = @ - 1]

RescueKey(p) == IF Cur(p).name = NoName THEN p ELSE Cur(p).name

(* (First a variant that leaves out what has a lock file.)                 *)
NeedsRescueIfUnlocked(b) == b.mod /\ b.lock = NoName

NeedsRescue(b) == b.mod

DieOn(p) ==
  /\ At(p, "dying") /\ editor[p].todo > 0
  /\ lock' = WithoutLock(Cur(p).lock)
  /\ editor' = [editor EXCEPT ![p] =
       IF NeedsRescue(Cur(p)) THEN [@ EXCEPT !.pc = "rescue", !.slot = Len(rescue[RescueKey(p)]) + 1]
       ELSE Done(@)]
  /\ UNCHANGED <<file, stored, poslog, now, scenario, spent, disturbed>>

(* ... and created, unless it exists by now.  First a variant that creates *)
(* it without that condition.                                              *)
CreatedAnyhow(saved, slot, text) ==
  IF Len(saved) < slot THEN Append(saved, text) ELSE [saved EXCEPT ![slot] = text]

Created(saved, slot, text) == IF Len(saved) < slot THEN Append(saved, text) ELSE saved

Rescue(p) ==
  LET key == RescueKey(p)
      raced == Len(rescue[key]) >= editor[p].slot
      Saved(text, missed) ==
        /\ rescue' = [rescue EXCEPT ![key] = Created(@, editor[p].slot, text)]
        /\ editor' = [editor EXCEPT ![p] = [Done(editor[p]) EXCEPT !.missed = @ \/ missed]]
  IN /\ At(p, "rescue")
     /\ \/ Saved(Cur(p).text, raced)
        \/ May("full") /\ Saved(Torn, TRUE)
     /\ UNCHANGED <<file, backup, home, searchlog, world, spent, disturbed>>

Dead(p) ==
  /\ At(p, "dying") /\ editor[p].todo = 0 /\ Goto(p, "dead")
  /\ UNCHANGED <<file, stored, world, spent, disturbed>>

(* A second signal meanwhile, of the other kind: the editor gives up.      *)
GiveUp(p) ==
  /\ May("second signal") /\ editor[p].pc \in {"dying", "rescue"}
  /\ Goto(p, "cut")
  /\ UNCHANGED <<file, stored, world, spent, disturbed>>

Kill(p) ==
  /\ May("kill") /\ Alive(p)
  /\ Goto(p, "killed")
  /\ LeftAsItIs(p)
  /\ disturbed' = (disturbed \/ At(p, "write log"))
  /\ UNCHANGED <<stored, world, spent>>

(***************************************************************************)
(* The world outside the editors.                                          *)
(***************************************************************************)
(* A loss of power: of what was not synced, nothing, all or part remains.  *)
Remains(f) ==
  IF f.text = f.synced THEN {f}
  ELSE {[f EXCEPT !.text = t, !.synced = t] : t \in {f.text, f.synced, Torn}}

AfterLoss(files) ==
  {f \in [Names -> UNION {Remains(files[n]) : n \in Names}] :
     \A n \in Names : f[n] \in Remains(files[n])}

PowerLoss ==
  /\ May("power") /\ \E p \in Editors : Alive(p)
  /\ file' \in AfterLoss(file) /\ backup' \in AfterLoss(backup)
  /\ editor' = [p \in Editors |-> IF Alive(p) THEN [editor[p] EXCEPT !.pc = "killed"] ELSE editor[p]]
  /\ disturbed' = TRUE
  /\ UNCHANGED <<home, rescue, searchlog, world, spent>>

(* Another program writes a file, in place or as a new one.                *)
ForeignWrite(n) ==
  LET piece == spent.pieces + 1
  IN /\ May("foreign") /\ spent.pieces < scenario.pieces
     /\ spent' = [spent EXCEPT !.pieces = piece]
     /\ \E id \in {file[n].id, piece} \ {0} :
          file' = [file EXCEPT ![n] = [text |-> <<piece>>, mtime |-> now, id |-> id,
                     synced |-> IF id = file[n].id THEN file[n].synced ELSE <<>>]]
     /\ UNCHANGED <<stored, world, editor, disturbed>>

Tick ==
  /\ now < scenario.ticks
  /\ now' = now + 1
  /\ UNCHANGED <<file, stored, lock, poslog, editor, scenario, spent, disturbed>>

Editing(p) ==
  \/ Start(p) \/ OpenNext(p) \/ MakeLock(p) \/ Read(p) \/ StatFile(p) \/ RestorePosition(p)
  \/ Ready(p) \/ OpenAnother(p) \/ Type(p) \/ Switch(p) \/ DoWriteout(p) \/ DoSavefile(p)
  \/ Search(p) \/ DoExit(p) \/ Close(p) \/ OpenLog(p) \/ WriteLog(p) \/ Finish(p)
  \/ SaveStep(p) /\ UNCHANGED disturbed

Ending(p) == Hangup(p) \/ DieOn(p) \/ Rescue(p) \/ Dead(p) \/ GiveUp(p) \/ Kill(p)

Next ==
  \/ \E p \in Editors : Editing(p) \/ Ending(p)
  \/ PowerLoss \/ Tick
  \/ \E n \in Names : ForeignWrite(n)

Spec == Init /\ [][Next]_vars

(***************************************************************************)
(* Properties.                                                             *)
(***************************************************************************)
(* A backup that was completed keeps what the file held until the save is  *)
(* finished: whatever ends the editor or the power, the old text is in the *)
(* file or the backup, unless another editor made a backup of its own      *)
(* (make_backup_of(), write_file()).                                       *)
OldTextSurvives ==
  \A p \in Editors :
    LET n == Target(p)
    IN Save(p).backed /\ backup[n].by = p => Save(p).old \in {file[n].text, backup[n].text}

(* Opening a file for writing destroys, without a question, only what the  *)
(* buffer was read from or last written as, or what was written after the  *)
(* check; except when the file was written between being read and being    *)
(* statted, or in the second of the stat, or when it did not exist when it *)
(* was opened (write_it_out(), open_buffer()).                             *)
OverwritesOnlyWhatWasRead ==
  [][\A p \in Editors :
       LET n == Target(p)
           b == Cur(p)
       IN /\ At(p, "open file") /\ editor'[p].pc = "write"
          /\ Save(p).method = "OVERWRITE" /\ ~Save(p).asked
          /\ n = b.name /\ Exists(n) /\ Seen(n) = Save(p).seen
          => \/ file[n].text = b.origin \/ b.late
             \/ b.hasty /\ StatIn(file, n) = b.stat]_vars

(* A buffer whose loss the user has not agreed to is closed only when its  *)
(* text was read from or written to a file (do_exit(), write_it_out()).    *)
ClosedMeansStored ==
  \A p \in Editors : At(p, "closing") /\ ~Cur(p).told => Cur(p).text = Cur(p).base

(* A readable lock file belongs to a buffer of the editor that wrote it,   *)
(* unless that editor was killed, gave up when dying, or quit at the       *)
(* question about another's lock (do_lockfile(), delete_lockfile()).       *)
LocksHaveOwners ==
  \A n \in Names : lock[n].by \in Editors =>
    LET e == editor[lock[n].by]
    IN \/ e.pc # "dead" /\ \E i \in DOMAIN e.ring : e.ring[i].lock = n
       \/ e.pc \in {"quit", "cut", "killed"}

(* An emergency file never replaces another one, whoever dies at the same  *)
(* time (emergency_save(), write_file()).                                  *)
EmergencyNeverClobbers ==
  [][\A k \in DOMAIN rescue : IsPrefix(rescue[k], rescue'[k])]_vars

(* A hangup leaves every modified buffer in an emergency file, unless the  *)
(* disk was full, the name was taken by another dying editor, or only a    *)
(* region was being written (die(), emergency_save()).                     *)
DeathRescues ==
  \A p \in Editors : At(p, "dead") /\ ~editor[p].missed =>
    \A o \in editor[p].owed : o.text \in ToSet(rescue[o.key])

(* The files that were closed stay in the history of positions, unless two *)
(* updates of it overlapped, or came within a second (update_poshistory(), *)
(* save_poshistory()).                                                     *)
PositionsKept ==
  \A p \in Editors : At(p, "open log") /\ ~disturbed =>
    ToSet(poslog.names) \subseteq ToSet(editor[p].log)

(* No string is twice in a history of searches, nor are there too many     *)
(* (update_history(), load_history(), save_history()).                     *)
SearchesDistinct ==
  \A history \in {editor[p].searches : p \in Editors} \cup {searchlog} :
    IsInjective(history) /\ Len(history) <= MaxHistory

(* What several editors write to the two history files in turn stays sound *)
(* and complete.                                                           *)
HistoriesKept == PositionsKept /\ SearchesDistinct
=============================================================================
