---------------------------- MODULE MCNanoFiles ----------------------------
(***************************************************************************)
(* Two editors and two files.  Each scenario turns on what it is about.    *)
(***************************************************************************)
EXTENDS NanoFiles

CONSTANTS ed1, ed2, fa, fb

Plain == [events |-> {}, opts |-> {}, methods |-> {"OVERWRITE"}, marks |-> {FALSE}, saves |-> 0,
          files |-> {fa}, args |-> [e \in {ed1, ed2} |-> <<>>], another |-> {}, pieces |-> 1, ticks |-> 1,
          strings |-> {}, searches |-> 0]

Alone(names) == [e \in {ed1, ed2} |-> IF e = ed1 THEN names ELSE <<>>]
Both(names, others) == [e \in {ed1, ed2} |-> IF e = ed1 THEN names ELSE others]

(* Crashes and failures while one editor saves twice, with backups.        *)
Crashing ==
  [Plain EXCEPT !.events = {"power", "kill", "full", "no backup", "unwritable"},
                !.opts = {"MAKE_BACKUP"}, !.saves = 2, !.args = Alone(<<fa>>), !.pieces = 2]

(* The ways to save: other names, appending, prepending, a region.         *)
Saving ==
  {[Plain EXCEPT !.events = {"hangup", "full"}, !.opts = o, !.methods = m, !.marks = BOOLEAN,
                 !.saves = 2, !.args = Alone(<<fa>>), !.pieces = 2] :
     o \in {{"LOCKING"}, {"SAVE_ON_EXIT"}}, m \in {{"OVERWRITE", "PREPEND"}, {"APPEND"}}}

(* Other programs write the file too, or create it, with two seconds.      *)
Sharing ==
  {[Plain EXCEPT !.events = {"foreign"}, !.opts = o, !.saves = 2, !.args = Alone(<<fa>>),
                 !.files = f, !.pieces = 3, !.ticks = 2] :
     o \in {{}, {"SAVE_ON_EXIT", "MAKE_BACKUP"}}, f \in {{}, {fa}}}

(* Two editors make backups of the same file.                              *)
Backing ==
  [Plain EXCEPT !.events = {"kill"}, !.opts = {"MAKE_BACKUP"}, !.saves = 2,
                !.args = Both(<<fa>>, <<fa>>), !.pieces = 2]

(* Two editors want the same files, with locks.                            *)
Locking ==
  {[Plain EXCEPT !.events = {"kill"}, !.opts = {"LOCKING"}, !.pieces = 2,
                 !.args = Both(<<fa, fb>>, <<fa>>)],
   [Plain EXCEPT !.events = {"full"}, !.opts = {"LOCKING"}, !.saves = 1,
                 !.args = Both(<<fa>>, <<fa>>)],
   [Plain EXCEPT !.opts = {"LOCKING"}, !.args = Both(<<fa>>, <<fb>>), !.another = {fb}]}

(* A hangup ends both editors.                                             *)
HangingUp ==
  {[Plain EXCEPT !.events = e, !.opts = {"LOCKING"}, !.pieces = 3,
                 !.args = Both(<<fa, fb>>, <<fa>>)] :
     e \in {{"hangup", "second signal"}, {"hangup", "full"}}}

(* Two editors search, and leave their histories to each other.            *)
Searching ==
  [Plain EXCEPT !.opts = {"HISTORYLOG"}, !.args = Both(<<fa>>, <<fb>>), !.events = {"hangup"},
                !.strings = {"x", "y", "z"}, !.searches = 4]

(* Two editors close files and note the positions, over three seconds.     *)
Positions ==
  [Plain EXCEPT !.events = {"kill"}, !.opts = {"POSITIONLOG"}, !.ticks = 3,
                !.args = Both(<<fa, fb>>, <<fb>>)]

MCScenarios == {Crashing, Backing, Searching, Positions} \cup Saving \cup Sharing \cup Locking \cup HangingUp
=============================================================================
