--------------------------- MODULE NanoFilesProofs ---------------------------
(***************************************************************************)
(* Proofs about module NanoFiles.  The inductive invariant Inv has four    *)
(* parts beyond the types: where every editor stands with its buffers      *)
(* (Standing), which of its buffers a lock file belongs to (LocksHeld),    *)
(* what a completed backup holds (BackupsHold), and what an ending editor  *)
(* has rescued or still will (Rescuing).  On top of it, the histories that *)
(* editors share have an invariant of their own (Histories), and so has    *)
(* what editors noticed of the files (Dates).                              *)
(***************************************************************************)
EXTENDS NanoFiles, SequenceTheorems, WellFoundedInduction, TLAPS

-----------------------------------------------------------------------------
(* Types.  The histories have an invariant of their own, further below.    *)

Text == Seq(Nat)
NameOrNot == Names \cup {NoName}
Stamps == [of : NameOrNot, mtime : Nat, id : Nat]
File == [text : Text, synced : Text, mtime : Nat, id : Nat]
Backup == [text : Text, synced : Text, by : Editors \cup {Nobody}]
LockFile == [by : Editors \cup {Nobody, Garbled}, mod : BOOLEAN]
Key == Names \cup Editors
Method == {"OVERWRITE", "APPEND", "PREPEND"}

Buffer ==
  [name : NameOrNot, text : Text, mod : BOOLEAN, stat : Stamps, lock : NameOrNot,
   base : Text, origin : Text, late : BOOLEAN, hasty : BOOLEAN, told : BOOLEAN]

SaveRecord ==
  [name : NameOrNot, method : Method, exiting : BOOLEAN, prompt : BOOLEAN, mark : BOOLEAN,
   annotate : BOOLEAN, temp : Text, asked : BOOLEAN, seen : [text : Text, stat : Stamps], backed : BOOLEAN, old : Text]

(* Where an editor can be: before the backup of a save is complete, after  *)
(* that, and elsewhere.                                                    *)
Early == {"prompt", "check", "overwrite?", "continue?", "stat", "backup", "copy"}
Late == {"prepend", "open file", "write", "sync", "note"}
Opening == {"lock", "read", "stat file", "opened"}
Closed == {"open log", "write log", "finish"}
Ending3 == {"dying", "rescue", "dead"}

Pc == Early \cup Late \cup Opening \cup Closed \cup Ending3
        \cup {"off", "open", "idle", "closing", "gone", "quit", "cut", "killed"}

Fields == {"pc", "ring", "args", "up", "save", "log", "stamp", "searches", "searched",
           "todo", "slot", "owed", "missed"}

IsEditor(e) ==
  /\ DOMAIN e = Fields
  /\ e.pc \in Pc /\ e.ring \in Seq(Buffer) /\ e.args \in Seq(Names) /\ e.up \in BOOLEAN
  /\ e.save \in SaveRecord /\ e.todo \in Nat /\ e.slot \in Nat /\ e.missed \in BOOLEAN
  /\ e.owed \in SUBSET [key : Key, text : Text]

WorldOK ==
  /\ file \in [Names -> File] /\ backup \in [Names -> Backup]
  /\ home \in [Names -> SUBSET Text] /\ rescue \in [Key -> Seq(Text)]
  /\ lock \in [Names -> LockFile]
  /\ now \in Nat /\ scenario \in Scenarios
  /\ spent \in [pieces : Nat, saves : Nat, searches : Nat]

TypeOK ==
  /\ WorldOK
  /\ editor = [p \in Editors |-> editor[p]]
  /\ \A p \in Editors : IsEditor(editor[p])

-----------------------------------------------------------------------------
(* The inductive invariant.                                                *)

(* Without a buffer, or still without one, an editor is not at work.       *)
Bufferless == {"off", "open", "gone", "quit", "dying", "dead", "cut", "killed"}

(* What the place where an editor is says of its buffers and its save.  A  *)
(* buffer that is not modified has the text last read or written.          *)
Standing(e) ==
  /\ e.pc \notin Bufferless => e.ring # <<>>
  /\ e.pc \in Opening => e.args # <<>>
  /\ e.pc = "lock" => e.ring[1].lock = NoName
  /\ e.pc = "stat file" => e.ring[1].name \in Names
  /\ e.pc \in (Early \cup Late) \ {"prompt"} => e.save.name \in Names
  /\ e.pc \in Early \cup Late /\ e.save.mark => e.ring[1].text # <<>>
  /\ e.save.backed => e.save.name \in Names /\ e.pc \notin Early
  /\ e.pc = "finish" => Len(e.ring) = 1
  /\ e.pc \in {"dying", "rescue"} => e.todo <= Len(e.ring)
  /\ e.pc = "rescue" => e.todo > 0
  /\ e.pc \notin Ending3 \cup {"cut", "killed"} =>
       \A i \in DOMAIN e.ring : ~e.ring[i].mod => e.ring[i].text = e.ring[i].base
  /\ e.pc = "closing" /\ ~e.ring[1].told => e.ring[1].text = e.ring[1].base

(* The places in the ring whose lock files have not been deleted yet.      *)
Held(e) ==
  IF e.pc \in Closed THEN 2 .. Len(e.ring)
  ELSE IF e.pc = "dying" THEN 1 .. e.todo
  ELSE IF e.pc = "rescue" THEN 2 .. e.todo
  ELSE IF e.pc \in {"gone", "dead"} THEN {}
  ELSE 1 .. Len(e.ring)

Holds(e, n) == e.pc \in {"quit", "cut", "killed"} \/ \E i \in Held(e) : e.ring[i].lock = n

LocksHeld == \A p \in Editors, n \in Names : lock[n].by = p => Holds(editor[p], n)

(* A completed backup has the old text, and has it on the disk itself.     *)
BackupHolds(e, p, copies) ==
  e.save.backed /\ copies[e.save.name].by = p =>
    copies[e.save.name].text = e.save.old /\ copies[e.save.name].synced = e.save.old

BackupsHold == \A p \in Editors : BackupHolds(editor[p], p, backup)

(* What was modified at the hangup is in an emergency file, or among the   *)
(* buffers that are still to be dealt with.                                *)
KeyOf(b, p) == IF b.name = NoName THEN p ELSE b.name

Owing(e, p, o) ==
  /\ e.pc # "dead"
  /\ \E i \in 1 .. e.todo :
       e.ring[i].mod /\ KeyOf(e.ring[i], p) = o.key /\ e.ring[i].text = o.text

Among(text, texts) == \E i \in DOMAIN texts : texts[i] = text

RescueOf(e, p, saved) ==
  e.pc \in Ending3 /\ ~e.missed =>
    \A o \in e.owed : Among(o.text, saved[o.key]) \/ Owing(e, p, o)

Rescuing == \A p \in Editors : RescueOf(editor[p], p, rescue)

Inv ==
  /\ TypeOK
  /\ \A p \in Editors : Standing(editor[p])
  /\ LocksHeld /\ BackupsHold /\ Rescuing

-----------------------------------------------------------------------------
(* Sequences: the ring of buffers.                                         *)

(* A sequence that is not empty has a first and a last element.            *)
LEMMA Ends ==
  ASSUME NEW S, NEW r \in Seq(S), r # <<>>
  PROVE  /\ Len(r) \in Nat \ {0} /\ DOMAIN r = 1 .. Len(r)
         /\ Head(r) = r[1] /\ Last(r) = r[Len(r)]
         /\ \A i \in 1 .. Len(r) : r[i] \in S
<1>1. Len(r) \in Nat \ {0}
  BY EmptySeq
<1>2. Head(r) = r[1]
  BY <1>1
<1> QED
  BY <1>1, <1>2, LenProperties, ElementOfSeq DEF Last

(* The sequence of one element.                                            *)
LEMMA Single ==
  ASSUME NEW S, NEW b \in S
  PROVE  <<b>> \in Seq(S) /\ Len(<<b>>) = 1 /\ <<b>>[1] = b /\ <<b>> # <<>>
OBVIOUS

(* The first element replaced.                                             *)
LEMMA FirstReplaced ==
  ASSUME NEW S, NEW r \in Seq(S), r # <<>>, NEW b \in S
  PROVE  LET t == <<b>> \o Tail(r)
         IN  /\ t \in Seq(S) /\ t # <<>> /\ Len(t) = Len(r) /\ DOMAIN t = DOMAIN r
             /\ t[1] = b
             /\ \A i \in 2 .. Len(r) : t[i] = r[i]
<1> DEFINE t == <<b>> \o Tail(r)
<1>1. Tail(r) \in Seq(S) /\ Len(Tail(r)) = Len(r) - 1
      /\ \A i \in 1 .. Len(Tail(r)) : Tail(r)[i] = r[i + 1]
  BY HeadTailProperties
<1>2. Len(r) \in Nat \ {0}
  BY Ends
<1>3. t \in Seq(S) /\ Len(t) = 1 + Len(Tail(r))
      /\ \A i \in 1 .. 1 + Len(Tail(r)) : t[i] = IF i <= 1 THEN <<b>>[i] ELSE Tail(r)[i - 1]
  BY <1>1, Single, ConcatProperties
<1> HIDE DEF t
<1>4. Len(t) = Len(r) /\ t # <<>> /\ DOMAIN t = DOMAIN r
  BY <1>1, <1>2, <1>3, LenProperties, EmptySeq
<1>5. t[1] = b
  BY <1>2, <1>1, <1>3
<1>6. \A i \in 2 .. Len(r) : t[i] = r[i]
  BY <1>1, <1>2, <1>3
<1> QED
  BY <1>3, <1>4, <1>5, <1>6 DEF t

(* The first element changed in place.                                     *)
LEMMA FirstChanged ==
  ASSUME NEW S, NEW r \in Seq(S), r # <<>>, NEW b \in S
  PROVE  LET t == [r EXCEPT ![1] = b]
         IN  /\ t \in Seq(S) /\ t # <<>> /\ Len(t) = Len(r) /\ DOMAIN t = DOMAIN r
             /\ t[1] = b
             /\ \A i \in 2 .. Len(r) : t[i] = r[i]
<1> DEFINE t == [r EXCEPT ![1] = b]
<1>1. Len(r) \in Nat \ {0}
  BY Ends
<1>2. t \in Seq(S) /\ Len(t) = Len(r)
      /\ \A j \in 1 .. Len(r) : t[j] = IF j = 1 THEN b ELSE r[j]
  BY <1>1, ExceptSeq
<1> HIDE DEF t
<1>3. t # <<>> /\ DOMAIN t = DOMAIN r
  BY <1>1, <1>2, EmptySeq, LenProperties
<1> QED
  BY <1>1, <1>2, <1>3 DEF t

(* The first element moved to the end.                                     *)
LEMMA RotatedRing ==
  ASSUME NEW S, NEW r \in Seq(S), r # <<>>
  PROVE  LET t == Rotated(r)
         IN  /\ t \in Seq(S) /\ t # <<>> /\ Len(t) = Len(r) /\ DOMAIN t = DOMAIN r
             /\ \A i \in 1 .. Len(r) - 1 : t[i] = r[i + 1]
             /\ t[Len(r)] = r[1]
<1> DEFINE t == Rotated(r)
<1>1. Tail(r) \in Seq(S) /\ Len(Tail(r)) = Len(r) - 1
      /\ \A i \in 1 .. Len(Tail(r)) : Tail(r)[i] = r[i + 1]
  BY HeadTailProperties
<1>2. Len(r) \in Nat \ {0} /\ Head(r) = r[1] /\ r[1] \in S
  BY Ends
<1>3. t = Tail(r) \o <<r[1]>>
  BY <1>2 DEF Rotated
<1>4. t \in Seq(S) /\ Len(t) = Len(Tail(r)) + 1
      /\ \A i \in 1 .. Len(Tail(r)) + 1 :
           t[i] = IF i <= Len(Tail(r)) THEN Tail(r)[i] ELSE <<r[1]>>[i - Len(Tail(r))]
  <2>1. <<r[1]>> \in Seq(S) /\ Len(<<r[1]>>) = 1
    BY <1>2
  <2> DEFINE h == Tail(r)
             l == <<r[1]>>
  <2>2. h \in Seq(S) /\ l \in Seq(S) /\ Len(l) = 1 /\ t = h \o l
    BY <1>1, <1>3, <2>1
  <2> HIDE DEF h, l, t
  <2>3. t \in Seq(S) /\ Len(t) = Len(h) + Len(l)
        /\ \A i \in 1 .. Len(h) + Len(l) : t[i] = IF i <= Len(h) THEN h[i] ELSE l[i - Len(h)]
    BY <2>2, ConcatProperties
  <2> QED
    BY <2>2, <2>3 DEF h, l
<1> HIDE DEF t
<1>5. Len(t) = Len(r) /\ t # <<>> /\ DOMAIN t = DOMAIN r
  BY <1>1, <1>2, <1>4, LenProperties, EmptySeq
<1>6. \A i \in 1 .. Len(r) - 1 : t[i] = r[i + 1]
  BY <1>1, <1>2, <1>4
<1>7. t[Len(r)] = r[1]
  BY <1>1, <1>2, <1>4
<1> QED
  BY <1>4, <1>5, <1>6, <1>7 DEF t

(* The last element moved to the front.                                    *)
LEMMA RotatedBack ==
  ASSUME NEW S, NEW r \in Seq(S), r # <<>>
  PROVE  LET t == <<Last(r)>> \o Front(r)
         IN  /\ t \in Seq(S) /\ t # <<>> /\ Len(t) = Len(r) /\ DOMAIN t = DOMAIN r
             /\ t[1] = r[Len(r)]
             /\ \A i \in 2 .. Len(r) : t[i] = r[i - 1]
<1> DEFINE t == <<Last(r)>> \o Front(r)
<1>1. Len(r) \in Nat \ {0} /\ Last(r) = r[Len(r)] /\ \A i \in 1 .. Len(r) : r[i] \in S
  BY Ends
<1>2. Front(r) \in Seq(S) /\ Len(Front(r)) = Len(r) - 1
      /\ \A i \in 1 .. Len(r) - 1 : Front(r)[i] = r[i]
  <2>1. \A i \in 1 .. Len(r) - 1 : r[i] \in S
    BY <1>1
  <2>2. /\ SubSeq(r, 1, Len(r) - 1) \in Seq(S)
        /\ Len(SubSeq(r, 1, Len(r) - 1)) = IF 1 <= Len(r) - 1 THEN Len(r) - 1 - 1 + 1 ELSE 0
        /\ \A i \in 1 .. Len(r) - 1 - 1 + 1 : SubSeq(r, 1, Len(r) - 1)[i] = r[1 + i - 1]
    BY <1>1, <2>1, SubSeqProperties
  <2>3. Front(r) = SubSeq(r, 1, Len(r) - 1)
    BY DEF Front
  <2> DEFINE f == SubSeq(r, 1, Len(r) - 1)
  <2>4. f \in Seq(S) /\ Len(f) = (IF 1 <= Len(r) - 1 THEN Len(r) - 1 - 1 + 1 ELSE 0)
        /\ \A i \in 1 .. Len(r) - 1 - 1 + 1 : f[i] = r[1 + i - 1]
    BY <2>2
  <2> HIDE DEF f
  <2> DEFINE n == Len(r)
  <2> HIDE DEF n
  <2>5. f \in Seq(S) /\ Len(f) = n - 1
    <3>1. n \in Nat \ {0} /\ Len(f) = IF 1 <= n - 1 THEN n - 1 - 1 + 1 ELSE 0
      BY <1>1, <2>4 DEF n
    <3> QED
      BY <2>4, <3>1
  <2>6. ASSUME NEW i \in 1 .. Len(r) - 1
        PROVE  f[i] = r[i]
    <3>1. i \in 1 .. Len(r) - 1 - 1 + 1 /\ 1 + i - 1 = i
      BY <1>1
    <3> QED
      BY <2>4, <3>1
  <2> QED
    BY <2>3, <2>5, <2>6 DEF f, n
<1>3. t \in Seq(S) /\ Len(t) = 1 + Len(Front(r))
      /\ \A i \in 1 .. 1 + Len(Front(r)) :
           t[i] = IF i <= 1 THEN <<Last(r)>>[i] ELSE Front(r)[i - 1]
  BY <1>1, <1>2, Single, ConcatProperties
<1> HIDE DEF t
<1>4. Len(t) = Len(r) /\ t # <<>> /\ DOMAIN t = DOMAIN r
  BY <1>1, <1>2, <1>3, LenProperties, EmptySeq
<1>5. t[1] = r[Len(r)]
  BY <1>1, <1>2, <1>3
<1>6. \A i \in 2 .. Len(r) : t[i] = r[i - 1]
  BY <1>1, <1>2, <1>3
<1> QED
  BY <1>3, <1>4, <1>5, <1>6 DEF t

(* The first element taken away.                                           *)
LEMMA FirstGone ==
  ASSUME NEW S, NEW r \in Seq(S), r # <<>>
  PROVE  /\ Tail(r) \in Seq(S) /\ Len(Tail(r)) = Len(r) - 1
         /\ DOMAIN Tail(r) = 1 .. Len(r) - 1
         /\ \A i \in 1 .. Len(r) - 1 : Tail(r)[i] = r[i + 1]
         /\ Len(r) > 1 => Tail(r) # <<>>
<1>1. Len(r) \in Nat \ {0}
  BY Ends
<1>2. Tail(r) \in Seq(S) /\ Len(Tail(r)) = Len(r) - 1
      /\ \A i \in 1 .. Len(Tail(r)) : Tail(r)[i] = r[i + 1]
  BY HeadTailProperties
<1>3. DOMAIN Tail(r) = 1 .. Len(Tail(r))
  BY <1>2, LenProperties
<1>4. Len(r) > 1 => Tail(r) # <<>>
  <2> DEFINE n == Len(r)
             m == Len(Tail(r))
  <2>1. n \in Nat /\ m = n - 1
    BY <1>1, <1>2
  <2> HIDE DEF n, m
  <2>2. n > 1 => m # 0
    BY <2>1
  <2>3. Len(<<>>) = 0
    OBVIOUS
  <2> QED
    BY <2>2, <2>3 DEF n, m
<1> QED
  BY <1>1, <1>2, <1>3, <1>4

-----------------------------------------------------------------------------
(* What every step has in common.                                          *)

(* One editor changes.                                                     *)
LEMMA OneChanges ==
  ASSUME TypeOK, NEW p \in Editors, NEW f, editor' = [editor EXCEPT ![p] = f]
  PROVE  /\ editor' = [q \in Editors |-> editor'[q]]
         /\ editor'[p] = f
         /\ \A q \in Editors \ {p} : editor'[q] = editor[q]
BY DEF TypeOK

(* Texts are only added to the emergency files.                            *)
Grown(saved, more) ==
  \A k \in Key : more[k] = saved[k] \/ \E t \in Text : more[k] = Append(saved[k], t)

LEMMA GrownKeeps ==
  ASSUME NEW saved \in [Key -> Seq(Text)], NEW more, Grown(saved, more),
         NEW k \in Key, NEW t, Among(t, saved[k])
  PROVE  Among(t, more[k])
<1>1. CASE more[k] = saved[k]
  BY <1>1
<1>2. CASE \E u \in Text : more[k] = Append(saved[k], u)
  <2>1. PICK u \in Text : more[k] = Append(saved[k], u)
    BY <1>2
  <2>2. PICK i \in DOMAIN saved[k] : saved[k][i] = t
    BY DEF Among
  <2>3. saved[k] \in Seq(Text)
    OBVIOUS
  <2>4. i \in 1 .. Len(saved[k]) /\ Len(saved[k]) \in Nat
    BY <2>2, <2>3, LenProperties
  <2>5. /\ Append(saved[k], u) \in Seq(Text)
        /\ Len(Append(saved[k], u)) = Len(saved[k]) + 1
        /\ \A j \in 1 .. Len(saved[k]) : Append(saved[k], u)[j] = saved[k][j]
    BY <2>3, AppendProperties
  <2> DEFINE more_k == Append(saved[k], u)
             n == Len(saved[k])
  <2>6. more_k \in Seq(Text) /\ Len(more_k) = n + 1 /\ n \in Nat /\ i \in 1 .. n
        /\ more_k[i] = t
    BY <2>2, <2>4, <2>5
  <2> HIDE DEF more_k, n
  <2>7. DOMAIN more_k = 1 .. n + 1
    BY <2>6, LenProperties
  <2>8. i \in DOMAIN more_k
    BY <2>6, <2>7
  <2> QED
    BY <2>1, <2>6, <2>8 DEF Among, more_k
<1> QED
  BY <1>1, <1>2 DEF Grown

(* The invariant of the other editors is kept by any step of p that takes  *)
(* lock files and backups only for p itself or to remove them, and adds to *)
(* the emergency files.                                                    *)
LEMMA StepKeeps ==
  ASSUME Inv, NEW p \in Editors, NEW f, editor' = [editor EXCEPT ![p] = f],
         WorldOK', IsEditor(f), Standing(f),
         \A n \in Names : lock'[n].by = p => Holds(f, n),
         \A n \in Names : lock'[n].by \in {lock[n].by, p, Nobody, Garbled},
         BackupHolds(f, p, backup'),
         \A n \in Names : backup'[n] = backup[n] \/ backup'[n].by \in {p, Nobody},
         RescueOf(f, p, rescue'), Grown(rescue, rescue')
  PROVE  Inv'
<1>1. /\ editor' = [q \in Editors |-> editor'[q]]
      /\ editor'[p] = f
      /\ \A q \in Editors \ {p} : editor'[q] = editor[q]
  BY OneChanges DEF Inv
<1>2. Nobody \notin Editors /\ Garbled \notin Editors
  BY DistinctConstants
<1>3. TypeOK'
  BY <1>1 DEF TypeOK, Inv
<1>4. \A q \in Editors : Standing(editor'[q])
  BY <1>1 DEF Inv
<1>5. ASSUME NEW q \in Editors, NEW n \in Names, lock'[n].by = q
      PROVE  Holds(editor'[q], n)
  <2>1. CASE q = p
    BY <1>1, <1>5, <2>1
  <2>2. CASE q # p
    <3>1. lock[n].by = q
      BY <1>2, <1>5, <2>2
    <3> QED
      BY <1>1, <2>2, <3>1 DEF Inv, LocksHeld
  <2> QED
    BY <2>1, <2>2
<1>6. ASSUME NEW q \in Editors
      PROVE  BackupHolds(editor'[q], q, backup')
  <2>1. CASE q = p
    BY <1>1, <2>1
  <2>2. CASE q # p
    <3>1. editor'[q] = editor[q] /\ BackupHolds(editor[q], q, backup) /\ Standing(editor[q])
      BY <1>1, <2>2 DEF Inv, BackupsHold
    <3> SUFFICES ASSUME editor[q].save.backed, backup'[editor[q].save.name].by = q
                 PROVE  /\ backup'[editor[q].save.name].text = editor[q].save.old
                        /\ backup'[editor[q].save.name].synced = editor[q].save.old
      BY <3>1 DEF BackupHolds
    <3>2. editor[q].save.name \in Names
      BY <3>1 DEF Standing
    <3>3. backup'[editor[q].save.name] = backup[editor[q].save.name]
      BY <1>2, <2>2, <3>2
    <3> QED
      BY <3>1, <3>3 DEF BackupHolds
  <2> QED
    BY <2>1, <2>2
<1>7. ASSUME NEW q \in Editors
      PROVE  RescueOf(editor'[q], q, rescue')
  <2>1. CASE q = p
    BY <1>1, <2>1
  <2>2. CASE q # p
    <3>1. editor'[q] = editor[q] /\ RescueOf(editor[q], q, rescue) /\ IsEditor(editor[q])
      BY <1>1, <2>2 DEF Inv, Rescuing, TypeOK
    <3> SUFFICES ASSUME editor[q].pc \in Ending3, ~editor[q].missed, NEW o \in editor[q].owed
                 PROVE  Among(o.text, rescue'[o.key]) \/ Owing(editor[q], q, o)
      BY <3>1 DEF RescueOf
    <3>2. o.key \in Key
      BY <3>1 DEF IsEditor
    <3>3. rescue \in [Key -> Seq(Text)]
      BY DEF Inv, TypeOK, WorldOK
    <3>4. Among(o.text, rescue[o.key]) \/ Owing(editor[q], q, o)
      BY <3>1 DEF RescueOf
    <3> QED
      BY <3>2, <3>3, <3>4, GrownKeeps
  <2> QED
    BY <2>1, <2>2
<1> QED
  BY <1>3, <1>4, <1>5, <1>6, <1>7 DEF Inv, LocksHeld, BackupsHold, Rescuing

(* The places where all lock files of an editor's buffers are in force.    *)
Working == Pc \ (Closed \cup Ending3 \cup {"gone", "quit", "cut", "killed"})

(* A step within the work on the buffers, which changes no lock file, no   *)
(* backup and no emergency file.                                           *)
LEMMA WorkKeeps ==
  ASSUME Inv, NEW p \in Editors, NEW f, editor' = [editor EXCEPT ![p] = f],
         WorldOK', IsEditor(f), Standing(f), UNCHANGED <<lock, backup, rescue>>,
         editor[p].pc \in Working, f.pc \in Working,
         Len(f.ring) = Len(editor[p].ring),
         \A i \in 1 .. Len(f.ring) : f.ring[i].lock = editor[p].ring[i].lock,
         f.save.backed =>
           /\ editor[p].save.backed
           /\ f.save.name = editor[p].save.name /\ f.save.old = editor[p].save.old
  PROVE  Inv'
<1> DEFINE e == editor[p]
<1>1. \A n \in Names : lock'[n].by = p => Holds(f, n)
  <2> SUFFICES ASSUME NEW n \in Names, lock[n].by = p
               PROVE  Holds(f, n)
    OBVIOUS
  <2>1. Holds(e, n)
    BY DEF Inv, LocksHeld
  <2>2. Held(e) = 1 .. Len(e.ring) /\ Held(f) = 1 .. Len(f.ring)
    BY DEF Held, Working, Closed, Ending3
  <2>3. e.pc \notin {"quit", "cut", "killed"}
    BY DEF Working
  <2> QED
    BY <2>1, <2>2, <2>3 DEF Holds
<1>2. BackupHolds(f, p, backup')
  <2>1. BackupHolds(e, p, backup)
    BY DEF Inv, BackupsHold
  <2> QED
    BY <2>1 DEF BackupHolds
<1>3. RescueOf(f, p, rescue')
  BY DEF RescueOf, Working
<1>4. Grown(rescue, rescue')
  BY DEF Grown
<1> HIDE DEF e
<1> QED
  BY <1>1, <1>2, <1>3, <1>4, StepKeeps

(* An editor that ends at once leaves everything as it is.                 *)
LEMMA EndKeeps ==
  ASSUME Inv, NEW p \in Editors, NEW f, editor' = [editor EXCEPT ![p] = f],
         f = [editor[p] EXCEPT !.pc = f.pc], f.pc \in {"quit", "cut", "killed"},
         WorldOK', UNCHANGED <<lock, backup, rescue>>,
         f.pc = "quit" => editor[p].pc = "open"
  PROVE  Inv'
<1> DEFINE e == editor[p]
<1>1. IsEditor(e) /\ Standing(e)
  BY DEF Inv, TypeOK
<1>2. /\ f.ring = e.ring /\ f.save = e.save /\ f.args = e.args /\ f.todo = e.todo
      /\ f.up = e.up /\ f.slot = e.slot /\ f.missed = e.missed /\ f.owed = e.owed
      /\ DOMAIN f = Fields
  <2> DEFINE pc == f.pc
  <2>1. f = [e EXCEPT !.pc = pc] /\ DOMAIN e = Fields
    BY <1>1 DEF IsEditor
  <2> HIDE DEF e, pc
  <2> QED
    BY ONLY <2>1 DEF Fields
<1>3. IsEditor(f)
  BY <1>1, <1>2 DEF IsEditor, Pc
<1>4. Standing(f)
  <2>1. /\ f.pc \in Bufferless /\ f.pc \notin Opening /\ f.pc \notin Early /\ f.pc \notin Late
        /\ f.pc # "lock" /\ f.pc # "stat file" /\ f.pc # "finish" /\ f.pc # "closing"
        /\ f.pc # "rescue" /\ f.pc \notin {"dying", "rescue"}
    BY DEF Bufferless, Opening, Early, Late
  <2>2. f.save.backed => f.save.name \in Names
    BY <1>1, <1>2 DEF Standing
  <2>3. f.pc \notin Ending3 \cup {"cut", "killed"} =>
          \A i \in DOMAIN f.ring : ~f.ring[i].mod => f.ring[i].text = f.ring[i].base
    <3>1. CASE f.pc = "quit"
      <4>1. e.pc \notin Ending3 \cup {"cut", "killed"}
        BY <3>1 DEF Ending3
      <4>2. \A i \in DOMAIN e.ring : ~e.ring[i].mod => e.ring[i].text = e.ring[i].base
        BY <1>1, <4>1 DEF Standing
      <4> QED
        BY <1>2, <4>2
    <3>2. CASE f.pc \in {"cut", "killed"}
      BY <3>2
    <3> QED
      BY <3>1, <3>2
  <2>4. f.pc \notin Early \cup Late /\ f.pc \notin (Early \cup Late) \ {"prompt"}
    BY ONLY <2>1
  <2> HIDE DEF e
  <2> QED
    BY ONLY <2>1, <2>2, <2>3, <2>4, Zenon DEF Standing
<1>5. \A n \in Names : lock'[n].by = p => Holds(f, n)
  BY DEF Holds
<1>6. BackupHolds(f, p, backup')
  BY <1>2 DEF Inv, BackupsHold, BackupHolds
<1>7. RescueOf(f, p, rescue')
  BY DEF RescueOf, Ending3
<1>8. Grown(rescue, rescue')
  BY DEF Grown
<1> HIDE DEF e
<1> QED
  BY <1>3, <1>4, <1>5, <1>6, <1>7, <1>8, StepKeeps

(* The ring r with the buffer c in the place of its first one, and lock    *)
(* files that name the editor p only if c or another buffer has them.      *)
Replaces(t, c, r) ==
  /\ t # <<>> /\ Len(t) = Len(r) /\ DOMAIN t = DOMAIN r /\ t[1] = c
  /\ \A i \in 2 .. Len(r) : t[i] = r[i]

LocksFollow(p, c, r) ==
  \A n \in Names : /\ lock'[n].by \in {lock[n].by, p, Nobody, Garbled}
                   /\ lock'[n].by = p => \/ c.lock = n
                                         \/ lock[n].by = p /\ n # r[1].lock

(* A step that changes the current buffer and perhaps its lock file, and   *)
(* does not lead into a save.                                              *)
LEMMA CurKeeps ==
  ASSUME Inv, NEW p \in Editors, editor[p].pc \in Working, editor[p].ring # <<>>,
         NEW c \in Buffer, NEW f, editor' = [editor EXCEPT ![p] = f],
         WorldOK', IsEditor(f), UNCHANGED <<backup, rescue>>,
         f.pc \in Working \ (Early \cup Late),
         f.pc \in Opening => f.args # <<>>,
         Replaces(f.ring, c, editor[p].ring), ~c.mod => c.text = c.base,
         f.pc = "closing" => c.told \/ c.text = c.base,
         f.pc = "stat file" => c.name \in Names, f.pc # "lock",
         f.save.backed => editor[p].save.backed /\ f.save = editor[p].save,
         LocksFollow(p, c, editor[p].ring)
  PROVE  Inv'
<1> USE DEF Replaces, LocksFollow
<1> DEFINE e == editor[p]
<1>1. IsEditor(e) /\ Standing(e) /\ e.pc \in Working /\ e.pc \notin Ending3 \cup {"cut", "killed"}
  BY DEF Inv, TypeOK, Working
<1>2. Len(e.ring) \in Nat \ {0} /\ DOMAIN e.ring = 1 .. Len(e.ring)
  <2>1. e.ring \in Seq(Buffer) /\ e.ring # <<>>
    BY <1>1 DEF IsEditor
  <2> QED
    BY ONLY <2>1, Ends
<1>3. \A i \in 1 .. Len(e.ring) : i = 1 \/ i \in 2 .. Len(e.ring)
  BY ONLY <1>2
<1>4. 1 \in 1 .. Len(e.ring)
  BY ONLY <1>2
<1>5. Standing(f)
  <2>1. ASSUME NEW i \in DOMAIN f.ring, ~f.ring[i].mod
        PROVE  f.ring[i].text = f.ring[i].base
    <3>1. i \in 1 .. Len(e.ring) /\ i \in DOMAIN e.ring
      BY <1>2
    <3>2. ~e.ring[i].mod => e.ring[i].text = e.ring[i].base
      BY <1>1, <3>1 DEF Standing
    <3>3. CASE i = 1
      BY <2>1, <3>3
    <3>4. CASE i \in 2 .. Len(e.ring)
      BY <2>1, <3>2, <3>4
    <3> QED
      BY <1>3, <3>1, <3>3, <3>4
  <2>2. f.pc \notin {"finish", "dying", "rescue"} \cup Early \cup Late
    BY DEF Working, Closed, Ending3
  <2>3. f.save.backed => f.save.name \in Names
    BY <1>1 DEF Standing
  <2> QED
    BY <2>1, <2>2, <2>3 DEF Standing
<1>6. ASSUME NEW n \in Names, lock'[n].by = p
      PROVE  Holds(f, n)
  <2>1. Held(f) = 1 .. Len(e.ring) /\ Held(e) = 1 .. Len(e.ring)
    BY <1>1 DEF Held, Working, Closed, Ending3
  <2>2. CASE c.lock = n
    BY <1>4, <2>1, <2>2 DEF Holds
  <2>3. CASE lock[n].by = p /\ n # e.ring[1].lock
    <3>1. Holds(e, n) /\ e.pc \notin {"quit", "cut", "killed"}
      BY <1>1, <2>3 DEF Inv, LocksHeld, Working
    <3>2. PICK i \in 1 .. Len(e.ring) : e.ring[i].lock = n
      BY <2>1, <3>1 DEF Holds
    <3>3. i \in 2 .. Len(e.ring)
      BY <1>3, <2>3, <3>2
    <3> QED
      BY <2>1, <3>2, <3>3 DEF Holds
  <2> QED
    BY <1>6, <2>2, <2>3
<1>7. BackupHolds(f, p, backup')
  <2>1. BackupHolds(e, p, backup)
    BY DEF Inv, BackupsHold
  <2> QED
    BY <2>1 DEF BackupHolds
<1>8. RescueOf(f, p, rescue') /\ Grown(rescue, rescue')
  BY DEF RescueOf, Working, Grown
<1>9. \A m \in Names : backup'[m] = backup[m] \/ backup'[m].by \in {p, Nobody}
  OBVIOUS
<1> HIDE DEF e
<1> QED
  BY <1>5, <1>6, <1>7, <1>8, <1>9, StepKeeps

-----------------------------------------------------------------------------
(* The operators of the models.                                            *)

(* What is the same of an editor that goes somewhere else.                 *)
SameRest(f, e) ==
  /\ f.args = e.args /\ f.up = e.up /\ f.todo = e.todo /\ f.slot = e.slot
  /\ f.missed = e.missed /\ f.owed = e.owed

LEMMA PcChanges ==
  ASSUME NEW e, IsEditor(e), NEW pc \in Pc
  PROVE  LET f == [e EXCEPT !.pc = pc]
         IN  IsEditor(f) /\ f.pc = pc /\ f.ring = e.ring /\ f.save = e.save /\ SameRest(f, e)
<1> DEFINE f == [e EXCEPT !.pc = pc]
<1>1. /\ DOMAIN f = Fields /\ f.pc = pc /\ f.ring = e.ring /\ f.save = e.save /\ f.args = e.args
      /\ f.up = e.up /\ f.todo = e.todo /\ f.slot = e.slot /\ f.missed = e.missed /\ f.owed = e.owed
  BY DEF IsEditor, Fields
<1> HIDE DEF f
<1> QED
  BY <1>1 DEF IsEditor, SameRest, f

LEMMA RingChanges ==
  ASSUME NEW e, IsEditor(e), NEW pc \in Pc, NEW r \in Seq(Buffer), NEW f,
         \/ f = [e EXCEPT !.pc = pc, !.ring = r]
         \/ f = [e EXCEPT !.ring = r, !.pc = pc]
  PROVE  IsEditor(f) /\ f.pc = pc /\ f.ring = r /\ f.save = e.save /\ SameRest(f, e)
<1>1. /\ DOMAIN f = Fields /\ f.pc = pc /\ f.ring = r /\ f.save = e.save /\ f.args = e.args
      /\ f.up = e.up /\ f.todo = e.todo /\ f.slot = e.slot /\ f.missed = e.missed /\ f.owed = e.owed
  BY DEF IsEditor, Fields
<1> QED
  BY <1>1 DEF IsEditor, SameRest

(* Another buffer in the place of the current one.                         *)
LEMMA WithCurIs ==
  ASSUME NEW e, IsEditor(e), e.ring # <<>>, NEW b \in Buffer
  PROVE  LET f == WithCur(e, b)
         IN  /\ IsEditor(f) /\ f.pc = e.pc /\ f.save = e.save /\ SameRest(f, e)
             /\ f.ring # <<>> /\ Len(f.ring) = Len(e.ring) /\ DOMAIN f.ring = DOMAIN e.ring
             /\ f.ring[1] = b
             /\ \A i \in 2 .. Len(e.ring) : f.ring[i] = e.ring[i]
<1> DEFINE f == WithCur(e, b)
           r == <<b>> \o Tail(e.ring)
           pc == e.pc
<1>1. e.ring \in Seq(Buffer) /\ pc \in Pc /\ pc = e.pc
  BY DEF IsEditor
<1>2. /\ r \in Seq(Buffer) /\ r # <<>> /\ Len(r) = Len(e.ring) /\ DOMAIN r = DOMAIN e.ring
      /\ r[1] = b
      /\ \A i \in 2 .. Len(e.ring) : r[i] = e.ring[i]
  BY <1>1, FirstReplaced
<1>3. f = [e EXCEPT !.ring = r]
  BY DEF WithCur
<1> HIDE DEF f, r, pc
<1>4. IsEditor(f) /\ f.pc = pc /\ f.ring = r /\ f.save = e.save /\ SameRest(f, e)
  <2>1. /\ DOMAIN f = Fields /\ f.pc = e.pc /\ f.ring = r /\ f.save = e.save /\ f.args = e.args
        /\ f.up = e.up /\ f.todo = e.todo /\ f.slot = e.slot /\ f.missed = e.missed
        /\ f.owed = e.owed
    BY <1>3 DEF IsEditor, Fields
  <2> QED
    BY <1>1, <1>2, <2>1 DEF IsEditor, SameRest
<1> QED
  BY <1>1, <1>2, <1>4 DEF f

(* The current buffer.                                                     *)
LEMMA CurIs ==
  ASSUME TypeOK, NEW p \in Editors, editor[p].ring # <<>>
  PROVE  /\ Cur(p) = editor[p].ring[1] /\ Cur(p) \in Buffer
         /\ Len(editor[p].ring) \in Nat \ {0}
         /\ DOMAIN editor[p].ring = 1 .. Len(editor[p].ring)
<1>1. editor[p].ring \in Seq(Buffer)
  BY DEF TypeOK, IsEditor
<1> QED
  BY <1>1, Ends DEF Cur

(* A buffer whose stat information is new is otherwise as it was.          *)
Similar(c, b) ==
  /\ c.name = b.name /\ c.text = b.text /\ c.mod = b.mod /\ c.lock = b.lock
  /\ c.base = b.base /\ c.origin = b.origin /\ c.told = b.told

LEMMA RestattedIs ==
  ASSUME NEW b \in Buffer, NEW files \in [Names -> File], NEW n \in Names
  PROVE  LET c == Restatted(b, files, n)
         IN  /\ c \in Buffer /\ Similar(c, b) /\ c.stat = StatIn(files, n)
             /\ c.late = (files[n].text # b.origin) /\ c.hasty = (files[n].mtime = now)
<1>1. StatIn(files, n) \in Stamps
  BY DEF StatIn, File, Stamps, NameOrNot
<1> DEFINE st == StatIn(files, n)
           l == files[n].text # b.origin
           h == files[n].mtime = now
<1>2. Restatted(b, files, n) = [b EXCEPT !.stat = st, !.late = l, !.hasty = h]
  BY DEF Restatted
<1>3. st \in Stamps /\ l \in BOOLEAN /\ h \in BOOLEAN
  BY <1>1
<1> HIDE DEF st, l, h
<1>4. /\ Restatted(b, files, n) \in Buffer /\ Similar(Restatted(b, files, n), b)
      /\ Restatted(b, files, n).stat = st /\ Restatted(b, files, n).late = l
      /\ Restatted(b, files, n).hasty = h
  BY <1>2, <1>3 DEF Buffer, Similar
<1> QED
  BY <1>4 DEF st, l, h

(* Texts.                                                                  *)
LEMMA OverlaidSeq ==
  ASSUME NEW S, NEW old \in Seq(S), NEW new \in Seq(S)
  PROVE  Overlaid(old, new) \in Seq(S)
<1> DEFINE m == Len(new) + 1
           n == Len(old)
<1>1. m \in Int /\ n \in Int /\ m \in Nat \ {0}
  BY LenProperties
<1>2. \A i \in m .. n : old[i] \in S
  BY <1>1, ElementOfSeq
<1>3. Overlaid(old, new) = new \o SubSeq(old, m, n)
  BY DEF Overlaid
<1> HIDE DEF m, n
<1>4. SubSeq(old, m, n) \in Seq(S)
  BY <1>1, <1>2, SubSeqProperties
<1> QED
  BY <1>3, <1>4, ConcatProperties

LEMMA OverlaidText ==
  ASSUME NEW old \in Text, NEW new \in Text
  PROVE  Overlaid(old, new) \in Text
BY OverlaidSeq DEF Text

LEMMA ContentIsText ==
  ASSUME Inv, NEW p \in Editors, editor[p].pc \in Early \cup Late
  PROVE  Content(p) \in Text
<1>1. Standing(editor[p]) /\ TypeOK
  BY DEF Inv
<1>2. editor[p].ring # <<>>
  BY <1>1 DEF Standing, Early, Late, Bufferless
<1>3. Cur(p) = editor[p].ring[1] /\ Cur(p).text \in Text
  BY <1>1, <1>2, CurIs DEF Buffer
<1>4. CASE Region(Save(p))
  <2>1. Cur(p).text # <<>>
    BY <1>1, <1>3, <1>4 DEF Region, Save, Standing
  <2>2. Last(Cur(p).text) \in Nat
    BY <1>3, <2>1, Ends DEF Text
  <2> QED
    BY <1>4, <2>2, Single DEF Content, Text
<1>5. CASE ~Region(Save(p))
  BY <1>3, <1>5 DEF Content
<1> QED
  BY <1>4, <1>5

LEMMA WrittenIsFile ==
  ASSUME WorldOK, NEW p \in Editors, Target(p) \in Names, NEW data \in Text
  PROVE  Written(p, data) \in [Names -> File]
<1> DEFINE n == Target(p)
           t == IF Save(p).method = "APPEND" THEN file[n].text \o data
                ELSE Overlaid(file[n].text, data)
<1>1. file \in [Names -> File] /\ n \in Names /\ now \in Nat /\ file[n] \in File
  BY DEF WorldOK
<1>2. file[n].text \in Text
  BY <1>1 DEF File
<1>3. t \in Text
  <2>1. file[n].text \o data \in Text
    BY <1>2, ConcatProperties DEF Text
  <2>2. Overlaid(file[n].text, data) \in Text
    BY <1>2, OverlaidText
  <2> QED
    BY <2>1, <2>2
<1>4. Written(p, data) = [file EXCEPT ![n].text = t, ![n].mtime = now]
  BY DEF Written
<1> HIDE DEF t, n
<1>5. [[file[n] EXCEPT !.text = t] EXCEPT !.mtime = now] \in File
  BY <1>1, <1>3 DEF File
<1>6. Written(p, data) = [file EXCEPT ![n] = [[file[n] EXCEPT !.text = t] EXCEPT !.mtime = now]]
  BY <1>1, <1>4
<1> QED
  BY <1>1, <1>5, <1>6

-----------------------------------------------------------------------------
(* The steps of a save.                                                    *)

LEMMA SameWorld ==
  ASSUME Inv, UNCHANGED <<file, stored, world, spent>>
  PROVE  WorldOK' /\ UNCHANGED <<lock, backup, rescue>>
BY DEF Inv, TypeOK, WorldOK, stored, world

(* Going to another place.                                                 *)
LEMMA GotoIs ==
  ASSUME Inv, NEW p \in Editors, NEW pc, pc \in Early \cup Late \cup {"idle", "closing"},
         editor[p].pc \in Early \cup Late \cup {"idle"}, Goto(p, pc),
         pc \in Early \cup Late => editor[p].pc \in Early \cup Late,
         pc \notin {"prompt", "idle", "closing"} => editor[p].pc # "prompt",
         pc \in Early => editor[p].pc \in Early,
         pc = "closing" => LET b == editor[p].ring[1] IN b.told \/ b.text = b.base
  PROVE  LET f == [editor[p] EXCEPT !.pc = pc]
         IN  /\ editor' = [editor EXCEPT ![p] = f] /\ IsEditor(f) /\ Standing(f)
             /\ f.pc = pc /\ f.ring = editor[p].ring /\ f.save = editor[p].save
             /\ editor[p].pc \in Working /\ pc \in Working
<1> DEFINE e == editor[p]
           f == [e EXCEPT !.pc = pc]
<1>1. IsEditor(e) /\ Standing(e) /\ TypeOK
  BY DEF Inv, TypeOK
<1>2. editor' = [editor EXCEPT ![p] = f]
  BY <1>1 DEF Goto, TypeOK
<1>3. pc \in Pc /\ e.pc \in Working /\ pc \in Working
  BY DEF Pc, Working, Early, Late, Closed, Ending3
<1>4. IsEditor(f) /\ f.pc = pc /\ f.ring = e.ring /\ f.save = e.save /\ SameRest(f, e)
  BY <1>1, <1>3, PcChanges
<1>5. e.ring # <<>> /\ pc \notin Opening \cup {"finish", "dying", "rescue"}
  BY <1>1 DEF Standing, Early, Late, Opening, Bufferless
<1>6. e.pc \notin Ending3 \cup {"cut", "killed"}
  BY DEF Early, Late, Ending3
<1> HIDE DEF e, f
<1>7. Standing(f)
  <2>1. \A i \in DOMAIN f.ring : ~f.ring[i].mod => f.ring[i].text = f.ring[i].base
    BY <1>1, <1>4, <1>6 DEF Standing
  <2>2. pc \in (Early \cup Late) \ {"prompt"} => f.save.name \in Names
    BY <1>1, <1>4 DEF Standing, e, Early, Late
  <2>3. pc \in Early \cup Late /\ f.save.mark => f.ring[1].text # <<>>
    BY <1>1, <1>4 DEF Standing, e
  <2>4. f.save.backed => f.save.name \in Names /\ pc \notin Early
    BY <1>1, <1>4 DEF Standing, e
  <2>5. f.pc = "closing" /\ ~f.ring[1].told => f.ring[1].text = f.ring[1].base
    BY <1>4 DEF e
  <2>6. f.pc \notin {"lock", "stat file"}
    BY <1>4, <1>5 DEF Opening
  <2> QED
    BY <1>4, <1>5, <2>1, <2>2, <2>3, <2>4, <2>5, <2>6 DEF Standing
<1> QED
  BY <1>2, <1>3, <1>4, <1>7 DEF e, f

LEMMA GotoKeeps ==
  ASSUME Inv, NEW p \in Editors, NEW pc, pc \in Early \cup Late \cup {"idle", "closing"},
         editor[p].pc \in Early \cup Late \cup {"idle"}, Goto(p, pc),
         WorldOK', UNCHANGED <<lock, backup, rescue>>,
         pc \in Early \cup Late => editor[p].pc \in Early \cup Late,
         pc \notin {"prompt", "idle", "closing"} => editor[p].pc # "prompt",
         pc \in Early => editor[p].pc \in Early,
         pc = "closing" => LET b == editor[p].ring[1] IN b.told \/ b.text = b.base
  PROVE  Inv'
<1> DEFINE f == [editor[p] EXCEPT !.pc = pc]
<1>1. /\ editor' = [editor EXCEPT ![p] = f] /\ IsEditor(f) /\ Standing(f)
      /\ f.pc = pc /\ f.ring = editor[p].ring /\ f.save = editor[p].save
      /\ editor[p].pc \in Working /\ pc \in Working
  BY GotoIs
<1> HIDE DEF f
<1> QED
  BY <1>1, WorkKeeps

(* Going to another place with the answers of the user, or the like.       *)
LEMMA SaveKeeps ==
  ASSUME Inv, NEW p \in Editors, NEW pc, pc \in Early \cup Late,
         editor[p].pc \in Early \cup Late \cup {"idle"}, NEW s \in SaveRecord, NEW f,
         editor' = [editor EXCEPT ![p] = f],
         \/ f = [editor[p] EXCEPT !.pc = pc, !.save = s]
         \/ f = [editor[p] EXCEPT !.save = s, !.pc = pc],
         WorldOK', UNCHANGED <<lock, backup, rescue>>,
         pc # "prompt" => s.name \in Names,
         s.mark => editor[p].ring[1].text # <<>>,
         s.backed => /\ pc \notin Early /\ editor[p].save.backed
                     /\ s.name = editor[p].save.name /\ s.old = editor[p].save.old
  PROVE  Inv'
<1> DEFINE e == editor[p]
<1>1. IsEditor(e) /\ Standing(e) /\ TypeOK
  BY DEF Inv, TypeOK
<1>2. pc \in Pc /\ e.pc \in Working /\ pc \in Working
  BY DEF Pc, Working, Early, Late, Closed, Ending3
<1>3. f = [e EXCEPT !.pc = pc, !.save = s] \/ f = [e EXCEPT !.save = s, !.pc = pc]
  OBVIOUS
<1>4. IsEditor(f) /\ f.pc = pc /\ f.ring = e.ring /\ f.save = s /\ SameRest(f, e)
  <2> HIDE DEF e
  <2>1. /\ DOMAIN f = Fields /\ f.pc = pc /\ f.ring = e.ring /\ f.save = s /\ f.args = e.args
        /\ f.up = e.up /\ f.todo = e.todo /\ f.slot = e.slot /\ f.missed = e.missed
        /\ f.owed = e.owed
    <3>1. DOMAIN e = Fields
      BY <1>1 DEF IsEditor
    <3> QED
      BY ONLY <1>3, <3>1 DEF Fields
  <2>2. IsEditor(e) /\ pc \in Pc /\ s \in SaveRecord
    BY <1>1, <1>2
  <2> QED
    BY ONLY <2>1, <2>2 DEF IsEditor, SameRest
<1>5. /\ e.ring # <<>>
      /\ pc \notin Opening \cup {"finish", "dying", "rescue", "closing", "lock", "stat file"}
  BY <1>1 DEF Standing, Early, Late, Opening, Bufferless
<1>6. e.pc \notin Ending3 \cup {"cut", "killed"}
  BY DEF Early, Late, Ending3
<1> HIDE DEF e
<1>7. Standing(f)
  <2>1. \A i \in DOMAIN f.ring : ~f.ring[i].mod => f.ring[i].text = f.ring[i].base
    BY <1>1, <1>4, <1>6 DEF Standing
  <2>2. s.backed => s.name \in Names /\ pc \notin Early
    BY <1>1 DEF Standing, e
  <2> QED
    BY <1>4, <1>5, <2>1, <2>2 DEF Standing, e
<1> QED
  BY <1>2, <1>4, <1>7, WorkKeeps DEF e

(* Going to another place with new stat information.                       *)
LEMMA SimilarIs ==
  ASSUME Inv, NEW p \in Editors, editor[p].pc \in Working, editor[p].ring # <<>>,
         NEW pc \in Working, NEW b \in Buffer, Similar(b, editor[p].ring[1]),
         pc \notin {"closing", "lock", "stat file", "prompt"},
         pc \in Opening => editor[p].pc \in Opening,
         pc \in Early \cup Late => editor[p].pc \in (Early \cup Late) \ {"prompt"},
         pc \in Early => editor[p].pc \in Early
  PROVE  LET f == WithCur([editor[p] EXCEPT !.pc = pc], b)
         IN  /\ IsEditor(f) /\ Standing(f) /\ f.pc = pc /\ f.save = editor[p].save
             /\ Len(f.ring) = Len(editor[p].ring)
             /\ \A i \in 1 .. Len(f.ring) : f.ring[i].lock = editor[p].ring[i].lock
<1> DEFINE e == editor[p]
           g == [e EXCEPT !.pc = pc]
           f == WithCur(g, b)
<1>1. IsEditor(e) /\ Standing(e) /\ TypeOK
  BY DEF Inv, TypeOK
<1>2. e.ring # <<>> /\ e.pc \notin Ending3 \cup {"cut", "killed"} /\ pc \in Pc
  BY DEF Working
<1>3. Len(e.ring) \in Nat \ {0} /\ DOMAIN e.ring = 1 .. Len(e.ring)
  BY <1>1, <1>2, CurIs
<1>4. IsEditor(g) /\ g.pc = pc /\ g.ring = e.ring /\ g.save = e.save /\ SameRest(g, e)
  BY <1>1, <1>2, PcChanges
<1> HIDE DEF g, f, e
<1>5. /\ IsEditor(f) /\ f.pc = pc /\ f.save = e.save /\ SameRest(f, g)
      /\ f.ring # <<>> /\ Len(f.ring) = Len(e.ring) /\ DOMAIN f.ring = DOMAIN e.ring
      /\ f.ring[1] = b
      /\ \A i \in 2 .. Len(e.ring) : f.ring[i] = e.ring[i]
  <2>1. b \in Buffer /\ g.ring # <<>> /\ IsEditor(g)
    BY <1>2, <1>4
  <2> QED
    BY ONLY <1>4, <2>1, WithCurIs DEF f
<1>6. \A i \in 1 .. Len(e.ring) : Similar(f.ring[i], e.ring[i])
  <2>1. \A i \in 1 .. Len(e.ring) : i = 1 \/ i \in 2 .. Len(e.ring)
    BY ONLY <1>3
  <2> QED
    BY <1>5, <2>1 DEF Similar, e
<1>7. Standing(f)
  <2>1. \A i \in DOMAIN f.ring : ~f.ring[i].mod => f.ring[i].text = f.ring[i].base
    BY <1>1, <1>2, <1>3, <1>5, <1>6 DEF Standing, Similar
  <2>2. pc \notin {"finish", "dying", "rescue", "closing", "lock", "stat file"}
    BY DEF Working, Closed, Ending3
  <2>3. pc \in Opening => f.args # <<>>
    BY <1>1, <1>4, <1>5 DEF Standing, SameRest, e
  <2>4. pc \in Early \cup Late =>
          f.save.name \in Names /\ (f.save.mark => f.ring[1].text # <<>>)
    BY <1>1, <1>5 DEF Standing, Similar, e
  <2>5. f.save.backed => f.save.name \in Names /\ pc \notin Early
    BY <1>1, <1>5 DEF Standing, e
  <2> QED
    BY <1>5, <2>1, <2>2, <2>3, <2>4, <2>5 DEF Standing
<1>8. \A i \in 1 .. Len(f.ring) : f.ring[i].lock = e.ring[i].lock
  BY <1>5, <1>6 DEF Similar
<1> QED
  BY <1>5, <1>7, <1>8 DEF e, f, g

LEMMA SimilarKeeps ==
  ASSUME Inv, NEW p \in Editors, editor[p].pc \in Working, editor[p].ring # <<>>,
         NEW pc \in Working, NEW b \in Buffer, Similar(b, editor[p].ring[1]),
         pc \notin {"closing", "lock", "stat file", "prompt"},
         pc \in Opening => editor[p].pc \in Opening,
         pc \in Early \cup Late => editor[p].pc \in (Early \cup Late) \ {"prompt"},
         pc \in Early => editor[p].pc \in Early,
         editor' = [editor EXCEPT ![p] = WithCur([editor[p] EXCEPT !.pc = pc], b)],
         WorldOK', UNCHANGED <<lock, backup, rescue>>
  PROVE  Inv'
<1> DEFINE f == WithCur([editor[p] EXCEPT !.pc = pc], b)
<1>1. /\ IsEditor(f) /\ Standing(f) /\ f.pc = pc /\ f.save = editor[p].save
      /\ Len(f.ring) = Len(editor[p].ring)
      /\ \A i \in 1 .. Len(f.ring) : f.ring[i].lock = editor[p].ring[i].lock
  BY SimilarIs
<1>2. editor' = [editor EXCEPT ![p] = f]
  OBVIOUS
<1> HIDE DEF f
<1> QED
  BY <1>1, <1>2, WorkKeeps

(* A failed save leaves the buffer open.                                   *)
LEMMA FailedIs ==
  ASSUME Inv, NEW p \in Editors, editor[p].pc \in (Early \cup Late) \ {"prompt"},
         NEW full \in BOOLEAN, NEW files \in [Names -> File], Failed(p, full, files)
  PROVE  \E f :
           /\ editor' = [editor EXCEPT ![p] = f] /\ IsEditor(f) /\ Standing(f)
           /\ f.pc = "idle" /\ f.save = editor[p].save /\ Len(f.ring) = Len(editor[p].ring)
           /\ \A i \in 1 .. Len(f.ring) : f.ring[i].lock = editor[p].ring[i].lock
<1> DEFINE b == IF full THEN Restatted(Cur(p), files, Target(p)) ELSE Cur(p)
           f == WithCur([editor[p] EXCEPT !.pc = "idle"], b)
<1>1. Standing(editor[p]) /\ TypeOK
  BY DEF Inv
<1>2. editor[p].ring # <<>> /\ Target(p) \in Names
  BY <1>1 DEF Standing, Early, Late, Bufferless, Target, Save
<1>3. Cur(p) = editor[p].ring[1] /\ Cur(p) \in Buffer
  BY <1>1, <1>2, CurIs
<1>4. b \in Buffer /\ Similar(b, editor[p].ring[1])
  <2>1. Similar(Cur(p), Cur(p))
    BY DEF Similar
  <2> QED
    BY <1>2, <1>3, <2>1, RestattedIs
<1>5. editor[p].pc \in Working /\ "idle" \in Working /\ "idle" \notin Early \cup Late \cup Opening
  BY DEF Working, Pc, Early, Late, Opening, Closed, Ending3
<1>6. editor' = [editor EXCEPT ![p] = f]
  BY DEF Failed, AfterFailing
<1> HIDE DEF b
<1>7. /\ IsEditor(f) /\ Standing(f) /\ f.pc = "idle" /\ f.save = editor[p].save
      /\ Len(f.ring) = Len(editor[p].ring)
      /\ \A i \in 1 .. Len(f.ring) : f.ring[i].lock = editor[p].ring[i].lock
  BY <1>2, <1>4, <1>5, SimilarIs
<1> HIDE DEF f
<1> QED
  BY <1>6, <1>7

LEMMA FailedKeeps ==
  ASSUME Inv, NEW p \in Editors, editor[p].pc \in (Early \cup Late) \ {"prompt"},
         NEW full \in BOOLEAN, NEW files \in [Names -> File], Failed(p, full, files),
         WorldOK', UNCHANGED <<lock, backup, rescue>>
  PROVE  Inv'
<1>1. PICK f :
        /\ editor' = [editor EXCEPT ![p] = f] /\ IsEditor(f) /\ Standing(f)
        /\ f.pc = "idle" /\ f.save = editor[p].save /\ Len(f.ring) = Len(editor[p].ring)
        /\ \A i \in 1 .. Len(f.ring) : f.ring[i].lock = editor[p].ring[i].lock
  BY FailedIs
<1>2. editor[p].pc \in Working /\ f.pc \in Working
  BY <1>1 DEF Working, Pc, Early, Late, Closed, Ending3
<1> QED
  BY <1>1, <1>2, WorkKeeps

(* The user drops the buffer.                                              *)
LEMMA DroppedKeeps ==
  ASSUME Inv, NEW p \in Editors, editor[p].pc \in Early \cup Late \cup {"idle"}, Dropped(p),
         WorldOK', UNCHANGED <<lock, backup, rescue>>
  PROVE  Inv'
<1> DEFINE e == editor[p]
           b == [e.ring[1] EXCEPT !.told = TRUE]
           r == [e.ring EXCEPT ![1] = b]
           f == [e EXCEPT !.pc = "closing", !.ring = r]
<1>1. IsEditor(e) /\ Standing(e) /\ TypeOK
  BY DEF Inv, TypeOK
<1>2. e.ring # <<>> /\ e.pc \notin Ending3 \cup {"cut", "killed"}
  BY <1>1 DEF Standing, Early, Late, Bufferless, Ending3
<1>3. e.ring[1] \in Buffer /\ Len(e.ring) \in Nat \ {0} /\ DOMAIN e.ring = 1 .. Len(e.ring)
      /\ e.ring \in Seq(Buffer)
  BY <1>1, <1>2, CurIs DEF IsEditor
<1>4. /\ b \in Buffer /\ b.lock = e.ring[1].lock /\ b.mod = e.ring[1].mod /\ b.told = TRUE
      /\ b.text = e.ring[1].text /\ b.base = e.ring[1].base
  BY <1>3 DEF Buffer
<1>5. editor' = [editor EXCEPT ![p] = f]
  BY <1>1 DEF Dropped, TypeOK
<1>6. "closing" \in Pc /\ "closing" \in Working /\ e.pc \in Working
  BY DEF Pc, Working, Early, Late, Closed, Ending3
<1> HIDE DEF b, e
<1>7. /\ r \in Seq(Buffer) /\ r # <<>> /\ Len(r) = Len(e.ring) /\ DOMAIN r = DOMAIN e.ring
      /\ r[1] = b
      /\ \A i \in 2 .. Len(e.ring) : r[i] = e.ring[i]
  BY <1>2, <1>3, <1>4, FirstChanged
<1> HIDE DEF r
<1>8. IsEditor(f) /\ f.pc = "closing" /\ f.ring = r /\ f.save = e.save /\ SameRest(f, e)
  BY <1>1, <1>6, <1>7, RingChanges
<1> HIDE DEF f
<1>9. \A i \in 1 .. Len(e.ring) : i = 1 \/ i \in 2 .. Len(e.ring)
  BY <1>3
<1>10. Standing(f)
  <2>1. ASSUME NEW i \in DOMAIN f.ring, ~f.ring[i].mod
        PROVE  f.ring[i].text = f.ring[i].base
    <3>1. i \in 1 .. Len(e.ring) /\ i \in DOMAIN e.ring
      BY <1>3, <1>7, <1>8
    <3>2. ~e.ring[i].mod => e.ring[i].text = e.ring[i].base
      BY <1>1, <1>2, <3>1 DEF Standing
    <3>3. CASE i = 1
      BY <1>4, <1>7, <1>8, <2>1, <3>2, <3>3
    <3>4. CASE i \in 2 .. Len(e.ring)
      BY <1>7, <1>8, <2>1, <3>2, <3>4
    <3> QED
      BY <1>9, <3>1, <3>3, <3>4
  <2> QED
    BY <1>1, <1>4, <1>7, <1>8, <2>1 DEF Standing, Early, Late, Opening
<1>11. \A i \in 1 .. Len(f.ring) : f.ring[i].lock = e.ring[i].lock
  BY <1>4, <1>7, <1>8, <1>9
<1>12. f.pc \in Working /\ Len(f.ring) = Len(e.ring) /\ f.save = e.save
  BY <1>6, <1>7, <1>8
<1> QED
  BY <1>5, <1>6, <1>8, <1>10, <1>11, <1>12, WorkKeeps DEF e

(* What an editor that is saving stands on.                                *)
LEMMA SavingFacts ==
  ASSUME Inv, NEW p \in Editors, editor[p].pc \in Early \cup Late
  PROVE  /\ IsEditor(editor[p]) /\ Standing(editor[p]) /\ TypeOK /\ WorldOK
         /\ editor[p].save \in SaveRecord
         /\ editor[p].ring # <<>> /\ editor[p].ring[1] \in Buffer /\ Cur(p) = editor[p].ring[1]
         /\ editor[p].pc # "prompt" => Target(p) \in Names
         /\ editor[p].pc \in Early => ~editor[p].save.backed
         /\ editor[p].save.mark => editor[p].ring[1].text # <<>>
<1>1. IsEditor(editor[p]) /\ Standing(editor[p]) /\ TypeOK /\ WorldOK
  BY DEF Inv, TypeOK
<1>2. editor[p].ring # <<>>
  BY <1>1 DEF Standing, Early, Late, Bufferless
<1>3. editor[p].ring[1] \in Buffer /\ Cur(p) = editor[p].ring[1]
  BY <1>1, <1>2, CurIs
<1> QED
  BY <1>1, <1>2, <1>3 DEF IsEditor, Standing, Target, Save

LEMMA PromptKeeps ==
  ASSUME Inv, NEW p \in Editors, Prompt(p)
  PROVE  Inv'
<1> DEFINE e == editor[p]
<1>1. e.pc = "prompt" /\ UNCHANGED <<file, stored, world, spent>>
  BY DEF Prompt, At
<1>2. WorldOK' /\ UNCHANGED <<lock, backup, rescue>>
  BY <1>1, SameWorld
<1>3. /\ IsEditor(e) /\ TypeOK /\ e.save \in SaveRecord /\ ~e.save.backed
      /\ e.save.mark => e.ring[1].text # <<>>
      /\ Cur(p) \in Buffer
  BY <1>1, SavingFacts DEF Early
<1>4. ASSUME NEW n \in Names, NEW method \in Method,
             editor' = [editor EXCEPT ![p].save.name = n, ![p].save.method = method,
                                      ![p].pc = IF method = "OVERWRITE" THEN "check" ELSE "stat"]
      PROVE  Inv'
  <2> DEFINE pc == IF method = "OVERWRITE" THEN "check" ELSE "stat"
             s == [e.save EXCEPT !.name = n, !.method = method]
             f == [e EXCEPT !.save = s, !.pc = pc]
  <2>1. editor' = [editor EXCEPT ![p] = f]
    <3> HIDE DEF pc
    <3>1. editor' = [editor EXCEPT ![p].save.name = n, ![p].save.method = method, ![p].pc = pc]
      BY <1>4 DEF pc
    <3> QED
      BY <1>3, <3>1 DEF TypeOK, IsEditor, Fields
  <2>2. /\ s \in SaveRecord /\ s.name = n /\ s.mark = e.save.mark /\ s.backed = e.save.backed
    BY <1>3 DEF SaveRecord, NameOrNot
  <2>3. pc \in Early \cup Late /\ e.pc \in Early \cup Late \cup {"idle"}
    BY <1>1 DEF Early
  <2>4. f = [editor[p] EXCEPT !.pc = pc, !.save = s] \/ f = [editor[p] EXCEPT !.save = s, !.pc = pc]
    OBVIOUS
  <2>5. s.name \in Names /\ ~s.backed /\ (s.mark => editor[p].ring[1].text # <<>>)
    BY <1>3, <2>2
  <2> HIDE DEF s, pc, f
  <2> QED
    BY <1>2, <2>1, <2>2, <2>3, <2>4, <2>5, SaveKeeps
<1>5. CASE Goto(p, "idle")
  BY <1>1, <1>2, <1>5, GotoKeeps DEF Early
<1>6. CASE Dropped(p)
  BY <1>1, <1>2, <1>6, DroppedKeeps DEF Early
<1>7. \A n : n \in scenario.methods => n \in Method
  BY <1>3, ScenariosAssumption DEF TypeOK, WorldOK, Method
<1>8. "OVERWRITE" \in Method /\ (Cur(p).name # NoName => Cur(p).name \in Names)
  BY <1>3 DEF Method, Buffer, NameOrNot
<1> HIDE DEF e
<1> QED
  BY <1>4, <1>5, <1>6, <1>7, <1>8 DEF Prompt

LEMMA SeenIs ==
  ASSUME WorldOK, NEW n \in Names
  PROVE  Seen(n) \in [text : Text, stat : Stamps]
BY DEF WorldOK, Seen, StatIn, File, Stamps, NameOrNot

LEMMA CheckKeeps ==
  ASSUME Inv, NEW p \in Editors, Check(p)
  PROVE  Inv'
<1> DEFINE e == editor[p]
<1>1. e.pc = "check" /\ UNCHANGED <<file, stored, world, spent>>
  BY DEF Check, At
<1>2. WorldOK' /\ UNCHANGED <<lock, backup, rescue>>
  BY <1>1, SameWorld
<1>3. /\ IsEditor(e) /\ TypeOK /\ WorldOK /\ e.save \in SaveRecord /\ ~e.save.backed
      /\ e.save.mark => e.ring[1].text # <<>>
      /\ Target(p) \in Names
  BY <1>1, SavingFacts DEF Early
<1>4. ASSUME NEW pc \in {"overwrite?", "stat", "continue?"},
             editor' = [editor EXCEPT ![p].pc = pc, ![p].save.asked = FALSE,
                                      ![p].save.seen = Seen(Save(p).name)]
      PROVE  Inv'
  <2> DEFINE t == Seen(Save(p).name)
             s == [e.save EXCEPT !.asked = FALSE, !.seen = t]
             f == [e EXCEPT !.pc = pc, !.save = s]
  <2>1. t \in [text : Text, stat : Stamps]
    BY <1>3, SeenIs DEF Target
  <2>2. editor' = [editor EXCEPT ![p] = f]
    <3> HIDE DEF t
    <3>1. editor' = [editor EXCEPT ![p].pc = pc, ![p].save.asked = FALSE, ![p].save.seen = t]
      BY <1>4 DEF t
    <3> QED
      BY <1>3, <3>1 DEF TypeOK, IsEditor, Fields
  <2> HIDE DEF t
  <2>3. /\ s \in SaveRecord /\ s.name = e.save.name /\ s.mark = e.save.mark
        /\ s.backed = e.save.backed
    BY <1>3, <2>1 DEF SaveRecord
  <2>4. pc \in Early \cup Late /\ e.pc \in Early \cup Late \cup {"idle"}
    BY <1>1 DEF Early
  <2>5. f = [editor[p] EXCEPT !.pc = pc, !.save = s] \/ f = [editor[p] EXCEPT !.save = s, !.pc = pc]
    OBVIOUS
  <2>6. s.name \in Names /\ ~s.backed /\ (s.mark => editor[p].ring[1].text # <<>>)
    BY <1>3, <2>3 DEF Target, Save
  <2> HIDE DEF s, f
  <2> QED
    BY <1>2, <2>2, <2>3, <2>4, <2>5, <2>6, SaveKeeps
<1>5. CASE Goto(p, "prompt")
  BY <1>1, <1>2, <1>5, GotoKeeps DEF Early
<1> HIDE DEF e
<1> QED
  BY <1>4, <1>5 DEF Check

LEMMA AnswerOverwriteKeeps ==
  ASSUME Inv, NEW p \in Editors, AnswerOverwrite(p)
  PROVE  Inv'
<1> DEFINE e == editor[p]
<1>1. e.pc = "overwrite?" /\ UNCHANGED <<file, stored, world, spent>>
  BY DEF AnswerOverwrite, At
<1>2. WorldOK' /\ UNCHANGED <<lock, backup, rescue>>
  BY <1>1, SameWorld
<1>3. /\ IsEditor(e) /\ TypeOK /\ e.save \in SaveRecord /\ ~e.save.backed
      /\ e.save.mark => e.ring[1].text # <<>>
      /\ e.save.name \in Names
  BY <1>1, SavingFacts DEF Early, Target, Save
<1>4. CASE editor' = [editor EXCEPT ![p].pc = "stat", ![p].save.asked = TRUE]
  <2> DEFINE s == [e.save EXCEPT !.asked = TRUE]
             f == [e EXCEPT !.pc = "stat", !.save = s]
  <2>1. editor' = [editor EXCEPT ![p] = f]
    BY <1>3, <1>4 DEF TypeOK, IsEditor, Fields
  <2>2. /\ s \in SaveRecord /\ s.name = e.save.name /\ s.mark = e.save.mark
        /\ s.backed = e.save.backed
    BY <1>3 DEF SaveRecord
  <2>3. "stat" \in Early \cup Late /\ e.pc \in Early \cup Late \cup {"idle"}
    BY <1>1 DEF Early
  <2>4. \/ f = [editor[p] EXCEPT !.pc = "stat", !.save = s]
        \/ f = [editor[p] EXCEPT !.save = s, !.pc = "stat"]
    OBVIOUS
  <2>5. s.name \in Names /\ ~s.backed /\ (s.mark => editor[p].ring[1].text # <<>>)
    BY <1>3, <2>2
  <2> HIDE DEF s, f
  <2> QED
    BY <1>2, <2>1, <2>2, <2>3, <2>4, <2>5, SaveKeeps
<1>5. CASE Goto(p, "prompt")
  BY <1>1, <1>2, <1>5, GotoKeeps DEF Early
<1> QED
  BY <1>4, <1>5 DEF AnswerOverwrite

LEMMA AnswerContinueKeeps ==
  ASSUME Inv, NEW p \in Editors, AnswerContinue(p)
  PROVE  Inv'
<1> DEFINE e == editor[p]
<1>1. e.pc = "continue?" /\ UNCHANGED <<file, stored, world, spent>>
  BY DEF AnswerContinue, At
<1>2. WorldOK' /\ UNCHANGED <<lock, backup, rescue>>
  BY <1>1, SameWorld
<1>3. /\ IsEditor(e) /\ TypeOK /\ e.save \in SaveRecord /\ ~e.save.backed
      /\ e.save.mark => e.ring[1].text # <<>>
      /\ e.save.name \in Names
  BY <1>1, SavingFacts DEF Early, Target, Save
<1>4. ASSUME NEW a \in BOOLEAN,
             editor' = [editor EXCEPT ![p].pc = "stat", ![p].save.asked = TRUE,
                                      ![p].save.annotate = a]
      PROVE  Inv'
  <2> DEFINE s == [e.save EXCEPT !.asked = TRUE, !.annotate = a]
             f == [e EXCEPT !.pc = "stat", !.save = s]
  <2>1. editor' = [editor EXCEPT ![p] = f]
    BY <1>3, <1>4 DEF TypeOK, IsEditor, Fields
  <2>2. /\ s \in SaveRecord /\ s.name = e.save.name /\ s.mark = e.save.mark
        /\ s.backed = e.save.backed
    BY <1>3 DEF SaveRecord
  <2>3. "stat" \in Early \cup Late /\ e.pc \in Early \cup Late \cup {"idle"}
    BY <1>1 DEF Early
  <2>4. \/ f = [editor[p] EXCEPT !.pc = "stat", !.save = s]
        \/ f = [editor[p] EXCEPT !.save = s, !.pc = "stat"]
    OBVIOUS
  <2>5. s.name \in Names /\ ~s.backed /\ (s.mark => editor[p].ring[1].text # <<>>)
    BY <1>3, <2>2
  <2> HIDE DEF s, f
  <2> QED
    BY <1>2, <2>1, <2>2, <2>3, <2>4, <2>5, SaveKeeps
<1>5. CASE Goto(p, "prompt")
  BY <1>1, <1>2, <1>5, GotoKeeps DEF Early
<1>6. CASE Goto(p, "idle")
  BY <1>1, <1>2, <1>6, GotoKeeps DEF Early
<1>7. CASE Dropped(p)
  BY <1>1, <1>2, <1>7, DroppedKeeps DEF Early
<1> DEFINE tool == Option("SAVE_ON_EXIT") /\ Save(p).prompt
           a == ~tool
<1>8. a \in BOOLEAN
  OBVIOUS
<1>9. \/ editor' = [editor EXCEPT ![p].pc = "stat", ![p].save.asked = TRUE,
                                  ![p].save.annotate = a]
      \/ Dropped(p) \/ Goto(p, "idle") \/ Goto(p, "prompt")
  BY DEF AnswerContinue
<1> HIDE DEF e, a
<1> QED
  BY <1>4, <1>5, <1>6, <1>7, <1>8, <1>9

LEMMA OnwardIs ==
  ASSUME NEW p \in Editors
  PROVE  Onward(p) \in Late /\ Onward(p) \in Working /\ Onward(p) \in {"prepend", "open file"}
BY DEF Onward, Late, Working, Pc, Closed, Ending3

LEMMA StatTargetKeeps ==
  ASSUME Inv, NEW p \in Editors, StatTarget(p)
  PROVE  Inv'
<1> DEFINE n == Target(p)
           b == IF Cur(p).stat = NoStat /\ Exists(n) THEN Restatted(Cur(p), file, n) ELSE Cur(p)
           backs == /\ Option("MAKE_BACKUP") /\ Exists(n)
                    /\ b.stat.mtime = file[n].mtime \/ Save(p).method # "OVERWRITE" \/ Save(p).mark
           pc == IF backs THEN "backup" ELSE Onward(p)
<1>1. editor[p].pc = "stat" /\ UNCHANGED <<file, stored, world, spent>>
  BY DEF StatTarget, At
<1>2. WorldOK' /\ UNCHANGED <<lock, backup, rescue>>
  BY <1>1, SameWorld
<1>3. /\ WorldOK /\ Target(p) \in Names /\ editor[p].ring # <<>>
      /\ editor[p].ring[1] \in Buffer /\ Cur(p) = editor[p].ring[1]
  BY <1>1, SavingFacts DEF Early
<1>4. b \in Buffer /\ Similar(b, editor[p].ring[1])
  <2>1. Similar(Cur(p), Cur(p))
    BY DEF Similar
  <2>2. file \in [Names -> File]
    BY <1>3 DEF WorldOK
  <2> QED
    BY <1>3, <2>1, <2>2, RestattedIs
<1>5. pc \in {"backup", "prepend", "open file"}
  BY OnwardIs
<1>6. editor' = [editor EXCEPT ![p] = WithCur([editor[p] EXCEPT !.pc = pc], b)]
  BY DEF StatTarget
<1> HIDE DEF b, pc
<1>7. /\ editor[p].pc \in Working /\ pc \in Working
      /\ pc \notin {"closing", "lock", "stat file", "prompt"} /\ pc \notin Opening
      /\ editor[p].pc \in (Early \cup Late) \ {"prompt"} /\ editor[p].pc \in Early
  BY <1>1, <1>5 DEF Working, Pc, Early, Late, Opening, Closed, Ending3
<1> QED
  BY <1>2, <1>3, <1>4, <1>6, <1>7, SimilarKeeps

LEMMA CreateBackupKeeps ==
  ASSUME Inv, NEW p \in Editors, CreateBackup(p)
  PROVE  Inv'
<1> DEFINE n == Target(p)
           c == [NoCopy EXCEPT !.by = p]
           f == [editor[p] EXCEPT !.pc = "copy"]
<1>1. /\ editor[p].pc = "backup" /\ Goto(p, "copy")
      /\ backup' = [backup EXCEPT ![n] = c]
      /\ UNCHANGED <<file, home, rescue, searchlog, world, spent>>
  BY DEF CreateBackup, At
<1>2. WorldOK /\ n \in Names /\ ~editor[p].save.backed
  BY <1>1, SavingFacts DEF Early
<1>3. c \in Backup /\ c.by = p
  <2>1. NoCopy \in Backup
    BY EmptySeq DEF NoCopy, Backup, Text
  <2> QED
    BY <2>1 DEF Backup
<1>4. WorldOK'
  BY <1>1, <1>2, <1>3 DEF WorldOK, world
<1>5. UNCHANGED <<lock, rescue>>
  BY <1>1 DEF world
<1> HIDE DEF c
<1>6. /\ editor' = [editor EXCEPT ![p] = f] /\ IsEditor(f) /\ Standing(f)
      /\ f.pc = "copy" /\ f.ring = editor[p].ring /\ f.save = editor[p].save
      /\ editor[p].pc \in Working /\ "copy" \in Working
  BY <1>1, GotoIs DEF Early
<1> HIDE DEF f
<1>7. \A m \in Names : lock'[m].by = p => Holds(f, m)
  <2> SUFFICES ASSUME NEW m \in Names, lock[m].by = p
               PROVE  Holds(f, m)
    BY <1>5
  <2>1. Holds(editor[p], m)
    BY DEF Inv, LocksHeld
  <2> QED
    BY <1>1, <1>6, <2>1 DEF Holds, Held, Closed
<1>8. \A m \in Names : lock'[m].by \in {lock[m].by, p, Nobody, Garbled}
  BY <1>5
<1>9. BackupHolds(f, p, backup')
  BY <1>2, <1>6 DEF BackupHolds
<1>10. \A m \in Names : backup'[m] = backup[m] \/ backup'[m].by \in {p, Nobody}
  BY <1>1, <1>2, <1>3 DEF WorldOK
<1>11. RescueOf(f, p, rescue') /\ Grown(rescue, rescue')
  BY <1>5, <1>6 DEF RescueOf, Ending3, Grown
<1> QED
  BY <1>4, <1>6, <1>7, <1>8, <1>9, <1>10, <1>11, StepKeeps

LEMMA CopyToBackupKeeps ==
  ASSUME Inv, NEW p \in Editors, CopyToBackup(p)
  PROVE  Inv'
<1> DEFINE e == editor[p]
           n == Target(p)
           mine == backup[n].by = p
           t == file[n].text
           c == Copied(p, n)
           s == [e.save EXCEPT !.backed = mine, !.old = t]
           pc == Onward(p)
           f == [e EXCEPT !.pc = pc, !.save = s]
<1>1. /\ e.pc = "copy"
      /\ backup' = IF mine THEN [backup EXCEPT ![n] = c] ELSE backup
      /\ editor' = [editor EXCEPT ![p].pc = pc, ![p].save.backed = mine, ![p].save.old = t]
      /\ UNCHANGED <<file, home, rescue, searchlog, world, spent>>
  BY DEF CopyToBackup, At
<1>2. /\ WorldOK /\ TypeOK /\ n \in Names /\ n = e.save.name /\ IsEditor(e) /\ Standing(e)
      /\ e.save \in SaveRecord /\ e.ring # <<>> /\ (e.save.mark => e.ring[1].text # <<>>)
  BY <1>1, SavingFacts DEF Early, Target, Save
<1>3. t \in Text /\ mine \in BOOLEAN
  BY <1>2 DEF WorldOK, File
<1>4. c \in Backup /\ c.by = p /\ c.text = t /\ c.synced = t
  BY <1>3 DEF Copied, Backup
<1>5. WorldOK'
  <2>1. backup' \in [Names -> Backup]
    BY <1>1, <1>2, <1>4 DEF WorldOK
  <2> QED
    BY <1>1, <1>2, <2>1 DEF WorldOK, world
<1>6. UNCHANGED <<lock, rescue>>
  BY <1>1 DEF world
<1>7. pc \in Late /\ pc \in Working /\ pc \in {"prepend", "open file"}
  BY OnwardIs
<1>8. backup'[n].by = p => backup'[n].text = t /\ backup'[n].synced = t /\ mine
  BY <1>1, <1>2, <1>4 DEF WorldOK
<1>9. \A m \in Names : backup'[m] = backup[m] \/ backup'[m].by \in {p, Nobody}
  BY <1>1, <1>2, <1>4 DEF WorldOK
<1> HIDE DEF c, pc, t, mine
<1>10. editor' = [editor EXCEPT ![p] = f]
  BY <1>1, <1>2 DEF TypeOK, IsEditor, Fields
<1>11. /\ s \in SaveRecord /\ s.name = n /\ s.mark = e.save.mark /\ s.backed = mine /\ s.old = t
  BY <1>2, <1>3 DEF SaveRecord
<1> HIDE DEF s, e, n
<1>12. IsEditor(f) /\ f.pc = pc /\ f.ring = e.ring /\ f.save = s /\ SameRest(f, e)
  <2>1. /\ DOMAIN f = Fields /\ f.pc = pc /\ f.ring = e.ring /\ f.save = s /\ f.args = e.args
        /\ f.up = e.up /\ f.todo = e.todo /\ f.slot = e.slot /\ f.missed = e.missed
        /\ f.owed = e.owed
    BY <1>2 DEF IsEditor, Fields
  <2> HIDE DEF f
  <2> QED
    BY <1>2, <1>7, <1>11, <2>1 DEF IsEditor, SameRest, Working
<1> HIDE DEF f
<1>13. Standing(f)
  <2>1. \A i \in DOMAIN f.ring : ~f.ring[i].mod => f.ring[i].text = f.ring[i].base
    BY <1>1, <1>2, <1>12 DEF Standing, Ending3
  <2>2. pc \notin {"finish", "dying", "rescue", "closing", "lock", "stat file"}
                   \cup Early \cup Opening
    BY <1>7 DEF Early, Opening
  <2> QED
    BY <1>2, <1>11, <1>12, <2>1, <2>2 DEF Standing
<1>14. \A m \in Names : lock'[m].by = p => Holds(f, m)
  <2> SUFFICES ASSUME NEW m \in Names, lock[m].by = p
               PROVE  Holds(f, m)
    BY <1>6
  <2>1. Holds(e, m)
    BY DEF Inv, LocksHeld, e
  <2> QED
    BY <1>1, <1>7, <1>12, <2>1 DEF Holds, Held, Closed
<1>15. \A m \in Names : lock'[m].by \in {lock[m].by, p, Nobody, Garbled}
  BY <1>6
<1>16. BackupHolds(f, p, backup')
  BY <1>8, <1>11, <1>12 DEF BackupHolds
<1>17. RescueOf(f, p, rescue') /\ Grown(rescue, rescue')
  BY <1>6, <1>7, <1>12 DEF RescueOf, Ending3, Grown
<1>18. editor' = [editor EXCEPT ![p] = f]
  BY <1>10
<1> QED
  BY <1>5, <1>9, <1>12, <1>13, <1>14, <1>15, <1>16, <1>17, <1>18, StepKeeps

LEMMA FailToBackupKeeps ==
  ASSUME Inv, NEW p \in Editors, FailToBackup(p)
  PROVE  Inv'
<1> DEFINE n == Target(p)
<1>1. /\ editor[p].pc = "copy" /\ backup' = [backup EXCEPT ![n] = NoCopy]
      /\ UNCHANGED <<file, rescue, searchlog, world, spent>>
      /\ \/ home' = [home EXCEPT ![n] = @ \cup {file[n].text}]
         \/ UNCHANGED home
      /\ \/ Goto(p, Onward(p))
         \/ \E full \in BOOLEAN : Failed(p, full, file)
  BY DEF FailToBackup, At
<1>2. WorldOK /\ n \in Names /\ ~editor[p].save.backed
  BY <1>1, SavingFacts DEF Early
<1>3. file \in [Names -> File] /\ file[n].text \in Text
  BY <1>2 DEF WorldOK, File
<1>4. WorldOK'
  <2>1. NoCopy \in Backup
    BY EmptySeq DEF NoCopy, Backup, Text
  <2>2. backup' \in [Names -> Backup]
    BY <1>1, <1>2, <2>1 DEF WorldOK
  <2>3. home' \in [Names -> SUBSET Text]
    <3>1. home \in [Names -> SUBSET Text]
      BY <1>2 DEF WorldOK
    <3> QED
      BY <1>1, <1>2, <1>3, <3>1
  <2>4. UNCHANGED <<file, rescue, lock, now, scenario, spent>>
    BY <1>1 DEF world
  <2> QED
    BY <1>2, <2>2, <2>3, <2>4 DEF WorldOK
<1>5. UNCHANGED <<lock, rescue>>
  BY <1>1 DEF world
<1>6. PICK f : /\ editor' = [editor EXCEPT ![p] = f] /\ IsEditor(f) /\ Standing(f)
               /\ f.pc \in {"idle", "prepend", "open file"} /\ f.save = editor[p].save
               /\ Len(f.ring) = Len(editor[p].ring)
               /\ \A i \in 1 .. Len(f.ring) : f.ring[i].lock = editor[p].ring[i].lock
  <2>1. CASE Goto(p, Onward(p))
    <3> DEFINE pc == Onward(p)
               f == [editor[p] EXCEPT !.pc = pc]
    <3>1. pc \in Late /\ pc \in {"prepend", "open file"}
      BY OnwardIs
    <3>2. /\ editor[p].pc \in Early /\ editor[p].pc # "prompt" /\ pc \notin Early
          /\ pc \in Early \cup Late \cup {"idle", "closing"} /\ pc # "closing"
          /\ Goto(p, pc)
      BY <1>1, <2>1, <3>1 DEF Early
    <3> HIDE DEF pc
    <3>3. /\ editor' = [editor EXCEPT ![p] = f] /\ IsEditor(f) /\ Standing(f)
          /\ f.pc = pc /\ f.ring = editor[p].ring /\ f.save = editor[p].save
      BY <3>2, GotoIs
    <3> HIDE DEF f
    <3> QED
      BY <3>1, <3>3
  <2>2. CASE \E full \in BOOLEAN : Failed(p, full, file)
    <3>1. editor[p].pc \in (Early \cup Late) \ {"prompt"}
      BY <1>1 DEF Early
    <3>2. PICK full \in BOOLEAN : Failed(p, full, file)
      BY <2>2
    <3>3. PICK f :
            /\ editor' = [editor EXCEPT ![p] = f] /\ IsEditor(f) /\ Standing(f)
            /\ f.pc = "idle" /\ f.save = editor[p].save /\ Len(f.ring) = Len(editor[p].ring)
            /\ \A i \in 1 .. Len(f.ring) : f.ring[i].lock = editor[p].ring[i].lock
      BY <1>3, <3>1, <3>2, FailedIs
    <3> QED
      BY <3>3
  <2> QED
    BY <1>1, <2>1, <2>2
<1>7. \A m \in Names : lock'[m].by = p => Holds(f, m)
  <2> SUFFICES ASSUME NEW m \in Names, lock[m].by = p
               PROVE  Holds(f, m)
    BY <1>5
  <2>1. Holds(editor[p], m)
    BY DEF Inv, LocksHeld
  <2> QED
    BY <1>1, <1>6, <2>1 DEF Holds, Held, Closed
<1>8. \A m \in Names : lock'[m].by \in {lock[m].by, p, Nobody, Garbled}
  BY <1>5
<1>9. BackupHolds(f, p, backup')
  BY <1>2, <1>6 DEF BackupHolds
<1>10. \A m \in Names : backup'[m] = backup[m] \/ backup'[m].by \in {p, Nobody}
  BY <1>1, <1>2 DEF WorldOK, NoCopy
<1>11. RescueOf(f, p, rescue') /\ Grown(rescue, rescue')
  BY <1>5, <1>6 DEF RescueOf, Ending3, Grown
<1> QED
  BY <1>4, <1>6, <1>7, <1>8, <1>9, <1>10, <1>11, StepKeeps

LEMMA CopyToTempKeeps ==
  ASSUME Inv, NEW p \in Editors, CopyToTemp(p)
  PROVE  Inv'
<1> DEFINE e == editor[p]
           t == file[Target(p)].text
<1>1. e.pc = "prepend" /\ UNCHANGED <<file, stored, world, spent>>
  BY DEF CopyToTemp, At
<1>2. WorldOK' /\ UNCHANGED <<lock, backup, rescue>>
  BY <1>1, SameWorld
<1>3. /\ IsEditor(e) /\ TypeOK /\ WorldOK /\ e.save \in SaveRecord
      /\ e.save.mark => e.ring[1].text # <<>>
      /\ Target(p) \in Names /\ e.save.name \in Names
  BY <1>1, SavingFacts DEF Late, Target, Save
<1>4. file \in [Names -> File] /\ t \in Text
  BY <1>3 DEF WorldOK, File
<1>5. CASE editor' = [editor EXCEPT ![p].save.temp = t, ![p].pc = "open file"]
  <2> DEFINE s == [e.save EXCEPT !.temp = t]
             f == [e EXCEPT !.save = s, !.pc = "open file"]
  <2> HIDE DEF t
  <2>1. editor' = [editor EXCEPT ![p] = f]
    BY <1>3, <1>5 DEF TypeOK, IsEditor, Fields
  <2>2. /\ s \in SaveRecord /\ s.name = e.save.name /\ s.mark = e.save.mark
        /\ s.backed = e.save.backed /\ s.old = e.save.old
    BY <1>3, <1>4 DEF SaveRecord
  <2>3. /\ "open file" \in Early \cup Late /\ e.pc \in Early \cup Late \cup {"idle"}
        /\ "open file" \notin Early
    BY <1>1 DEF Early, Late
  <2>4. \/ f = [editor[p] EXCEPT !.pc = "open file", !.save = s]
        \/ f = [editor[p] EXCEPT !.save = s, !.pc = "open file"]
    OBVIOUS
  <2>5. s.name \in Names /\ (s.mark => editor[p].ring[1].text # <<>>)
        /\ (s.backed => e.save.backed /\ s.name = e.save.name /\ s.old = e.save.old)
    BY <1>3, <2>2
  <2> HIDE DEF s, f
  <2> QED
    BY <1>2, <2>1, <2>2, <2>3, <2>4, <2>5, SaveKeeps
<1>6. ASSUME NEW full \in BOOLEAN, Failed(p, full, file)
      PROVE  Inv'
  <2>1. editor[p].pc \in (Early \cup Late) \ {"prompt"}
    BY <1>1 DEF Late
  <2> QED
    BY <1>2, <1>4, <1>6, <2>1, FailedKeeps
<1> HIDE DEF e
<1> QED
  BY <1>5, <1>6 DEF CopyToTemp

LEMMA OpenFileKeeps ==
  ASSUME Inv, NEW p \in Editors, OpenFile(p)
  PROVE  Inv'
<1> DEFINE n == Target(p)
           appending == Save(p).method = "APPEND"
           opened == [text |-> IF appending THEN file[n].text ELSE <<>>, synced |-> file[n].synced,
                      mtime |-> IF appending /\ Exists(n) THEN file[n].mtime ELSE now,
                      id |-> IF Exists(n) THEN file[n].id ELSE spent.pieces]
<1>1. /\ editor[p].pc = "open file" /\ UNCHANGED <<stored, world, spent>>
      /\ \/ file' = [file EXCEPT ![n] = opened] /\ Goto(p, "write")
         \/ UNCHANGED file /\ Failed(p, FALSE, file)
  BY DEF OpenFile, At
<1>2. WorldOK /\ n \in Names
  BY <1>1, SavingFacts DEF Late
<1>3. /\ file \in [Names -> File] /\ now \in Nat /\ file[n] \in File
      /\ spent.pieces \in Nat
  BY <1>2 DEF WorldOK
<1>4. UNCHANGED <<lock, backup, rescue>>
  BY <1>1 DEF stored, world
<1>5. opened \in File
  <2>1. <<>> \in Text
    BY EmptySeq DEF Text
  <2> QED
    BY <1>3, <2>1 DEF File
<1>6. WorldOK'
  <2> HIDE DEF opened, n
  <2>1. file' \in [Names -> File]
    BY <1>1, <1>2, <1>3, <1>5
  <2> QED
    BY <1>1, <1>2, <2>1 DEF WorldOK, stored, world
<1>7. CASE Goto(p, "write")
  <2>1. "write" \in Late /\ "write" \notin Early /\ editor[p].pc \in Late
    BY <1>1 DEF Early, Late
  <2> QED
    BY <1>1, <1>4, <1>6, <1>7, <2>1, GotoKeeps
<1>8. CASE Failed(p, FALSE, file)
  <2>1. editor[p].pc \in (Early \cup Late) \ {"prompt"}
    BY <1>1 DEF Late
  <2> QED
    BY <1>3, <1>4, <1>6, <1>8, <2>1, FailedKeeps
<1> QED
  BY <1>1, <1>7, <1>8

LEMMA WriteTextKeeps ==
  ASSUME Inv, NEW p \in Editors, WriteText(p)
  PROVE  Inv'
<1> DEFINE whole == Written(p, Content(p) \o Save(p).temp)
           part == Written(p, Torn)
<1>1. /\ editor[p].pc = "write" /\ UNCHANGED <<stored, world, spent>>
      /\ \/ file' = whole /\ Goto(p, "sync")
         \/ file' = part /\ Failed(p, TRUE, part)
  BY DEF WriteText, At
<1>2. WorldOK /\ Target(p) \in Names /\ editor[p].save \in SaveRecord
  BY <1>1, SavingFacts DEF Late
<1>3. whole \in [Names -> File] /\ part \in [Names -> File]
  <2>1. Content(p) \in Text /\ Save(p).temp \in Text
    BY <1>1, <1>2, ContentIsText DEF Late, Save, SaveRecord
  <2>2. Content(p) \o Save(p).temp \in Text
    BY <2>1, ConcatProperties DEF Text
  <2>3. Torn \in Text
    BY Single DEF Torn, Text
  <2> QED
    BY <1>2, <2>2, <2>3, WrittenIsFile
<1> HIDE DEF whole, part
<1>4. WorldOK'
  BY <1>1, <1>2, <1>3 DEF WorldOK, stored, world
<1>5. UNCHANGED <<lock, backup, rescue>>
  BY <1>1 DEF stored, world
<1>6. CASE Goto(p, "sync")
  <2>1. "sync" \in Late /\ "sync" \notin Early /\ editor[p].pc \in Late
    BY <1>1 DEF Early, Late
  <2> QED
    BY <1>1, <1>4, <1>5, <1>6, <2>1, GotoKeeps
<1>7. CASE Failed(p, TRUE, part)
  <2>1. editor[p].pc \in (Early \cup Late) \ {"prompt"}
    BY <1>1 DEF Late
  <2> QED
    BY <1>3, <1>4, <1>5, <1>7, <2>1, FailedKeeps
<1> QED
  BY <1>1, <1>6, <1>7

LEMMA SyncFileKeeps ==
  ASSUME Inv, NEW p \in Editors, SyncFile(p)
  PROVE  Inv'
<1> DEFINE n == Target(p)
<1>1. /\ editor[p].pc = "sync" /\ UNCHANGED <<stored, world, spent>> /\ Goto(p, "note")
      /\ file' = [file EXCEPT ![n].synced = file[n].text]
  BY DEF SyncFile, At
<1>2. WorldOK /\ n \in Names
  BY <1>1, SavingFacts DEF Late
<1>3. file' \in [Names -> File]
  BY <1>1, <1>2 DEF WorldOK, File
<1>4. WorldOK'
  BY <1>1, <1>2, <1>3 DEF WorldOK, stored, world
<1>5. UNCHANGED <<lock, backup, rescue>>
  BY <1>1 DEF stored, world
<1>6. "note" \in Late /\ "note" \notin Early /\ editor[p].pc \in Late
  BY <1>1 DEF Early, Late
<1> QED
  BY <1>1, <1>4, <1>5, <1>6, GotoKeeps

(* Lock files that are deleted or written.                                 *)
LEMMA WithoutLockIs ==
  ASSUME WorldOK, NEW m \in NameOrNot
  PROVE  /\ WithoutLock(m) \in [Names -> LockFile]
         /\ \A n \in Names : WithoutLock(m)[n] = IF n = m THEN NoLock ELSE lock[n]
         /\ NoLock.by = Nobody
<1>1. lock \in [Names -> LockFile] /\ NoLock \in LockFile /\ NoName \notin Names
  BY DistinctConstants DEF WorldOK, NoLock, LockFile
<1>2. CASE m = NoName
  BY <1>1, <1>2 DEF WithoutLock, NoLock
<1>3. CASE m \in Names
  BY <1>1, <1>3 DEF WithoutLock, NoLock
<1> QED
  BY <1>2, <1>3 DEF NameOrNot

LEMMA LockOutcomesAre ==
  ASSUME NEW p \in Editors, NEW modified \in BOOLEAN, NEW l \in LockOutcomes(p, modified)
  PROVE  l \in LockFile /\ l.by \in {p, Garbled}
<1>1. CASE l = [by |-> p, mod |-> modified]
  BY <1>1 DEF LockFile
<1>2. CASE l = [by |-> Garbled, mod |-> FALSE]
  BY <1>2 DEF LockFile
<1> QED
  BY <1>1, <1>2 DEF LockOutcomes

(* What is noted after a save.                                             *)
LEMMA NotedIs ==
  ASSUME Inv, NEW p \in Editors, editor[p].pc = "note", ~Region(Save(p)), NEW l \in NameOrNot
  PROVE  /\ Noted(p, l) \in Buffer /\ Noted(p, l).lock = l
         /\ Noted(p, l).text = Noted(p, l).base
<1>1. /\ WorldOK /\ Target(p) \in Names /\ Cur(p) \in Buffer
  BY SavingFacts DEF Late
<1>2. Content(p) = Cur(p).text /\ Cur(p).text \in Text
  BY <1>1 DEF Content, Buffer
<1> DEFINE n == Target(p)
           t == Content(p)
           b == [Cur(p) EXCEPT !.name = n, !.lock = l, !.mod = FALSE, !.base = t, !.origin = t]
<1>3. Noted(p, l) = Restatted(b, file, n)
  BY DEF Noted
<1>4. b \in Buffer /\ b.lock = l /\ b.text = b.base
  <2> HIDE DEF n, t
  <2>1. n \in Names /\ t \in Text /\ t = Cur(p).text
    BY <1>1, <1>2 DEF n, t
  <2> QED
    BY <1>1, <2>1 DEF Buffer, NameOrNot
<1>5. file \in [Names -> File] /\ n \in Names
  BY <1>1 DEF WorldOK
<1> HIDE DEF b, n
<1> QED
  BY <1>3, <1>4, <1>5, RestattedIs DEF Similar

LEMMA FinishSaveKeeps ==
  ASSUME Inv, NEW p \in Editors, FinishSave(p)
  PROVE  Inv'
<1> DEFINE e == editor[p]
           s == Save(p)
           b == Cur(p)
           pc == IF s.exiting THEN "closing" ELSE "idle"
           g == [e EXCEPT !.pc = pc, !.save.backed = FALSE]
           noting == s.annotate /\ ~Region(s) /\ s.method = "OVERWRITE"
<1>1. /\ e.pc = "note" /\ UNCHANGED <<file, stored, poslog, now, scenario, spent>>
  BY DEF FinishSave, At
<1>2. /\ WorldOK /\ TypeOK /\ Target(p) \in Names /\ e.ring # <<>> /\ b \in Buffer /\ b = e.ring[1]
      /\ IsEditor(e) /\ Standing(e) /\ e.save \in SaveRecord /\ s = e.save
  BY <1>1, SavingFacts DEF Late, Save
<1>3. pc \in {"closing", "idle"} /\ (pc = "closing" => ~Region(s))
  BY DEF Region
<1>4. /\ IsEditor(g) /\ g.pc = pc /\ g.ring = e.ring /\ ~g.save.backed
  <2> DEFINE t == [e.save EXCEPT !.backed = FALSE]
  <2>1. t \in SaveRecord /\ t.backed = FALSE
    BY <1>2 DEF SaveRecord
  <2> HIDE DEF pc
  <2>2. g = [e EXCEPT !.pc = pc, !.save = t]
    BY <1>2 DEF IsEditor, Fields
  <2> HIDE DEF g, t, e
  <2>3. /\ DOMAIN g = Fields /\ g.pc = pc /\ g.ring = e.ring /\ g.save = t /\ g.args = e.args
        /\ g.up = e.up /\ g.todo = e.todo /\ g.slot = e.slot /\ g.missed = e.missed
        /\ g.owed = e.owed
    BY <1>2, <2>2 DEF IsEditor, Fields
  <2>4. pc \in Pc
    BY <1>3 DEF Pc
  <2> QED
    BY <1>2, <2>1, <2>3, <2>4 DEF IsEditor
<1>5. e.pc \in Working /\ pc \in Working \ (Early \cup Late) /\ pc \notin Opening
      /\ pc \notin {"lock", "stat file"}
  BY <1>1, <1>3 DEF Working, Pc, Early, Late, Opening, Closed, Ending3
<1>6. Len(e.ring) \in Nat \ {0} /\ DOMAIN e.ring = 1 .. Len(e.ring) /\ 1 \in DOMAIN e.ring
  BY <1>2, CurIs
<1>7. ~b.mod => b.text = b.base
  BY <1>1, <1>2, <1>6 DEF Standing, Ending3
<1>8. UNCHANGED <<backup, rescue>>
  BY <1>1 DEF stored
<1>9. ASSUME NEW c \in Buffer, editor' = [editor EXCEPT ![p] = WithCur(g, c)],
             ~c.mod => c.text = c.base, pc = "closing" => c.told \/ c.text = c.base,
             lock' \in [Names -> LockFile],
             \A n \in Names : lock'[n].by = p =>
                                 c.lock = n \/ (lock[n].by = p /\ n # e.ring[1].lock),
             \A n \in Names : lock'[n].by \in {lock[n].by, p, Nobody, Garbled}
      PROVE  Inv'
  <2> DEFINE f == WithCur(g, c)
  <2>1. editor' = [editor EXCEPT ![p] = f]
    BY <1>9
  <2> HIDE DEF g
  <2>2. /\ IsEditor(f) /\ f.pc = g.pc /\ f.save = g.save
        /\ f.ring # <<>> /\ Len(f.ring) = Len(g.ring) /\ DOMAIN f.ring = DOMAIN g.ring
        /\ f.ring[1] = c
        /\ \A i \in 2 .. Len(g.ring) : f.ring[i] = g.ring[i]
    <3>1. g.ring # <<>> /\ c \in Buffer /\ IsEditor(g)
      BY <1>2, <1>4
    <3> QED
      BY ONLY <3>1, WithCurIs
  <2> HIDE DEF f, pc
  <2>3. WorldOK'
    BY <1>1, <1>2, <1>9 DEF WorldOK, stored
  <2>4. /\ f.pc \in Working \ (Early \cup Late) /\ f.pc \notin Opening
        /\ f.pc \notin {"lock", "stat file"}
        /\ f.pc = "closing" => c.told \/ c.text = c.base
    BY <1>4, <1>5, <1>9, <2>2
  <2>5. /\ Len(f.ring) = Len(e.ring) /\ DOMAIN f.ring = DOMAIN e.ring /\ ~f.save.backed
        /\ \A i \in 2 .. Len(e.ring) : f.ring[i] = e.ring[i]
    BY <1>4, <2>2
  <2>6. Replaces(f.ring, c, e.ring) /\ LocksFollow(p, c, e.ring)
    BY <1>2, <1>5, <1>8, <1>9, <2>1, <2>2, <2>3, <2>4, <2>5 DEF Replaces, LocksFollow
  <2> QED
    BY <1>2, <1>5, <1>8, <1>9, <2>1, <2>2, <2>3, <2>4, <2>5, <2>6, CurKeeps
<1> HIDE DEF g, pc
<1>10. lock \in [Names -> LockFile] /\ b.lock \in NameOrNot /\ NoName \notin Names
       /\ Nobody # p /\ Garbled # p
  BY <1>2, DistinctConstants DEF WorldOK, Buffer
<1>11. CASE /\ ~noting /\ lock' = lock
            /\ editor' = [editor EXCEPT ![p] =
                 WithCur(g, [b EXCEPT !.base = IF Region(s) THEN @ ELSE b.text])]
  <2> DEFINE c == [b EXCEPT !.base = IF Region(s) THEN @ ELSE b.text]
  <2>1. c \in Buffer /\ c.lock = b.lock /\ c.text = b.text /\ c.mod = b.mod
        /\ c.base = IF Region(s) THEN b.base ELSE b.text
    <3>1. b \in Buffer
      BY <1>2
    <3> HIDE DEF b, s
    <3> QED
      BY <3>1 DEF Buffer
  <2>2. (~c.mod => c.text = c.base) /\ (pc = "closing" => c.text = c.base)
    BY <1>3, <1>7, <2>1
  <2>3. editor' = [editor EXCEPT ![p] = WithCur(g, c)]
    BY <1>11
  <2>4. c.lock = e.ring[1].lock
    BY <1>2, <2>1
  <2> HIDE DEF c, noting, b, s, e
  <2>5. /\ \A n \in Names : lock'[n].by = p =>
                              c.lock = n \/ (lock[n].by = p /\ n # e.ring[1].lock)
        /\ \A n \in Names : lock'[n].by \in {lock[n].by, p, Nobody, Garbled}
        /\ lock' \in [Names -> LockFile]
    BY <1>10, <1>11, <2>4
  <2>6. pc = "closing" => c.told \/ c.text = c.base
    BY <2>2
  <2> QED
    BY <1>9, <2>1, <2>2, <2>3, <2>5, <2>6
<1>12. ASSUME noting, NEW l \in NameOrNot,
              editor' = [editor EXCEPT ![p] = WithCur(g, Noted(p, l))],
              lock' \in [Names -> LockFile],
              \A n \in Names : lock'[n].by = p => l = n \/ (lock[n].by = p /\ n # b.lock),
              \A n \in Names : lock'[n].by \in {lock[n].by, p, Nobody, Garbled}
       PROVE  Inv'
  <2>1. ~Region(Save(p))
    BY <1>12
  <2> DEFINE c == Noted(p, l)
  <2>2. c \in Buffer /\ c.lock = l /\ c.text = c.base
    BY <1>1, <2>1, NotedIs
  <2>3. editor' = [editor EXCEPT ![p] = WithCur(g, c)]
    BY <1>12
  <2>4. b.lock = e.ring[1].lock
    BY <1>2
  <2> HIDE DEF c, noting, b, s, e
  <2>5. \A n \in Names : lock'[n].by = p =>
                              c.lock = n \/ (lock[n].by = p /\ n # e.ring[1].lock)
    BY <1>12, <2>2, <2>4
  <2>6. /\ \A n \in Names : lock'[n].by \in {lock[n].by, p, Nobody, Garbled}
        /\ lock' \in [Names -> LockFile]
    BY <1>12
  <2> QED
    BY <1>9, <2>2, <2>3, <2>5, <2>6
<1>13. CASE /\ noting /\ lock' = lock
            /\ editor' = [editor EXCEPT ![p] = WithCur(g, Noted(p, b.lock))]
  <2> DEFINE l == b.lock
  <2>1. l \in NameOrNot /\ noting /\ editor' = [editor EXCEPT ![p] = WithCur(g, Noted(p, l))]
    BY <1>10, <1>13
  <2>2. /\ \A n \in Names : lock'[n].by = p => l = n \/ (lock[n].by = p /\ n # l)
        /\ \A n \in Names : lock'[n].by \in {lock[n].by, p, Nobody, Garbled}
        /\ lock' \in [Names -> LockFile]
    BY <1>10, <1>13
  <2> HIDE DEF noting, b, s, e
  <2> QED
    BY <1>12, <2>1, <2>2
<1>14. /\ WithoutLock(b.lock) \in [Names -> LockFile]
       /\ \A n \in Names : WithoutLock(b.lock)[n] = IF n = b.lock THEN NoLock ELSE lock[n]
       /\ NoLock.by = Nobody
  BY <1>2, <1>10, WithoutLockIs
<1>15. CASE /\ noting /\ lock' = WithoutLock(b.lock)
            /\ editor' = [editor EXCEPT ![p] = WithCur(g, Noted(p, NoName))]
  <2>1. NoName \in NameOrNot
    BY DEF NameOrNot
  <2>2. \A n \in Names : /\ lock'[n].by = p => lock[n].by = p /\ n # b.lock
                         /\ lock'[n].by \in {lock[n].by, p, Nobody, Garbled}
    BY <1>10, <1>14, <1>15
  <2> QED
    BY <1>12, <1>14, <1>15, <2>1, <2>2
<1>16. ASSUME noting, NEW l \in LockOutcomes(p, FALSE),
              lock' = [WithoutLock(b.lock) EXCEPT ![s.name] = l],
              editor' = [editor EXCEPT ![p] =
                 WithCur(g, Noted(p, IF l.by = p THEN s.name ELSE NoName))]
       PROVE  Inv'
  <2> DEFINE k == IF l.by = p THEN s.name ELSE NoName
  <2>1. l \in LockFile /\ l.by \in {p, Garbled}
    BY LockOutcomesAre
  <2>2. s.name \in Names /\ k \in NameOrNot
    BY <1>2 DEF NameOrNot, Target
  <2>3. lock' \in [Names -> LockFile]
    BY <1>14, <1>16, <2>1, <2>2
  <2>4. \A n \in Names : /\ lock'[n].by = p => k = n \/ (lock[n].by = p /\ n # b.lock)
                         /\ lock'[n].by \in {lock[n].by, p, Nobody, Garbled}
    BY <1>10, <1>14, <1>16, <2>1, <2>2
  <2>5. editor' = [editor EXCEPT ![p] = WithCur(g, Noted(p, k))]
    BY <1>16
  <2> HIDE DEF k
  <2> QED
    BY <1>12, <1>16, <2>2, <2>3, <2>4, <2>5
<1>17. \/ /\ ~noting /\ lock' = lock
          /\ editor' = [editor EXCEPT ![p] =
               WithCur(g, [b EXCEPT !.base = IF Region(s) THEN @ ELSE b.text])]
       \/ noting /\ lock' = lock /\ editor' = [editor EXCEPT ![p] = WithCur(g, Noted(p, b.lock))]
       \/ /\ noting /\ lock' = WithoutLock(b.lock)
          /\ editor' = [editor EXCEPT ![p] = WithCur(g, Noted(p, NoName))]
       \/ /\ noting
          /\ \E l \in LockOutcomes(p, FALSE) :
               /\ lock' = [WithoutLock(b.lock) EXCEPT ![s.name] = l]
               /\ editor' = [editor EXCEPT ![p] =
                    WithCur(g, Noted(p, IF l.by = p THEN s.name ELSE NoName))]
  BY Zenon DEF FinishSave, g, pc
<1> HIDE DEF noting, b, s, e
<1> QED
  BY <1>11, <1>13, <1>15, <1>16, <1>17

-----------------------------------------------------------------------------
(* Opening files, and what happens at the keyboard.                        *)

(* An element put in front of a sequence.                                  *)
LEMMA FirstAdded ==
  ASSUME NEW S, NEW r \in Seq(S), NEW b \in S
  PROVE  LET t == <<b>> \o r
         IN  /\ t \in Seq(S) /\ t # <<>> /\ DOMAIN t = 1 .. Len(r) + 1 /\ t[1] = b
             /\ \A i \in 1 .. Len(r) : t[i + 1] = r[i]
             /\ Len(r) \in Nat /\ DOMAIN r = 1 .. Len(r)
<1> DEFINE l == <<b>>
           t == l \o r
<1>1. l \in Seq(S) /\ Len(l) = 1 /\ l[1] = b
  BY Single
<1>2. Len(r) \in Nat /\ DOMAIN r = 1 .. Len(r)
  BY LenProperties
<1> HIDE DEF l
<1>3. t = l \o r
  OBVIOUS
<1> HIDE DEF t
<1>4. t \in Seq(S) /\ Len(t) = Len(l) + Len(r)
      /\ \A i \in 1 .. Len(l) + Len(r) : t[i] = IF i <= Len(l) THEN l[i] ELSE r[i - Len(l)]
  BY <1>1, <1>3, ConcatProperties
<1>5. t \in Seq(S) /\ Len(t) = 1 + Len(r)
      /\ \A i \in 1 .. 1 + Len(r) : t[i] = IF i <= 1 THEN l[i] ELSE r[i - 1]
  BY <1>1, <1>4
<1> DEFINE n == Len(r)
<1>6. n \in Nat /\ t \in Seq(S) /\ Len(t) = 1 + n
  BY <1>2, <1>5
<1> HIDE DEF n
<1>7. t # <<>> /\ DOMAIN t = 1 .. n + 1
  <2>1. 1 + n = n + 1 /\ 1 + n # 0
    BY <1>6
  <2>2. DOMAIN t = 1 .. Len(t)
    BY <1>6, LenProperties
  <2> QED
    BY <1>6, <2>1, <2>2, EmptySeq
<1> USE DEF n
<1>8. t[1] = b
  BY <1>1, <1>2, <1>5
<1>9. ASSUME NEW i \in 1 .. Len(r)
      PROVE  t[i + 1] = r[i]
  <2>1. i + 1 \in 1 .. 1 + Len(r) /\ ~(i + 1 <= 1) /\ i + 1 - 1 = i
    BY <1>2
  <2> QED
    BY <1>5, <2>1
<1> QED
  BY <1>2, <1>5, <1>7, <1>8, <1>9 DEF t, l

(* The same buffers, perhaps in another order, and perhaps a new one.      *)
SameBuffers(r, old) ==
  /\ \A i \in DOMAIN old : \E j \in DOMAIN r : r[j] = old[i]
  /\ \A j \in DOMAIN r : r[j] = NewBuffer \/ \E i \in DOMAIN old : r[j] = old[i]

LEMMA NewBufferIs ==
  NewBuffer \in Buffer /\ NewBuffer.text = NewBuffer.base /\ NewBuffer.lock = NoName
<1>1. NoStat \in Stamps
  BY DEF NoStat, Stamps, NameOrNot
<1>2. <<>> \in Text
  BY DEF Text
<1> QED
  BY <1>1, <1>2 DEF NewBuffer, Buffer, NameOrNot

LEMMA RotatedSame ==
  ASSUME NEW r \in Seq(Buffer), r # <<>>
  PROVE  SameBuffers(Rotated(r), r) /\ SameBuffers(<<Last(r)>> \o Front(r), r)
<1> DEFINE n == Len(r)
           t == Rotated(r)
           u == <<Last(r)>> \o Front(r)
<1>1. n \in Nat \ {0} /\ DOMAIN r = 1 .. n
  BY Ends
<1>2. DOMAIN t = 1 .. n /\ t[n] = r[1] /\ \A i \in 1 .. n - 1 : t[i] = r[i + 1]
  BY <1>1, RotatedRing
<1>3. DOMAIN u = 1 .. n /\ u[1] = r[n] /\ \A i \in 2 .. n : u[i] = r[i - 1]
  BY <1>1, RotatedBack
<1> HIDE DEF n, t, u
<1>4. SameBuffers(t, r)
  <2>1. ASSUME NEW i \in 1 .. n
        PROVE  \E j \in 1 .. n : t[j] = r[i]
    <3>1. CASE i = 1
      BY <1>1, <1>2, <3>1
    <3>2. CASE i # 1
      <4>1. i - 1 \in 1 .. n - 1 /\ i - 1 \in 1 .. n /\ i - 1 + 1 = i
        BY <1>1, <3>2
      <4> QED
        BY <1>2, <4>1
    <3> QED
      BY <3>1, <3>2
  <2>2. ASSUME NEW j \in 1 .. n
        PROVE  \E i \in 1 .. n : t[j] = r[i]
    <3>1. CASE j = n
      BY <1>1, <1>2, <3>1
    <3>2. CASE j # n
      <4>1. j \in 1 .. n - 1 /\ j + 1 \in 1 .. n
        BY <1>1, <3>2
      <4> QED
        BY <1>2, <4>1
    <3> QED
      BY <3>1, <3>2
  <2> QED
    BY <1>1, <1>2, <2>1, <2>2 DEF SameBuffers
<1>5. SameBuffers(u, r)
  <2>1. ASSUME NEW i \in 1 .. n
        PROVE  \E j \in 1 .. n : u[j] = r[i]
    <3>1. CASE i = n
      BY <1>1, <1>3, <3>1
    <3>2. CASE i # n
      <4>1. i + 1 \in 2 .. n /\ i + 1 \in 1 .. n /\ i + 1 - 1 = i
        BY <1>1, <3>2
      <4> QED
        BY <1>3, <4>1
    <3> QED
      BY <3>1, <3>2
  <2>2. ASSUME NEW j \in 1 .. n
        PROVE  \E i \in 1 .. n : u[j] = r[i]
    <3>1. CASE j = 1
      BY <1>1, <1>3, <3>1
    <3>2. CASE j # 1
      <4>1. j \in 2 .. n /\ j - 1 \in 1 .. n
        BY <1>1, <3>2
      <4> QED
        BY <1>3, <4>1
    <3> QED
      BY <3>1, <3>2
  <2> QED
    BY <1>1, <1>3, <2>1, <2>2 DEF SameBuffers
<1> QED
  BY <1>4, <1>5 DEF t, u

LEMMA FreshRing ==
  ASSUME NEW e, e.ring \in Seq(Buffer)
  PROVE  LET t == Fresh(e)
         IN  /\ t \in Seq(Buffer) /\ t # <<>> /\ t[1] = NewBuffer
             /\ SameBuffers(t, e.ring)
<1> DEFINE r == IF e.ring = <<>> THEN <<>> ELSE Rotated(e.ring)
           t == <<NewBuffer>> \o r
<1>1. Fresh(e) = t
  BY DEF Fresh, Rotated
<1>2. r \in Seq(Buffer) /\ SameBuffers(r, e.ring)
  <2>1. CASE e.ring = <<>>
    <3>1. r = <<>> /\ DOMAIN <<>> = {}
      BY <2>1
    <3> QED
      BY <2>1, <3>1 DEF SameBuffers
  <2>2. CASE e.ring # <<>>
    BY <2>2, RotatedSame, RotatedRing
  <2> QED
    BY <2>1, <2>2
<1> HIDE DEF r
<1>3. /\ t \in Seq(Buffer) /\ t # <<>> /\ DOMAIN t = 1 .. Len(r) + 1 /\ t[1] = NewBuffer
      /\ \A i \in 1 .. Len(r) : t[i + 1] = r[i]
      /\ Len(r) \in Nat /\ DOMAIN r = 1 .. Len(r)
  BY <1>2, NewBufferIs, FirstAdded
<1> DEFINE n == Len(r)
<1>4. /\ DOMAIN t = 1 .. n + 1 /\ n \in Nat /\ DOMAIN r = 1 .. n
      /\ \A i \in 1 .. n : t[i + 1] = r[i]
  BY <1>3
<1> HIDE DEF t, n
<1>5. \A i \in 1 .. n : i + 1 \in 1 .. n + 1
  BY <1>4
<1>6. \A j \in 1 .. n + 1 : j = 1 \/ (j - 1 \in 1 .. n /\ j - 1 + 1 = j)
  BY <1>4
<1>7. \A i \in DOMAIN r : \E j \in DOMAIN t : t[j] = r[i]
  BY <1>4, <1>5
<1>8. ASSUME NEW j \in DOMAIN t
      PROVE  t[j] = NewBuffer \/ \E i \in DOMAIN r : t[j] = r[i]
  <2>1. CASE j = 1
    BY <1>3, <2>1
  <2>2. CASE j - 1 \in 1 .. n /\ j - 1 + 1 = j
    BY <1>4, <2>2
  <2> QED
    BY <1>4, <1>6, <2>1, <2>2
<1>9. SameBuffers(t, e.ring)
  <2>1. \A i \in DOMAIN e.ring : \E j \in DOMAIN t : t[j] = e.ring[i]
    <3>1. \A i \in DOMAIN e.ring : \E j \in DOMAIN r : r[j] = e.ring[i]
      BY <1>2 DEF SameBuffers
    <3> QED
      BY <1>7, <3>1
  <2>2. \A j \in DOMAIN t : t[j] = NewBuffer \/ \E i \in DOMAIN e.ring : t[j] = e.ring[i]
    <3>1. \A j \in DOMAIN r : r[j] = NewBuffer \/ \E i \in DOMAIN e.ring : r[j] = e.ring[i]
      BY <1>2 DEF SameBuffers
    <3> QED
      BY <1>8, <3>1
  <2> QED
    BY <2>1, <2>2 DEF SameBuffers
<1> QED
  BY <1>1, <1>3, <1>9 DEF t

(* A step among the same buffers, of an editor that is opening files or    *)
(* waiting for a key.                                                      *)
LEMMA RingKeeps ==
  ASSUME Inv, NEW p \in Editors, NEW f, editor' = [editor EXCEPT ![p] = f],
         WorldOK', IsEditor(f), UNCHANGED <<lock, backup, rescue>>,
         editor[p].pc \in Working, f.pc \in {"open", "idle", "lock", "read"},
         f.save = editor[p].save, SameBuffers(f.ring, editor[p].ring),
         f.pc # "open" => f.ring # <<>>,
         f.pc \in Opening => f.args # <<>>,
         f.pc = "lock" => f.ring[1] = NewBuffer
  PROVE  Inv'
<1> DEFINE e == editor[p]
<1>1. IsEditor(e) /\ Standing(e) /\ e.pc \in Working /\ e.pc \notin Ending3 \cup {"cut", "killed"}
  BY DEF Inv, TypeOK, Working
<1>2. DOMAIN e.ring = 1 .. Len(e.ring) /\ DOMAIN f.ring = 1 .. Len(f.ring)
  BY <1>1, LenProperties DEF IsEditor
<1>3. SameBuffers(f.ring, e.ring) /\ f.save = e.save
  OBVIOUS
<1>4. Held(f) = DOMAIN f.ring /\ Held(e) = DOMAIN e.ring
  BY <1>1, <1>2 DEF Held, Working, Closed, Ending3
<1>5. Standing(f)
  <2>1. ASSUME NEW j \in DOMAIN f.ring, ~f.ring[j].mod
        PROVE  f.ring[j].text = f.ring[j].base
    <3>1. CASE f.ring[j] = NewBuffer
      BY <3>1, NewBufferIs
    <3>2. CASE \E i \in DOMAIN e.ring : f.ring[j] = e.ring[i]
      BY <1>1, <2>1, <3>2 DEF Standing
    <3> QED
      BY <1>3, <3>1, <3>2 DEF SameBuffers
  <2>2. f.pc = "lock" => f.ring[1].lock = NoName
    BY NewBufferIs
  <2>3. f.save.backed => f.save.name \in Names
    BY <1>1, <1>3 DEF Standing
  <2>4. f.pc \notin {"finish", "dying", "rescue", "closing", "stat file"} \cup Early \cup Late
    BY DEF Early, Late
  <2> HIDE DEF e
  <2> QED
    BY <2>1, <2>2, <2>3, <2>4 DEF Standing, Bufferless
<1>6. ASSUME NEW n \in Names, lock'[n].by = p
      PROVE  Holds(f, n)
  <2>1. Holds(e, n) /\ e.pc \notin {"quit", "cut", "killed"}
    BY <1>1, <1>6 DEF Inv, LocksHeld, Working
  <2>2. PICK i \in DOMAIN e.ring : e.ring[i].lock = n
    BY <1>4, <2>1 DEF Holds
  <2>3. PICK j \in DOMAIN f.ring : f.ring[j] = e.ring[i]
    BY <1>3 DEF SameBuffers
  <2> QED
    BY <1>4, <2>2, <2>3 DEF Holds
<1>7. BackupHolds(f, p, backup')
  <2>1. BackupHolds(e, p, backup)
    BY DEF Inv, BackupsHold
  <2> QED
    BY <2>1 DEF BackupHolds
<1>8. RescueOf(f, p, rescue') /\ Grown(rescue, rescue')
  BY DEF RescueOf, Ending3, Grown
<1>9. /\ \A m \in Names : backup'[m] = backup[m] \/ backup'[m].by \in {p, Nobody}
      /\ \A m \in Names : lock'[m].by \in {lock[m].by, p, Nobody, Garbled}
  OBVIOUS
<1> HIDE DEF e
<1> QED
  BY <1>5, <1>6, <1>7, <1>8, <1>9, StepKeeps

(* Nothing of the editor that matters has changed but where it is.         *)
LEMMA SameRing ==
  ASSUME NEW r \in Seq(Buffer)
  PROVE  SameBuffers(r, r)
BY DEF SameBuffers

(* The same editor, but for its histories.                                 *)
Same(f, e) == f.pc = e.pc /\ f.ring = e.ring /\ f.save = e.save /\ SameRest(f, e)

LEMMA LogIs ==
  ASSUME NEW e, IsEditor(e), NEW l, NEW t
  PROVE  LET f == [e EXCEPT !.log = l, !.stamp = t]
         IN  IsEditor(f) /\ Same(f, e)
<1> DEFINE f == [e EXCEPT !.log = l, !.stamp = t]
<1>1. /\ DOMAIN f = Fields /\ f.pc = e.pc /\ f.ring = e.ring /\ f.save = e.save /\ f.args = e.args
      /\ f.up = e.up /\ f.todo = e.todo /\ f.slot = e.slot /\ f.missed = e.missed
      /\ f.owed = e.owed
  BY DEF IsEditor, Fields
<1> HIDE DEF f
<1> QED
  BY <1>1 DEF IsEditor, Same, SameRest, f

LEMMA OneLogIs ==
  ASSUME NEW e, IsEditor(e), NEW l
  PROVE  /\ LET f == [e EXCEPT !.log = l] IN IsEditor(f) /\ Same(f, e)
         /\ LET f == [e EXCEPT !.stamp = l] IN IsEditor(f) /\ Same(f, e)
         /\ LET f == [e EXCEPT !.searches = l] IN IsEditor(f) /\ Same(f, e)
         /\ LET f == [e EXCEPT !.searched = l] IN IsEditor(f) /\ Same(f, e)
<1>1. ASSUME NEW f, \/ f = [e EXCEPT !.log = l] \/ f = [e EXCEPT !.stamp = l]
                    \/ f = [e EXCEPT !.searches = l] \/ f = [e EXCEPT !.searched = l]
      PROVE  IsEditor(f) /\ Same(f, e)
  <2>1. /\ DOMAIN f = Fields /\ f.pc = e.pc /\ f.ring = e.ring /\ f.save = e.save
        /\ f.args = e.args /\ f.up = e.up /\ f.todo = e.todo /\ f.slot = e.slot
        /\ f.missed = e.missed /\ f.owed = e.owed
    BY <1>1 DEF IsEditor, Fields
  <2> QED
    BY <2>1 DEF IsEditor, Same, SameRest
<1> QED
  BY <1>1

LEMMA ReloadedIs ==
  ASSUME NEW e, IsEditor(e)
  PROVE  /\ IsEditor(LoadPosHistory(e)) /\ Same(LoadPosHistory(e), e)
         /\ IsEditor(LoadHistory(e)) /\ Same(LoadHistory(e), e)
         /\ IsEditor(Reloaded(e)) /\ Same(Reloaded(e), e)
         /\ \A n : IsEditor(UpdatePosHistory(e, n)) /\ Same(UpdatePosHistory(e, n), e)
<1>1. IsEditor(LoadPosHistory(e)) /\ Same(LoadPosHistory(e), e)
  BY LogIs DEF LoadPosHistory
<1>2. IsEditor(LoadHistory(e)) /\ Same(LoadHistory(e), e)
  BY OneLogIs DEF LoadHistory
<1>3. IsEditor(Reloaded(e)) /\ Same(Reloaded(e), e)
  BY <1>1 DEF Reloaded, Same, SameRest
<1>4. ASSUME NEW n
      PROVE  IsEditor(UpdatePosHistory(e, n)) /\ Same(UpdatePosHistory(e, n), e)
  <2> DEFINE known == Reloaded(e)
             l == <<n>> \o RemoveFirst(known.log, n)
             f == [known EXCEPT !.log = l]
  <2>1. UpdatePosHistory(e, n) = f
    BY DEF UpdatePosHistory
  <2>2. IsEditor(known) /\ Same(known, e)
    BY <1>3
  <2> HIDE DEF known, l
  <2>3. IsEditor(f) /\ Same(f, known)
    BY <2>2, OneLogIs
  <2> HIDE DEF f
  <2> QED
    BY <2>1, <2>2, <2>3 DEF Same, SameRest
<1> QED
  BY <1>1, <1>2, <1>3, <1>4

(* What an editor stands on before a step.                                 *)
LEMMA Facts ==
  ASSUME Inv, NEW p \in Editors
  PROVE  /\ IsEditor(editor[p]) /\ Standing(editor[p]) /\ TypeOK /\ WorldOK
         /\ editor[p].ring \in Seq(Buffer)
         /\ SameBuffers(editor[p].ring, editor[p].ring)
         /\ editor[p].pc \notin Bufferless =>
              /\ editor[p].ring # <<>> /\ editor[p].ring[1] \in Buffer
              /\ Cur(p) = editor[p].ring[1]
              /\ Len(editor[p].ring) \in Nat \ {0}
              /\ DOMAIN editor[p].ring = 1 .. Len(editor[p].ring)
<1>1. IsEditor(editor[p]) /\ Standing(editor[p]) /\ TypeOK /\ WorldOK
  BY DEF Inv, TypeOK
<1>2. editor[p].ring \in Seq(Buffer)
  BY <1>1 DEF IsEditor
<1> QED
  BY <1>1, <1>2, SameRing, CurIs DEF Standing

LEMMA StartKeeps ==
  ASSUME Inv, NEW p \in Editors, Start(p)
  PROVE  Inv'
<1> DEFINE e == editor[p]
           g == [e EXCEPT !.pc = "open"]
           h == LoadPosHistory(g)
           f == LoadHistory(h)
<1>1. e.pc = "off" /\ UNCHANGED <<file, stored, world, spent>>
      /\ editor' = [editor EXCEPT ![p] = f]
  BY DEF Start, At
<1>2. WorldOK' /\ UNCHANGED <<lock, backup, rescue>>
  BY <1>1, SameWorld
<1>3. IsEditor(e) /\ SameBuffers(e.ring, e.ring) /\ "open" \in Pc /\ e.pc \in Working
  BY <1>1, Facts DEF Pc, Working, Closed, Ending3
<1> HIDE DEF f, h, g, e
<1>4. IsEditor(g) /\ g.pc = "open" /\ g.ring = e.ring /\ g.save = e.save
  BY <1>3, PcChanges DEF g
<1>5. IsEditor(h) /\ Same(h, g)
  BY <1>4, ReloadedIs DEF h
<1>6. IsEditor(f) /\ Same(f, h)
  BY <1>5, ReloadedIs DEF f
<1>7. f.pc = "open" /\ f.ring = e.ring /\ f.save = e.save
  BY <1>4, <1>5, <1>6 DEF Same
<1>8. f.pc \notin Opening
  BY <1>7 DEF Opening
<1> QED
  BY <1>1, <1>2, <1>3, <1>6, <1>7, <1>8, RingKeeps DEF e

LEMMA OpenNextKeeps ==
  ASSUME Inv, NEW p \in Editors, OpenNext(p)
  PROVE  Inv'
<1> DEFINE e == editor[p]
           r == Fresh(e)
<1>1. e.pc = "open" /\ e.args # <<>> /\ UNCHANGED <<file, stored, world, spent>>
  BY DEF OpenNext, At
<1>2. WorldOK' /\ UNCHANGED <<lock, backup, rescue>>
  BY <1>1, SameWorld
<1>3. IsEditor(e) /\ SameBuffers(e.ring, e.ring) /\ e.ring \in Seq(Buffer) /\ TypeOK
  BY Facts
<1>4. e.pc \in Working /\ {"lock", "read"} \subseteq Pc
  BY <1>1 DEF Pc, Working, Closed, Ending3, Opening
<1>5. ASSUME NEW pc \in {"lock", "read"},
             editor' = [editor EXCEPT ![p].pc = pc, ![p].ring = r]
      PROVE  Inv'
  <2> DEFINE f == [e EXCEPT !.pc = pc, !.ring = r]
  <2>1. r \in Seq(Buffer) /\ r # <<>> /\ r[1] = NewBuffer /\ SameBuffers(r, e.ring)
    BY <1>3, FreshRing
  <2> HIDE DEF r
  <2>2. editor' = [editor EXCEPT ![p] = f]
    BY <1>3, <1>5 DEF TypeOK
  <2>3. f = [e EXCEPT !.pc = pc, !.ring = r] \/ f = [e EXCEPT !.ring = r, !.pc = pc]
    OBVIOUS
  <2> HIDE DEF f, e
  <2>4. IsEditor(f) /\ f.pc = pc /\ f.ring = r /\ f.save = e.save /\ SameRest(f, e)
    BY <1>3, <1>4, <2>1, <2>3, RingChanges
  <2>5. f.args # <<>>
    BY <1>1, <2>4 DEF SameRest
  <2> QED
    BY <1>2, <1>4, <2>1, <2>2, <2>4, <2>5, RingKeeps DEF e
<1>6. CASE editor' = [editor EXCEPT ![p].args = Tail(@)]
  <2> DEFINE a == Tail(e.args)
             f == [e EXCEPT !.args = a]
  <2>1. a \in Seq(Names)
    BY <1>1, <1>3, HeadTailProperties DEF IsEditor
  <2>2. editor' = [editor EXCEPT ![p] = f]
    BY <1>3, <1>6 DEF TypeOK, IsEditor, Fields
  <2> HIDE DEF a, e
  <2>3. /\ DOMAIN f = Fields /\ f.pc = e.pc /\ f.ring = e.ring /\ f.save = e.save
        /\ f.args = a /\ f.up = e.up /\ f.todo = e.todo /\ f.slot = e.slot
        /\ f.missed = e.missed /\ f.owed = e.owed
    BY <1>3 DEF IsEditor, Fields
  <2> HIDE DEF f
  <2>4. IsEditor(f)
    BY <1>3, <2>1, <2>3 DEF IsEditor
  <2>5. f.pc \notin Opening /\ f.pc = "open"
    BY <1>1, <2>3 DEF Opening
  <2> QED
    BY <1>2, <1>3, <1>4, <2>2, <2>3, <2>4, <2>5, RingKeeps DEF e
<1>7. CASE Goto(p, "quit")
  <2> DEFINE f == [e EXCEPT !.pc = "quit"]
  <2>1. editor' = [editor EXCEPT ![p] = f]
    BY <1>3, <1>7 DEF Goto, TypeOK
  <2>2. f.pc = "quit" /\ f = [e EXCEPT !.pc = f.pc]
    BY <1>3 DEF IsEditor, Fields
  <2> HIDE DEF f
  <2> QED
    BY <1>1, <1>2, <2>1, <2>2, EndKeeps
<1> QED
  BY <1>5, <1>6, <1>7 DEF OpenNext

LEMMA MakeLockKeeps ==
  ASSUME Inv, NEW p \in Editors, MakeLock(p)
  PROVE  Inv'
<1> DEFINE e == editor[p]
           n == Head(e.args)
<1>1. e.pc = "lock" /\ UNCHANGED <<file, stored, poslog, now, scenario, spent, disturbed>>
  BY DEF MakeLock, At
<1>2. PICK l \in LockOutcomes(p, FALSE) :
        /\ lock' = [lock EXCEPT ![n] = l]
        /\ editor' = [editor EXCEPT ![p].pc = "read",
                                    ![p].ring[1].lock = IF l.by = p THEN n ELSE NoName]
  BY DEF MakeLock
<1> DEFINE k == IF l.by = p THEN n ELSE NoName
           c == [e.ring[1] EXCEPT !.lock = k]
           r == [e.ring EXCEPT ![1] = c]
           f == [e EXCEPT !.pc = "read", !.ring = r]
<1>3. /\ IsEditor(e) /\ Standing(e) /\ WorldOK /\ TypeOK /\ e.ring \in Seq(Buffer) /\ e.ring # <<>>
      /\ e.ring[1] \in Buffer /\ DOMAIN e.ring = 1 .. Len(e.ring) /\ Len(e.ring) \in Nat \ {0}
  BY <1>1, Facts DEF Bufferless
<1>4. e.args # <<>> /\ e.args \in Seq(Names) /\ e.ring[1].lock = NoName
  BY <1>1, <1>3 DEF Standing, Opening, IsEditor
<1>5. n \in Names /\ NoName \notin Names /\ l \in LockFile /\ l.by \in {p, Garbled}
      /\ Garbled \notin Editors
  BY <1>4, HeadTailProperties, LockOutcomesAre, DistinctConstants
<1>6. editor' = [editor EXCEPT ![p] = f]
  <2> HIDE DEF k, n
  <2>1. editor' = [editor EXCEPT ![p].pc = "read", ![p].ring[1].lock = k]
    BY <1>2 DEF k, n
  <2> QED
    BY <1>3, <2>1 DEF TypeOK, IsEditor, Fields
<1> HIDE DEF e
<1>7. /\ c \in Buffer /\ c.lock = k /\ c.mod = e.ring[1].mod /\ c.text = e.ring[1].text
      /\ c.base = e.ring[1].base
  <2>1. k \in NameOrNot
    BY <1>5 DEF NameOrNot
  <2> HIDE DEF k
  <2> QED
    BY <1>3, <2>1 DEF Buffer
<1> HIDE DEF c
<1>8. /\ r \in Seq(Buffer) /\ r # <<>> /\ Len(r) = Len(e.ring) /\ DOMAIN r = DOMAIN e.ring
      /\ r[1] = c
      /\ \A i \in 2 .. Len(e.ring) : r[i] = e.ring[i]
  BY <1>3, <1>7, FirstChanged
<1> HIDE DEF r
<1>9. /\ "read" \in Pc /\ e.pc \in Working /\ "read" \in Working \ (Early \cup Late)
      /\ e.pc \notin Ending3 \cup {"cut", "killed"}
  BY <1>1 DEF Pc, Opening, Working, Early, Late, Closed, Ending3
<1>10. f = [e EXCEPT !.pc = "read", !.ring = r] \/ f = [e EXCEPT !.ring = r, !.pc = "read"]
  OBVIOUS
<1>11. IsEditor(f) /\ f.pc = "read" /\ f.ring = r /\ f.save = e.save /\ SameRest(f, e)
  <2>1. IsEditor(e) /\ "read" \in Pc /\ r \in Seq(Buffer)
    BY <1>3, <1>8, <1>9
  <2> DEFINE pc == "read"
  <2>2. pc \in Pc /\ (f = [e EXCEPT !.pc = pc, !.ring = r] \/ f = [e EXCEPT !.ring = r, !.pc = pc])
    BY <2>1
  <2> HIDE DEF pc, f
  <2>3. IsEditor(f) /\ f.pc = pc /\ f.ring = r /\ f.save = e.save /\ SameRest(f, e)
    BY <2>1, <2>2, RingChanges
  <2> QED
    BY <2>3 DEF pc
<1> HIDE DEF f
<1>12. ~c.mod => c.text = c.base
  <2>1. 1 \in DOMAIN e.ring
    BY <1>3
  <2>2. ~e.ring[1].mod => e.ring[1].text = e.ring[1].base
    BY <1>3, <1>9, <2>1 DEF Standing
  <2> QED
    BY <1>7, <2>2
<1>13. LocksFollow(p, c, e.ring)
  <2>1. lock \in [Names -> LockFile]
    BY <1>3 DEF WorldOK
  <2>2. ASSUME NEW m \in Names
        PROVE  /\ lock'[m].by = p => c.lock = m \/ (lock[m].by = p /\ m # e.ring[1].lock)
               /\ lock'[m].by \in {lock[m].by, p, Nobody, Garbled}
    <3>1. CASE m = n
      BY <1>2, <1>5, <1>7, <2>1, <3>1
    <3>2. CASE m # n
      <4>1. lock'[m] = lock[m]
        BY <1>2, <2>1, <3>2
      <4> QED
        BY <1>4, <1>5, <4>1
    <3> QED
      BY <3>1, <3>2
  <2> QED
    BY <2>2 DEF LocksFollow
<1>14. WorldOK' /\ UNCHANGED <<backup, rescue>>
  BY <1>1, <1>2, <1>3, <1>5 DEF WorldOK, stored
<1>15. /\ f.pc \in Working \ (Early \cup Late) /\ (f.pc \in Opening => f.args # <<>>)
       /\ f.pc \notin {"closing", "stat file", "lock"}
  BY <1>4, <1>9, <1>11 DEF SameRest
<1> HIDE DEF n, k
<1>16. f.ring # <<>> /\ Replaces(f.ring, c, e.ring)
  BY <1>8, <1>11 DEF Replaces
<1>17. f.save.backed => e.save.backed /\ f.save = e.save
  BY <1>11
<1>18. /\ e.pc \in Working /\ e.ring # <<>> /\ c \in Buffer /\ editor' = [editor EXCEPT ![p] = f]
  BY <1>3, <1>6, <1>7, <1>9
<1> QED
  BY <1>11, <1>12, <1>13, <1>14, <1>15, <1>16, <1>17, <1>18, CurKeeps DEF e

(* The current buffer is another one, with the same lock file.             *)
LEMMA EditedKeeps ==
  ASSUME Inv, NEW p \in Editors, editor[p].pc \in Working \ Bufferless,
         NEW pc \in Working \ (Early \cup Late), NEW c \in Buffer,
         c.lock = editor[p].ring[1].lock, ~c.mod => c.text = c.base,
         pc \in Opening => editor[p].pc \in Opening,
         pc \notin {"closing", "lock"}, pc = "stat file" => c.name \in Names,
         NEW g, IsEditor(g), g.pc = pc, g.ring = editor[p].ring, g.save = editor[p].save,
         g.args = editor[p].args,
         editor' = [editor EXCEPT ![p] = WithCur(g, c)],
         WorldOK', UNCHANGED <<backup, rescue>>,
         \A n \in Names : lock'[n] = lock[n] \/ (n = c.lock /\ lock'[n].by \in {p, Garbled})
  PROVE  Inv'
<1> DEFINE e == editor[p]
           f == WithCur(g, c)
<1>1. /\ IsEditor(e) /\ Standing(e) /\ e.ring \in Seq(Buffer) /\ e.ring # <<>>
      /\ e.pc \in Working /\ pc \in Pc
  BY Facts DEF Working
<1>2. editor' = [editor EXCEPT ![p] = f]
  OBVIOUS
<1>3. e.pc \in Opening => e.args # <<>>
  BY <1>1 DEF Standing
<1>4. IsEditor(g) /\ g.pc = pc /\ g.ring = e.ring /\ g.save = e.save /\ g.args = e.args
  OBVIOUS
<1> HIDE DEF e, f
<1>5. /\ IsEditor(f) /\ f.pc = g.pc /\ f.save = g.save /\ SameRest(f, g)
      /\ f.ring # <<>> /\ Len(f.ring) = Len(g.ring) /\ DOMAIN f.ring = DOMAIN g.ring
      /\ f.ring[1] = c
      /\ \A i \in 2 .. Len(g.ring) : f.ring[i] = g.ring[i]
  <2>1. g.ring # <<>> /\ c \in Buffer
    BY <1>1, <1>4
  <2> QED
    BY ONLY <1>4, <2>1, WithCurIs DEF f
<1>6. /\ f.pc = pc /\ (pc \in Opening => f.args # <<>>) /\ f.save = e.save
      /\ Len(f.ring) = Len(e.ring) /\ DOMAIN f.ring = DOMAIN e.ring
      /\ \A i \in 2 .. Len(e.ring) : f.ring[i] = e.ring[i]
  BY <1>3, <1>4, <1>5 DEF SameRest, e
<1>7. LocksFollow(p, c, e.ring)
  BY DEF LocksFollow, e
<1>8. /\ f.pc \in Working \ (Early \cup Late) /\ (f.pc \in Opening => f.args # <<>>)
      /\ f.pc \notin {"closing", "lock"} /\ (f.pc = "stat file" => c.name \in Names)
  BY <1>6
<1>9. f.save.backed => e.save.backed /\ f.save = e.save
  BY <1>6
<1>10. IsEditor(f) /\ Replaces(f.ring, c, e.ring)
  BY <1>5, <1>6 DEF Replaces
<1> QED
  BY <1>1, <1>2, <1>7, <1>8, <1>9, <1>10, CurKeeps DEF e

LEMMA ReadKeeps ==
  ASSUME Inv, NEW p \in Editors, Read(p)
  PROVE  Inv'
<1> DEFINE e == editor[p]
           n == Head(e.args)
           b == Cur(p)
           t == file[n].text
           pc == IF Exists(n) THEN "stat file" ELSE "opened"
           c == [b EXCEPT !.name = n, !.text = t, !.base = t, !.origin = t]
<1>1. e.pc = "read" /\ UNCHANGED <<file, stored, world, spent>>
      /\ editor' = [editor EXCEPT ![p] = WithCur([e EXCEPT !.pc = pc], c)]
  BY DEF Read, At
<1>2. WorldOK' /\ UNCHANGED <<lock, backup, rescue>>
  BY <1>1, SameWorld
<1>3. /\ IsEditor(e) /\ Standing(e) /\ WorldOK /\ b \in Buffer /\ b = e.ring[1]
  BY <1>1, Facts DEF Bufferless
<1>4. n \in Names
  <2>1. e.args # <<>> /\ e.args \in Seq(Names)
    BY <1>1, <1>3 DEF Standing, Opening, IsEditor
  <2> QED
    BY <2>1, HeadTailProperties
<1>5. t \in Text
  BY <1>3, <1>4 DEF WorldOK, File
<1>6. pc \in Opening /\ pc \in Working \ (Early \cup Late) /\ pc # "lock" /\ pc # "closing"
      /\ e.pc \in Opening /\ e.pc \in Working \ Bufferless
  BY <1>1 DEF Pc, Opening, Working, Early, Late, Closed, Ending3, Bufferless
<1> HIDE DEF pc, n, t, b, e
<1>7. /\ c \in Buffer /\ c.lock = e.ring[1].lock /\ c.text = c.base /\ c.name = n
  BY <1>3, <1>4, <1>5 DEF Buffer, NameOrNot
<1> DEFINE g == [e EXCEPT !.pc = pc]
<1>8. IsEditor(g) /\ g.pc = pc /\ g.ring = e.ring /\ g.save = e.save /\ g.args = e.args
  BY <1>3, <1>6, PcChanges DEF SameRest, Working
<1>9. editor' = [editor EXCEPT ![p] = WithCur(g, c)]
  BY <1>1
<1> HIDE DEF c, g
<1> QED
  BY <1>2, <1>4, <1>6, <1>7, <1>8, <1>9, EditedKeeps DEF e

LEMMA StatFileKeeps ==
  ASSUME Inv, NEW p \in Editors, StatFile(p)
  PROVE  Inv'
<1> DEFINE e == editor[p]
           b == Restatted(Cur(p), file, Cur(p).name)
<1>1. e.pc = "stat file" /\ UNCHANGED <<file, stored, world, spent>>
      /\ editor' = [editor EXCEPT ![p] = WithCur([e EXCEPT !.pc = "opened"], b)]
  BY DEF StatFile, At
<1>2. WorldOK' /\ UNCHANGED <<lock, backup, rescue>>
  BY <1>1, SameWorld
<1>3. /\ Standing(e) /\ file \in [Names -> File] /\ Cur(p) \in Buffer /\ Cur(p) = e.ring[1]
      /\ e.ring # <<>>
  BY <1>1, Facts DEF Bufferless, WorldOK
<1>4. b \in Buffer /\ Similar(b, e.ring[1])
  <2>1. Cur(p).name \in Names
    BY <1>1, <1>3 DEF Standing
  <2> QED
    BY <1>3, <2>1, RestattedIs
<1>5. /\ "opened" \in Working /\ "opened" \in Opening /\ "opened" \notin Early \cup Late
      /\ e.pc \in Working /\ e.pc \in Opening
  BY <1>1 DEF Pc, Opening, Working, Early, Late, Closed, Ending3
<1> DEFINE pc == "opened"
<1>6. /\ pc \in Working /\ pc \in Opening /\ pc \notin Early \cup Late
      /\ pc \notin {"closing", "lock", "stat file", "prompt"}
      /\ editor' = [editor EXCEPT ![p] = WithCur([editor[p] EXCEPT !.pc = pc], b)]
  BY <1>1, <1>5
<1> HIDE DEF b, pc
<1> QED
  BY <1>2, <1>3, <1>4, <1>5, <1>6, SimilarKeeps

LEMMA RestorePositionKeeps ==
  ASSUME Inv, NEW p \in Editors, RestorePosition(p)
  PROVE  Inv'
<1> DEFINE e == editor[p]
           a == Tail(e.args)
           next == [e EXCEPT !.pc = "open", !.args = a]
           f == IF Option("POSITIONLOG") THEN Reloaded(next) ELSE next
<1>1. e.pc = "opened" /\ UNCHANGED <<file, stored, world, spent>>
      /\ editor' = [editor EXCEPT ![p] = f]
  BY DEF RestorePosition, At
<1>2. WorldOK' /\ UNCHANGED <<lock, backup, rescue>>
  BY <1>1, SameWorld
<1>3. IsEditor(e) /\ Standing(e) /\ SameBuffers(e.ring, e.ring) /\ e.pc \in Working
  BY <1>1, Facts DEF Pc, Opening, Working, Closed, Ending3
<1>4. a \in Seq(Names)
  <2>1. e.args # <<>> /\ e.args \in Seq(Names)
    BY <1>1, <1>3 DEF Standing, Opening, IsEditor
  <2> QED
    BY <2>1, HeadTailProperties
<1> HIDE DEF e, a
<1>5. IsEditor(next) /\ next.pc = "open" /\ next.ring = e.ring /\ next.save = e.save
  <2>1. /\ DOMAIN next = Fields /\ next.pc = "open" /\ next.ring = e.ring /\ next.save = e.save
        /\ next.args = a /\ next.up = e.up /\ next.todo = e.todo /\ next.slot = e.slot
        /\ next.missed = e.missed /\ next.owed = e.owed
    BY <1>3 DEF IsEditor, Fields
  <2>2. "open" \in Pc
    BY DEF Pc
  <2> HIDE DEF next
  <2> QED
    BY <1>3, <1>4, <2>1, <2>2 DEF IsEditor
<1> HIDE DEF next
<1>6. IsEditor(f) /\ Same(f, next)
  BY <1>5, ReloadedIs DEF Same, SameRest
<1>7. f.pc = "open" /\ f.ring = e.ring /\ f.save = e.save /\ f.pc \notin Opening
  BY <1>5, <1>6 DEF Same, Opening
<1> HIDE DEF f
<1> QED
  BY <1>1, <1>2, <1>3, <1>6, <1>7, RingKeeps DEF e

LEMMA ReadyKeeps ==
  ASSUME Inv, NEW p \in Editors, Ready(p)
  PROVE  Inv'
<1> DEFINE e == editor[p]
           r == IF e.ring = <<>> THEN <<NewBuffer>> ELSE IF e.up THEN e.ring ELSE Rotated(e.ring)
           f == [e EXCEPT !.pc = "idle", !.up = TRUE, !.ring = r]
<1>1. e.pc = "open" /\ UNCHANGED <<file, stored, world, spent>>
      /\ editor' = [editor EXCEPT ![p].pc = "idle", ![p].up = TRUE, ![p].ring = r]
  BY DEF Ready, At, Rotated
<1>2. WorldOK' /\ UNCHANGED <<lock, backup, rescue>>
  BY <1>1, SameWorld
<1>3. /\ IsEditor(e) /\ SameBuffers(e.ring, e.ring) /\ e.ring \in Seq(Buffer) /\ TypeOK
      /\ e.pc \in Working
  BY <1>1, Facts DEF Pc, Working, Closed, Ending3, Opening
<1>4. r \in Seq(Buffer) /\ r # <<>> /\ SameBuffers(r, e.ring)
  <2>1. CASE e.ring = <<>>
    <3> DEFINE t == <<NewBuffer>>
    <3>1. t \in Seq(Buffer) /\ t # <<>> /\ DOMAIN t = {1} /\ t[1] = NewBuffer
      BY NewBufferIs
    <3>2. DOMAIN <<>> = {} /\ r = t
      BY <2>1
    <3> HIDE DEF t, r
    <3> QED
      BY <2>1, <3>1, <3>2 DEF SameBuffers
  <2>2. CASE e.ring # <<>>
    BY <1>3, <2>2, RotatedSame, RotatedRing
  <2> QED
    BY <2>1, <2>2
<1> HIDE DEF r
<1>5. editor' = [editor EXCEPT ![p] = f]
  BY <1>1, <1>3 DEF TypeOK, IsEditor, Fields
<1> HIDE DEF e
<1>6. /\ DOMAIN f = Fields /\ f.pc = "idle" /\ f.ring = r /\ f.save = e.save
      /\ f.args = e.args /\ f.up = TRUE /\ f.todo = e.todo /\ f.slot = e.slot
      /\ f.missed = e.missed /\ f.owed = e.owed
  BY <1>3 DEF IsEditor, Fields
<1> HIDE DEF f
<1>7. IsEditor(f)
  <2>1. "idle" \in Pc
    BY DEF Pc
  <2>2. f.up \in BOOLEAN
    BY <1>6
  <2> QED
    BY <1>3, <1>4, <1>6, <2>1, <2>2 DEF IsEditor
<1>8. f.pc \notin Opening
  BY <1>6 DEF Opening
<1> QED
  BY <1>2, <1>3, <1>4, <1>5, <1>6, <1>7, <1>8, RingKeeps DEF e

LEMMA OpenAnotherKeeps ==
  ASSUME Inv, NEW p \in Editors, OpenAnother(p)
  PROVE  Inv'
<1>1. editor[p].pc = "idle" /\ UNCHANGED <<file, stored, world, spent>>
  BY DEF OpenAnother, At
<1>2. PICK n \in scenario.another : editor' = [editor EXCEPT ![p].pc = "open", ![p].args = <<n>>]
  BY DEF OpenAnother
<1> DEFINE e == editor[p]
           a == <<n>>
           f == [e EXCEPT !.pc = "open", !.args = a]
<1>3. WorldOK' /\ UNCHANGED <<lock, backup, rescue>>
  BY <1>1, SameWorld
<1>4. /\ IsEditor(e) /\ SameBuffers(e.ring, e.ring) /\ TypeOK /\ WorldOK /\ e.pc \in Working
  BY <1>1, Facts DEF Pc, Working, Closed, Ending3, Opening
<1>5. a \in Seq(Names)
  <2>1. n \in Names
    BY <1>4, ScenariosAssumption DEF WorldOK
  <2> QED
    BY <2>1
<1>6. editor' = [editor EXCEPT ![p] = f]
  BY <1>2, <1>4 DEF TypeOK, IsEditor, Fields
<1> HIDE DEF e, a
<1>7. /\ DOMAIN f = Fields /\ f.pc = "open" /\ f.ring = e.ring /\ f.save = e.save
      /\ f.args = a /\ f.up = e.up /\ f.todo = e.todo /\ f.slot = e.slot
      /\ f.missed = e.missed /\ f.owed = e.owed
  BY <1>4 DEF IsEditor, Fields
<1> HIDE DEF f
<1>8. "open" \in Pc
  BY DEF Pc
<1>9. IsEditor(f) /\ f.pc \notin Opening
  BY <1>4, <1>5, <1>7, <1>8 DEF IsEditor, Opening
<1> QED
  BY <1>3, <1>4, <1>6, <1>7, <1>9, RingKeeps DEF e

LEMMA TypeKeeps ==
  ASSUME Inv, NEW p \in Editors, Type(p)
  PROVE  Inv'
<1> DEFINE e == editor[p]
           b == Cur(p)
           t == Append(b.text, spent.pieces + 1)
           c == [b EXCEPT !.text = t, !.mod = TRUE]
           pc == "idle"
<1>1. e.pc = "idle" /\ UNCHANGED <<file, stored, poslog, now, scenario, disturbed>>
      /\ editor' = [editor EXCEPT ![p] = WithCur(e, c)]
      /\ spent' = [spent EXCEPT !.pieces = @ + 1]
  BY DEF Type, At
<1>2. \/ lock' = lock
      \/ b.lock # NoName /\ \E l \in LockOutcomes(p, TRUE) : lock' = [lock EXCEPT ![b.lock] = l]
  BY Zenon DEF Type
<1>3. /\ IsEditor(e) /\ Standing(e) /\ WorldOK /\ TypeOK /\ b \in Buffer /\ b = e.ring[1]
  BY <1>1, Facts DEF Bufferless
<1>4. t \in Text
  BY <1>3 DEF WorldOK, Buffer, Text
<1>5. editor' = [editor EXCEPT ![p] = WithCur(e, c)] /\ IsEditor(e) /\ e.pc = pc
  BY <1>1, <1>3
<1>6. e.pc \in Working \ Bufferless /\ pc \in Working \ (Early \cup Late)
      /\ pc \notin Opening \cup {"closing", "lock", "stat file"}
  BY <1>1 DEF Pc, Opening, Working, Early, Late, Closed, Ending3, Bufferless
<1> HIDE DEF pc, b, t, e
<1>7. c \in Buffer /\ c.lock = e.ring[1].lock /\ c.mod = TRUE /\ c.lock = b.lock
  BY <1>3, <1>4 DEF Buffer
<1> HIDE DEF c
<1>8. /\ lock' \in [Names -> LockFile]
      /\ \A n \in Names : lock'[n] = lock[n] \/ (n = c.lock /\ lock'[n].by \in {p, Garbled})
  <2>1. lock \in [Names -> LockFile]
    BY <1>3 DEF WorldOK
  <2>2. CASE lock' = lock
    BY <2>1, <2>2
  <2>3. CASE b.lock # NoName /\ \E l \in LockOutcomes(p, TRUE) : lock' = [lock EXCEPT ![b.lock] = l]
    <3>1. PICK l \in LockOutcomes(p, TRUE) : lock' = [lock EXCEPT ![b.lock] = l]
      BY <2>3
    <3>2. l \in LockFile /\ l.by \in {p, Garbled}
      BY LockOutcomesAre
    <3>3. b.lock \in Names
      BY <1>3, <2>3 DEF Buffer, NameOrNot
    <3> QED
      BY <1>7, <2>1, <3>1, <3>2, <3>3
  <2> QED
    BY <1>2, <2>2, <2>3
<1>9. WorldOK' /\ UNCHANGED <<backup, rescue>>
  <2>1. [spent EXCEPT !.pieces = @ + 1] \in [pieces : Nat, saves : Nat, searches : Nat]
    BY <1>3 DEF WorldOK
  <2> QED
    BY <1>1, <1>3, <1>8, <2>1 DEF WorldOK, stored
<1>10. ~c.mod => c.text = c.base
  BY <1>7
<1> QED
  BY <1>5, <1>6, <1>7, <1>8, <1>9, <1>10, EditedKeeps DEF e

LEMMA SwitchKeeps ==
  ASSUME Inv, NEW p \in Editors, Switch(p)
  PROVE  Inv'
<1> DEFINE e == editor[p]
<1>1. e.pc = "idle" /\ UNCHANGED <<file, stored, world, spent>>
  BY DEF Switch, At
<1>2. WorldOK' /\ UNCHANGED <<lock, backup, rescue>>
  BY <1>1, SameWorld
<1>3. /\ IsEditor(e) /\ e.ring \in Seq(Buffer) /\ e.ring # <<>> /\ e.pc \in Working /\ TypeOK
  BY <1>1, Facts DEF Pc, Working, Closed, Ending3, Opening, Bufferless
<1>4. ASSUME NEW r, r \in Seq(Buffer), r # <<>>, SameBuffers(r, e.ring),
             editor' = [editor EXCEPT ![p].ring = r]
      PROVE  Inv'
  <2> DEFINE f == [e EXCEPT !.ring = r]
  <2>1. editor' = [editor EXCEPT ![p] = f]
    BY <1>3, <1>4 DEF TypeOK
  <2> HIDE DEF e
  <2>2. /\ DOMAIN f = Fields /\ f.pc = e.pc /\ f.ring = r /\ f.save = e.save
        /\ f.args = e.args /\ f.up = e.up /\ f.todo = e.todo /\ f.slot = e.slot
        /\ f.missed = e.missed /\ f.owed = e.owed
    BY <1>3 DEF IsEditor, Fields
  <2> HIDE DEF f
  <2>3. IsEditor(f) /\ f.pc = "idle" /\ f.pc \notin Opening
    BY <1>1, <1>3, <1>4, <2>2 DEF IsEditor, Opening
  <2> QED
    BY <1>2, <1>3, <1>4, <2>1, <2>2, <2>3, RingKeeps DEF e
<1>5. CASE editor' = [editor EXCEPT ![p].ring = Rotated(editor[p].ring)]
  <2> DEFINE r == Rotated(e.ring)
  <2>1. r \in Seq(Buffer) /\ r # <<>> /\ SameBuffers(r, e.ring)
    BY <1>3, RotatedRing, RotatedSame
  <2>2. editor' = [editor EXCEPT ![p].ring = r]
    BY <1>5
  <2> HIDE DEF r, e
  <2> QED
    BY <1>4, <2>1, <2>2
<1>6. CASE editor' = [editor EXCEPT ![p].ring = <<Last(editor[p].ring)>> \o Front(editor[p].ring)]
  <2> DEFINE r == <<Last(e.ring)>> \o Front(e.ring)
  <2>1. r \in Seq(Buffer) /\ r # <<>> /\ SameBuffers(r, e.ring)
    BY <1>3, RotatedBack, RotatedSame
  <2>2. editor' = [editor EXCEPT ![p].ring = r]
    BY <1>6
  <2> HIDE DEF r, e
  <2> QED
    BY <1>4, <2>1, <2>2
<1> QED
  BY <1>5, <1>6 DEF Switch

LEMMA SearchKeeps ==
  ASSUME Inv, NEW p \in Editors, Search(p)
  PROVE  Inv'
<1>1. editor[p].pc = "idle" /\ UNCHANGED <<file, stored, world>>
      /\ spent' = [spent EXCEPT !.searches = @ + 1]
  BY DEF Search, At
<1>2. PICK s \in scenario.strings :
        editor' = [editor EXCEPT ![p].searches = Updated(@, s), ![p].searched = TRUE]
  BY DEF Search
<1> DEFINE e == editor[p]
           l == Updated(e.searches, s)
           g == [e EXCEPT !.searches = l]
           f == [g EXCEPT !.searched = TRUE]
<1>3. /\ IsEditor(e) /\ SameBuffers(e.ring, e.ring) /\ TypeOK /\ WorldOK /\ e.pc \in Working
      /\ e.ring # <<>>
  BY <1>1, Facts DEF Pc, Working, Closed, Ending3, Opening, Bufferless
<1>4. WorldOK' /\ UNCHANGED <<lock, backup, rescue>>
  <2>1. [spent EXCEPT !.searches = @ + 1] \in [pieces : Nat, saves : Nat, searches : Nat]
    BY <1>3 DEF WorldOK
  <2> QED
    BY <1>1, <1>3, <2>1 DEF WorldOK, stored, world
<1>5. editor' = [editor EXCEPT ![p] = f]
  <2> HIDE DEF l
  <2>1. editor' = [editor EXCEPT ![p].searches = l, ![p].searched = TRUE]
    BY <1>2 DEF l
  <2> QED
    BY <1>3, <2>1 DEF TypeOK, IsEditor, Fields
<1> HIDE DEF e, l
<1>6. IsEditor(g) /\ Same(g, e)
  BY <1>3, OneLogIs
<1> HIDE DEF g
<1>7. IsEditor(f) /\ Same(f, g)
  BY <1>6, OneLogIs
<1> HIDE DEF f
<1>8. f.pc = "idle" /\ f.ring = e.ring /\ f.save = e.save /\ f.pc \notin Opening
  BY <1>1, <1>6, <1>7 DEF Same, Opening, e
<1> QED
  BY <1>3, <1>4, <1>5, <1>7, <1>8, RingKeeps DEF e

(* A save begins.                                                          *)
LEMMA NoSaveIs ==
  NoSave \in SaveRecord /\ NoSave.backed = FALSE
<1>1. <<>> \in Text /\ NoStat \in Stamps
  BY DEF Text, NoStat, Stamps, NameOrNot
<1> QED
  BY <1>1 DEF NoSave, SaveRecord, NameOrNot, Method

LEMMA StartSaveKeeps ==
  ASSUME Inv, NEW p \in Editors, editor[p].pc = "idle", NEW exiting \in BOOLEAN,
         NEW prompt \in BOOLEAN, NEW mark \in BOOLEAN, mark => Cur(p).text # <<>>,
         StartSave(p, exiting, prompt, mark), UNCHANGED <<file, stored, world>>
  PROVE  Inv'
<1> DEFINE e == editor[p]
           s == [NoSave EXCEPT !.exiting = exiting, !.prompt = prompt, !.mark = mark]
           pc == "prompt"
           f == [e EXCEPT !.pc = pc, !.save = s]
<1>1. /\ spent' = [spent EXCEPT !.saves = @ + 1]
      /\ editor' = [editor EXCEPT ![p].pc = "prompt", ![p].save = s]
  BY DEF StartSave
<1>2. /\ IsEditor(e) /\ TypeOK /\ WorldOK /\ Cur(p) = e.ring[1]
  BY Facts DEF Bufferless
<1>3. editor' = [editor EXCEPT ![p] = f]
  <2> HIDE DEF s
  <2> QED
    BY <1>1, <1>2 DEF TypeOK, IsEditor, Fields
<1>4. /\ s \in SaveRecord /\ s.mark = mark /\ s.backed = FALSE
  BY NoSaveIs DEF SaveRecord
<1>5. WorldOK' /\ UNCHANGED <<lock, backup, rescue>>
  <2>1. [spent EXCEPT !.saves = @ + 1] \in [pieces : Nat, saves : Nat, searches : Nat]
    BY <1>2 DEF WorldOK
  <2> QED
    BY <1>1, <1>2, <2>1 DEF WorldOK, stored, world
<1>6. pc \in Early \cup Late /\ e.pc \in Early \cup Late \cup {"idle"} /\ pc = "prompt"
  BY DEF Early
<1>7. f = [editor[p] EXCEPT !.pc = pc, !.save = s] \/ f = [editor[p] EXCEPT !.save = s, !.pc = pc]
  OBVIOUS
<1>8. s.mark => editor[p].ring[1].text # <<>>
  BY <1>2, <1>4
<1> HIDE DEF s, pc, f
<1> QED
  BY <1>3, <1>4, <1>5, <1>6, <1>7, <1>8, SaveKeeps

LEMMA MarksAre ==
  ASSUME Inv, NEW p \in Editors, NEW mark \in Marks(p)
  PROVE  mark \in BOOLEAN /\ (mark => Cur(p).text # <<>>)
<1>1. scenario.marks \subseteq BOOLEAN
  BY ScenariosAssumption DEF Inv, TypeOK, WorldOK
<1>2. CASE Cur(p).text # <<>>
  BY <1>1, <1>2 DEF Marks
<1>3. CASE Cur(p).text = <<>>
  BY <1>3 DEF Marks
<1> QED
  BY <1>2, <1>3

LEMMA DoWriteoutKeeps ==
  ASSUME Inv, NEW p \in Editors, DoWriteout(p)
  PROVE  Inv'
<1>1. editor[p].pc = "idle" /\ UNCHANGED <<file, stored, world>>
  BY DEF DoWriteout, At
<1>2. PICK mark \in Marks(p) : StartSave(p, FALSE, TRUE, mark)
  BY DEF DoWriteout
<1> QED
  BY <1>1, <1>2, MarksAre, StartSaveKeeps

LEMMA DoSavefileKeeps ==
  ASSUME Inv, NEW p \in Editors, DoSavefile(p)
  PROVE  Inv'
<1>1. editor[p].pc = "idle" /\ UNCHANGED <<file, stored, world>> /\ StartSave(p, FALSE, FALSE, FALSE)
  BY DEF DoSavefile, At
<1> QED
  BY <1>1, StartSaveKeeps

LEMMA DoExitKeeps ==
  ASSUME Inv, NEW p \in Editors, DoExit(p)
  PROVE  Inv'
<1>1. editor[p].pc = "idle" /\ UNCHANGED <<file, stored, world>>
  BY DEF DoExit, At
<1>2. CASE ~Cur(p).mod /\ Goto(p, "closing") /\ UNCHANGED spent
  <2>1. WorldOK' /\ UNCHANGED <<lock, backup, rescue>>
    BY <1>1, <1>2, SameWorld
  <2>2. /\ Standing(editor[p]) /\ Cur(p) = editor[p].ring[1]
        /\ DOMAIN editor[p].ring = 1 .. Len(editor[p].ring) /\ Len(editor[p].ring) \in Nat \ {0}
    BY <1>1, Facts DEF Bufferless
  <2>3. 1 \in DOMAIN editor[p].ring
    BY <2>2
  <2>4. editor[p].ring[1].text = editor[p].ring[1].base
    BY <1>1, <1>2, <2>2, <2>3 DEF Standing, Ending3
  <2> DEFINE pc == "closing"
  <2>5. pc \in Early \cup Late \cup {"idle", "closing"} /\ pc \notin Early \cup Late
        /\ Goto(p, pc) /\ pc = "closing"
    BY <1>2 DEF Early, Late
  <2> HIDE DEF pc
  <2> QED
    BY <1>1, <2>1, <2>4, <2>5, GotoKeeps
<1>3. CASE Dropped(p) /\ UNCHANGED spent
  BY <1>1, <1>3, SameWorld, DroppedKeeps
<1>4. CASE \E mark \in Marks(p) : StartSave(p, TRUE, TRUE, mark)
  BY <1>1, <1>4, MarksAre, StartSaveKeeps
<1> QED
  BY <1>2, <1>3, <1>4 DEF DoExit

-----------------------------------------------------------------------------
(* Closing buffers.                                                        *)

(* The lock files of the editor, when that of the current buffer is gone.  *)
Elsewhere(p, locks) ==
  \A n \in Names : locks[n].by = p =>
    lock[n].by = p /\ \E i \in 2 .. Len(editor[p].ring) : editor[p].ring[i].lock = n

LEMMA UnlockedElsewhere ==
  ASSUME Inv, NEW p \in Editors, editor[p].pc = "closing", lock' = Unlocked(Cur(p))
  PROVE  /\ Elsewhere(p, lock') /\ lock' \in [Names -> LockFile]
         /\ \A n \in Names : lock'[n].by \in {lock[n].by, Nobody}
<1> DEFINE e == editor[p]
           b == Cur(p)
<1>1. /\ WorldOK /\ b \in Buffer /\ b = e.ring[1] /\ Len(e.ring) \in Nat \ {0}
  BY Facts DEF Bufferless
<1>2. b.lock \in NameOrNot /\ Nobody # p
  BY <1>1, DistinctConstants DEF Buffer
<1> HIDE DEF b
<1>3. /\ lock' \in [Names -> LockFile]
      /\ \A n \in Names : lock'[n] = IF n = b.lock THEN NoLock ELSE lock[n]
      /\ NoLock.by = Nobody
  BY <1>1, <1>2, WithoutLockIs DEF Unlocked, b
<1>4. ASSUME NEW n \in Names, lock'[n].by = p
      PROVE  lock[n].by = p /\ \E i \in 2 .. Len(e.ring) : e.ring[i].lock = n
  <2>1. lock[n].by = p /\ n # b.lock
    BY <1>2, <1>3, <1>4
  <2>2. Holds(e, n) /\ Held(e) = 1 .. Len(e.ring)
    BY <2>1 DEF Inv, LocksHeld, Held, Closed
  <2>3. PICK i \in 1 .. Len(e.ring) : e.ring[i].lock = n
    BY <2>2 DEF Holds
  <2>4. i \in 2 .. Len(e.ring)
    <3>1. i # 1
      BY <1>1, <2>1, <2>3
    <3> HIDE DEF e
    <3> QED
      BY <1>1, <3>1
  <2> QED
    BY <2>1, <2>3, <2>4
<1> QED
  BY <1>3, <1>4 DEF Elsewhere

(* The current buffer is taken away.                                       *)
LEMMA ClosedKeeps ==
  ASSUME Inv, NEW p \in Editors, editor[p].pc \in {"closing", "write log"},
         NEW g, IsEditor(g), g.ring = editor[p].ring, g.save = editor[p].save,
         editor' = [editor EXCEPT ![p] = WithoutFirst(g)],
         WorldOK', UNCHANGED <<backup, rescue>>, Elsewhere(p, lock'),
         \A n \in Names : lock'[n].by \in {lock[n].by, Nobody}
  PROVE  Inv'
<1> DEFINE e == editor[p]
           f == WithoutFirst(g)
           n == Len(e.ring)
<1>1. /\ IsEditor(e) /\ Standing(e) /\ e.ring \in Seq(Buffer) /\ e.ring # <<>>
      /\ n \in Nat \ {0} /\ DOMAIN e.ring = 1 .. n /\ e.pc \in {"closing", "write log"}
  BY Facts DEF Bufferless
<1>2. BackupHolds(f, p, backup')
  <2>1. BackupHolds(e, p, backup)
    BY DEF Inv, BackupsHold
  <2>2. f.save = e.save
    BY DEF WithoutFirst, IsEditor, Fields
  <2> QED
    BY <2>1, <2>2 DEF BackupHolds
<1>3. Grown(rescue, rescue')
  BY DEF Grown
<1>4. \A i \in 1 .. n : ~e.ring[i].mod => e.ring[i].text = e.ring[i].base
  BY <1>1 DEF Standing, Ending3
<1>5. e.save.backed => e.save.name \in Names
  BY <1>1 DEF Standing
<1>6. /\ \A m \in Names : lock'[m].by = p => \E i \in 2 .. n : e.ring[i].lock = m
  BY DEF Elsewhere
<1>7. /\ \A m \in Names : backup'[m] = backup[m] \/ backup'[m].by \in {p, Nobody}
      /\ \A m \in Names : lock'[m].by \in {lock[m].by, p, Nobody, Garbled}
  OBVIOUS
<1>8. g.ring = e.ring /\ g.save = e.save /\ editor' = [editor EXCEPT ![p] = f]
  OBVIOUS
<1>9. n \in Nat /\ n # 0
  BY <1>1
<1>10. CASE n = 1
  <2>1. f = [g EXCEPT !.pc = "finish"]
    BY <1>8, <1>10 DEF WithoutFirst
  <2> HIDE DEF f, e, n
  <2>2. IsEditor(f) /\ f.pc = "finish" /\ f.ring = e.ring /\ f.save = e.save
    <3> DEFINE pc == "finish"
               h == [g EXCEPT !.pc = pc]
    <3>1. pc \in Pc /\ f = h
      BY <2>1 DEF Pc, Closed
    <3> HIDE DEF pc
    <3>2. IsEditor(h) /\ h.pc = pc /\ h.ring = g.ring /\ h.save = g.save
      BY <3>1, PcChanges
    <3> HIDE DEF h
    <3> QED
      BY <1>8, <3>1, <3>2 DEF pc
  <2>3. Len(f.ring) = 1 /\ DOMAIN f.ring = 1 .. 1
    BY <1>1, <1>10, <2>2 DEF n
  <2>4. Standing(f)
    BY <1>1, <1>4, <1>5, <1>10, <2>2, <2>3 DEF Standing, Early, Late, Opening
  <2>5. ASSUME NEW m \in Names, lock'[m].by = p
        PROVE  Holds(f, m)
    BY ONLY <1>6, <1>10, <2>5
  <2>6. RescueOf(f, p, rescue')
    BY <2>2 DEF RescueOf, Ending3
  <2> QED
    BY <1>2, <1>3, <1>7, <1>8, <2>2, <2>4, <2>5, <2>6, StepKeeps
<1>11. CASE n # 1
  <2> DEFINE r == Tail(e.ring)
  <2>1. f = [g EXCEPT !.ring = r, !.pc = "idle"]
    BY <1>8, <1>11 DEF WithoutFirst
  <2>2. /\ r \in Seq(Buffer) /\ Len(r) = n - 1 /\ DOMAIN r = 1 .. n - 1 /\ r # <<>>
        /\ \A i \in 1 .. n - 1 : r[i] = e.ring[i + 1]
    <3>1. n > 1
      <4> HIDE DEF n
      <4> QED
        BY ONLY <1>11, <1>9
    <3> QED
      BY <1>1, <3>1, FirstGone
  <2> HIDE DEF f, e, n, r
  <2>3. IsEditor(f) /\ f.pc = "idle" /\ f.ring = r /\ f.save = e.save
    <3> DEFINE pc == "idle"
    <3>1. pc \in Pc
      BY DEF Pc
    <3>2. f = [g EXCEPT !.pc = pc, !.ring = r] \/ f = [g EXCEPT !.ring = r, !.pc = pc]
      BY <2>1
    <3> HIDE DEF pc
    <3>3. IsEditor(f) /\ f.pc = pc /\ f.ring = r /\ f.save = g.save /\ SameRest(f, g)
      <4>1. r \in Seq(Buffer) /\ IsEditor(g)
        BY <2>2
      <4> QED
        BY <3>1, <3>2, <4>1, RingChanges
    <3> QED
      BY <1>8, <3>3 DEF pc
  <2>4. Standing(f)
    <3>1. ASSUME NEW i \in 1 .. n - 1, ~r[i].mod
          PROVE  r[i].text = r[i].base
      <4>1. i + 1 \in 1 .. n
        BY ONLY <1>9
      <4> QED
        BY <1>4, <2>2, <3>1, <4>1
    <3> QED
      BY <1>5, <2>2, <2>3, <3>1 DEF Standing, Early, Late, Opening
  <2>5. ASSUME NEW m \in Names, lock'[m].by = p
        PROVE  Holds(f, m)
    <3>1. PICK i \in 2 .. n : e.ring[i].lock = m
      BY <1>6, <2>5
    <3>2. i - 1 \in 1 .. n - 1 /\ i - 1 + 1 = i
      BY ONLY <1>9
    <3>3. r[i - 1].lock = m
      BY <2>2, <3>1, <3>2
    <3>4. Held(f) = 1 .. n - 1
      BY <2>2, <2>3 DEF Held, Closed
    <3> QED
      BY <2>3, <3>2, <3>3, <3>4 DEF Holds
  <2>6. RescueOf(f, p, rescue')
    BY <2>3 DEF RescueOf, Ending3
  <2> QED
    BY <1>2, <1>3, <1>7, <1>8, <2>3, <2>4, <2>5, <2>6, StepKeeps
<1> QED
  BY <1>10, <1>11

(* The current buffer is done with, but is still there.                    *)
LEMMA LoggingKeeps ==
  ASSUME Inv, NEW p \in Editors, editor[p].pc \in {"closing", "open log"},
         NEW f, editor' = [editor EXCEPT ![p] = f], IsEditor(f),
         f.pc \in {"open log", "write log"}, f.ring = editor[p].ring, f.save = editor[p].save,
         WorldOK', UNCHANGED <<backup, rescue>>, Elsewhere(p, lock'),
         \A n \in Names : lock'[n].by \in {lock[n].by, Nobody}
  PROVE  Inv'
<1> DEFINE e == editor[p]
<1>1. /\ IsEditor(e) /\ Standing(e) /\ e.ring # <<>>
  BY Facts DEF Bufferless
<1>2. Standing(f)
  <2>1. \A i \in DOMAIN f.ring : ~f.ring[i].mod => f.ring[i].text = f.ring[i].base
    BY <1>1 DEF Standing, Ending3
  <2>2. f.save.backed => f.save.name \in Names
    BY <1>1 DEF Standing
  <2>3. f.ring # <<>>
    BY <1>1
  <2> HIDE DEF e
  <2> QED
    BY <2>1, <2>2, <2>3 DEF Standing, Early, Late, Opening
<1>3. \A m \in Names : lock'[m].by = p => Holds(f, m)
  BY DEF Elsewhere, Holds, Held, Closed
<1>4. BackupHolds(f, p, backup')
  <2>1. BackupHolds(e, p, backup)
    BY DEF Inv, BackupsHold
  <2> QED
    BY <2>1 DEF BackupHolds
<1>5. RescueOf(f, p, rescue') /\ Grown(rescue, rescue')
  BY DEF RescueOf, Ending3, Grown
<1>6. /\ \A m \in Names : backup'[m] = backup[m] \/ backup'[m].by \in {p, Nobody}
      /\ \A m \in Names : lock'[m].by \in {lock[m].by, p, Nobody, Garbled}
  OBVIOUS
<1> HIDE DEF e
<1> QED
  BY <1>2, <1>3, <1>4, <1>5, <1>6, StepKeeps

LEMMA CloseKeeps ==
  ASSUME Inv, NEW p \in Editors, Close(p)
  PROVE  Inv'
<1> DEFINE e == editor[p]
           n == Cur(p).name
           g == [e EXCEPT !.pc = "open log"]
           f == UpdatePosHistory(g, n)
<1>1. e.pc = "closing" /\ UNCHANGED <<file, stored, poslog, now, scenario, spent>>
      /\ lock' = Unlocked(Cur(p))
  BY DEF Close, At
<1>2. /\ Elsewhere(p, lock') /\ lock' \in [Names -> LockFile]
      /\ \A m \in Names : lock'[m].by \in {lock[m].by, Nobody}
  BY <1>1, UnlockedElsewhere
<1>3. IsEditor(e) /\ WorldOK /\ TypeOK
  BY Facts
<1>4. WorldOK' /\ UNCHANGED <<backup, rescue>>
  BY <1>1, <1>2, <1>3 DEF WorldOK, stored
<1>5. CASE editor' = [editor EXCEPT ![p] = WithoutFirst(@)]
  <2>1. editor' = [editor EXCEPT ![p] = WithoutFirst(e)]
    BY <1>3, <1>5 DEF TypeOK
  <2> QED
    BY <1>1, <1>2, <1>3, <1>4, <2>1, ClosedKeeps
<1>6. CASE editor' = [editor EXCEPT ![p] = UpdatePosHistory([@ EXCEPT !.pc = "open log"], n)]
  <2>1. editor' = [editor EXCEPT ![p] = f]
    BY <1>3, <1>6 DEF TypeOK
  <2>2. "open log" \in Pc
    BY DEF Pc, Closed
  <2> HIDE DEF e, f
  <2>3. IsEditor(g) /\ g.pc = "open log" /\ g.ring = e.ring /\ g.save = e.save
    BY <1>3, <2>2, PcChanges
  <2> HIDE DEF g
  <2>4. IsEditor(f) /\ Same(f, g)
    BY <2>3, ReloadedIs DEF f
  <2>5. f.pc = "open log" /\ f.ring = e.ring /\ f.save = e.save
    BY <2>3, <2>4 DEF Same
  <2> QED
    BY <1>1, <1>2, <1>4, <2>1, <2>4, <2>5, LoggingKeeps DEF e
<1> QED
  BY <1>5, <1>6 DEF Close

(* Before and while the history is written nothing is locked for the       *)
(* buffer that is being closed.                                            *)
LEMMA ClosedElsewhere ==
  ASSUME Inv, NEW p \in Editors, editor[p].pc \in Closed, lock' = lock
  PROVE  Elsewhere(p, lock') /\ \A n \in Names : lock'[n].by \in {lock[n].by, Nobody}
BY DEF Inv, LocksHeld, Holds, Held, Closed, Elsewhere

LEMMA OpenLogKeeps ==
  ASSUME Inv, NEW p \in Editors, OpenLog(p)
  PROVE  Inv'
<1> DEFINE e == editor[p]
           f == [e EXCEPT !.pc = "write log"]
<1>1. e.pc = "open log" /\ UNCHANGED <<file, stored, lock, now, scenario, spent, disturbed>>
      /\ Goto(p, "write log")
  BY DEF OpenLog, At
<1>2. Elsewhere(p, lock') /\ \A n \in Names : lock'[n].by \in {lock[n].by, Nobody}
  BY <1>1, ClosedElsewhere DEF Closed
<1>3. IsEditor(e) /\ WorldOK /\ TypeOK
  BY Facts
<1>4. WorldOK' /\ UNCHANGED <<backup, rescue>>
  BY <1>1, <1>3 DEF WorldOK, stored
<1>5. editor' = [editor EXCEPT ![p] = f]
  BY <1>1, <1>3 DEF Goto, TypeOK
<1>6. "write log" \in Pc
  BY DEF Pc, Closed
<1>7. IsEditor(f) /\ f.pc = "write log" /\ f.ring = e.ring /\ f.save = e.save
  <2> HIDE DEF e
  <2> QED
    BY <1>3, <1>6, PcChanges
<1> HIDE DEF f
<1> QED
  BY <1>1, <1>2, <1>4, <1>5, <1>7, LoggingKeeps

LEMMA WriteLogKeeps ==
  ASSUME Inv, NEW p \in Editors, WriteLog(p)
  PROVE  Inv'
<1> DEFINE e == editor[p]
           g == [e EXCEPT !.stamp = now]
<1>1. e.pc = "write log" /\ UNCHANGED <<file, stored, lock, now, scenario, spent, disturbed>>
      /\ editor' = [editor EXCEPT ![p] = WithoutFirst(g)]
  BY DEF WriteLog, At
<1>2. Elsewhere(p, lock') /\ \A n \in Names : lock'[n].by \in {lock[n].by, Nobody}
  BY <1>1, ClosedElsewhere DEF Closed
<1>3. IsEditor(e) /\ WorldOK
  BY Facts
<1>4. WorldOK' /\ UNCHANGED <<backup, rescue>>
  BY <1>1, <1>3 DEF WorldOK, stored
<1> HIDE DEF e
<1>5. IsEditor(g) /\ g.ring = e.ring /\ g.save = e.save
  BY <1>3, OneLogIs DEF Same
<1> HIDE DEF g
<1> QED
  BY <1>1, <1>2, <1>4, <1>5, ClosedKeeps DEF e

LEMMA FinishKeeps ==
  ASSUME Inv, NEW p \in Editors, Finish(p)
  PROVE  Inv'
<1> DEFINE e == editor[p]
           r == <<>>
           pc == "gone"
           f == [e EXCEPT !.pc = pc, !.ring = r]
<1>1. e.pc = "finish" /\ UNCHANGED <<file, backup, home, rescue, world, spent, disturbed>>
      /\ editor' = [editor EXCEPT ![p].pc = "gone", ![p].ring = <<>>]
  BY DEF Finish, At
<1>2. IsEditor(e) /\ Standing(e) /\ TypeOK /\ WorldOK
  BY Facts
<1>3. WorldOK' /\ UNCHANGED <<lock, backup, rescue>>
  BY <1>1, <1>2 DEF WorldOK, world
<1>4. editor' = [editor EXCEPT ![p] = f]
  BY <1>1, <1>2 DEF TypeOK
<1>5. r \in Seq(Buffer) /\ pc \in Pc /\ pc = "gone" /\ DOMAIN r = {} /\ Len(r) = 0
  BY DEF Pc
<1>6. f = [e EXCEPT !.pc = pc, !.ring = r] \/ f = [e EXCEPT !.ring = r, !.pc = pc]
  OBVIOUS
<1> HIDE DEF r, pc, f
<1>7. IsEditor(f) /\ f.pc = pc /\ f.ring = r /\ f.save = e.save /\ SameRest(f, e)
  <2> HIDE DEF e
  <2>1. r \in Seq(Buffer) /\ IsEditor(e) /\ pc \in Pc
    BY <1>2, <1>5
  <2> QED
    BY <1>6, <2>1, RingChanges
<1>8. Standing(f)
  <2>1. f.save.backed => f.save.name \in Names
    BY <1>2, <1>7 DEF Standing
  <2> HIDE DEF e
  <2> QED
    BY <1>5, <1>7, <2>1 DEF Standing, Early, Late, Opening, Bufferless
<1>9. \A n \in Names : lock[n].by # p
  <2>1. Len(e.ring) = 1
    BY <1>1, <1>2 DEF Standing
  <2>2. Held(e) = 2 .. 1
    BY <1>1, <2>1 DEF Held, Closed
  <2>3. \A n \in Names : ~Holds(e, n)
    BY <1>1, <2>2 DEF Holds
  <2> QED
    BY <2>3 DEF Inv, LocksHeld
<1>10. BackupHolds(f, p, backup')
  <2>1. BackupHolds(e, p, backup)
    BY DEF Inv, BackupsHold
  <2> QED
    BY <1>3, <1>7, <2>1 DEF BackupHolds
<1>11. RescueOf(f, p, rescue') /\ Grown(rescue, rescue')
  BY <1>3, <1>5, <1>7 DEF RescueOf, Ending3, Grown
<1>12. /\ \A m \in Names : backup'[m] = backup[m] \/ backup'[m].by \in {p, Nobody}
       /\ \A m \in Names : lock'[m].by \in {lock[m].by, p, Nobody, Garbled}
       /\ \A m \in Names : lock'[m].by = p => Holds(f, m)
  BY <1>3, <1>9
<1> QED
  BY <1>3, <1>4, <1>7, <1>8, <1>10, <1>11, <1>12, StepKeeps

-----------------------------------------------------------------------------
(* The end of an editor.                                                   *)

LEMMA TornIs == Torn \in Text
BY DEF Torn, Text

LEMMA LeftIsFile ==
  ASSUME Inv, NEW p \in Editors, LeftAsItIs(p)
  PROVE  file' \in [Names -> File]
<1>1. file \in [Names -> File] /\ WorldOK
  BY DEF Inv, TypeOK, WorldOK
<1>2. CASE At(p, "write") /\ file' = Written(p, Torn)
  <2>1. Target(p) \in Names
    BY <1>2, SavingFacts DEF At, Late
  <2> QED
    BY <1>1, <1>2, <2>1, TornIs, WrittenIsFile
<1> QED
  BY <1>1, <1>2 DEF LeftAsItIs

LEMMA HangupKeeps ==
  ASSUME Inv, NEW p \in Editors, Hangup(p)
  PROVE  Inv'
<1> DEFINE e == editor[p]
           n == Len(e.ring)
           writing == e.pc \in {"stat", "backup", "copy", "prepend", "open file", "write", "sync", "note"}
           cut == writing /\ Region(e.save)
           c == [Cur(p) EXCEPT !.text = Content(p)]
           r == IF cut THEN <<c>> \o Tail(e.ring) ELSE e.ring
           owed == {[key |-> KeyOf(b, p), text |-> b.text] : b \in {x \in ToSet(e.ring) : x.mod}}
           pc == "dying"
           f == [e EXCEPT !.pc = pc, !.todo = n, !.missed = cut, !.ring = r, !.owed = owed]
<1>1. /\ Alive(p) /\ e.pc \notin {"dying", "rescue"} /\ LeftAsItIs(p)
      /\ UNCHANGED <<stored, world, spent>>
  BY DEF Hangup
<1>2. editor' = [editor EXCEPT ![p].pc = "dying", ![p].todo = Len(e.ring), ![p].missed = cut,
                   ![p].ring = IF cut THEN <<c>> \o Tail(@) ELSE @, ![p].owed = owed]
  BY DEF Hangup, KeyOf
<1>3. /\ IsEditor(e) /\ Standing(e) /\ WorldOK /\ TypeOK /\ e.ring \in Seq(Buffer)
      /\ n \in Nat /\ DOMAIN e.ring = 1 .. n
  <2>1. IsEditor(e) /\ Standing(e) /\ WorldOK /\ TypeOK /\ e.ring \in Seq(Buffer)
    BY Facts
  <2> QED
    BY <2>1, LenProperties
<1>4. WorldOK' /\ UNCHANGED <<lock, backup, rescue>>
  <2>1. file' \in [Names -> File]
    BY <1>1, LeftIsFile
  <2> QED
    BY <1>1, <1>3, <2>1 DEF WorldOK, stored, world
<1>5. editor' = [editor EXCEPT ![p] = f]
  <2> HIDE DEF owed, cut, c
  <2>1. r = IF cut THEN <<c>> \o Tail(e.ring) ELSE e.ring
    OBVIOUS
  <2> HIDE DEF r
  <2> QED
    BY <1>2, <1>3, <2>1 DEF TypeOK, IsEditor, Fields
<1>6. cut \in BOOLEAN
  BY Zenon
<1>7. /\ r \in Seq(Buffer) /\ Len(r) = n /\ DOMAIN r = 1 .. n
      /\ \A i \in 1 .. n : r[i].lock = e.ring[i].lock
      /\ ~cut => r = e.ring
  <2>1. CASE cut
    <3>1. e.pc \in Early \cup Late
      BY <2>1 DEF Early, Late
    <3>2. /\ e.ring # <<>> /\ Cur(p) = e.ring[1] /\ Cur(p) \in Buffer /\ Content(p) \in Text
      BY <3>1, SavingFacts, ContentIsText
    <3>3. c \in Buffer /\ c.lock = e.ring[1].lock
      BY <3>2 DEF Buffer
    <3> DEFINE t == <<c>> \o Tail(e.ring)
    <3>4. r = t
      BY <2>1
    <3> HIDE DEF c, r, cut, e
    <3>5. /\ t \in Seq(Buffer) /\ Len(t) = Len(e.ring) /\ DOMAIN t = DOMAIN e.ring /\ t[1] = c
          /\ \A i \in 2 .. Len(e.ring) : t[i] = e.ring[i]
      BY <1>3, <3>2, <3>3, FirstReplaced
    <3> HIDE DEF t, n
    <3>6. \A i \in 1 .. n : i = 1 \/ i \in 2 .. n
      BY ONLY <1>3
    <3>7. \A i \in 1 .. n : r[i].lock = e.ring[i].lock
      BY <3>3, <3>4, <3>5, <3>6 DEF n
    <3> QED
      BY <1>3, <2>1, <3>4, <3>5, <3>7 DEF n
  <2>2. CASE ~cut
    <3>1. r = e.ring
      BY <2>2
    <3> HIDE DEF r, cut, e
    <3> QED
      BY <1>3, <3>1
  <2> QED
    BY <2>1, <2>2
<1>8. owed \in SUBSET [key : Key, text : Text]
  <2>1. ASSUME NEW b \in ToSet(e.ring)
        PROVE  KeyOf(b, p) \in Key /\ b.text \in Text
    <3>1. b \in Buffer
      BY <1>3, ElementOfSeq DEF ToSet
    <3> QED
      BY <3>1 DEF Buffer, NameOrNot, KeyOf, Key
  <2> QED
    BY <2>1
<1>9. \A o \in owed : \E i \in 1 .. n :
        e.ring[i].mod /\ KeyOf(e.ring[i], p) = o.key /\ e.ring[i].text = o.text
  BY <1>3 DEF ToSet
<1> HIDE DEF owed, r, cut, n, c, e
<1>10. /\ DOMAIN f = Fields /\ f.pc = pc /\ f.ring = r /\ f.save = e.save
       /\ f.args = e.args /\ f.up = e.up /\ f.todo = n /\ f.slot = e.slot
       /\ f.missed = cut /\ f.owed = owed
  BY <1>3 DEF IsEditor, Fields
<1> HIDE DEF f
<1>11. IsEditor(f)
  <2>1. pc \in Pc
    BY DEF Pc, Ending3
  <2> QED
    BY <1>3, <1>6, <1>7, <1>8, <1>10, <2>1 DEF IsEditor
<1>12. Standing(f)
  <2>1. f.save.backed => f.save.name \in Names
    BY <1>3, <1>10 DEF Standing
  <2>2. n <= n
    BY ONLY <1>3
  <2> QED
    BY <1>7, <1>10, <2>1, <2>2 DEF Standing, Early, Late, Opening, Bufferless, Ending3
<1>13. ASSUME NEW m \in Names, lock'[m].by = p
       PROVE  Holds(f, m)
  <2>1. Holds(e, m) /\ e.pc \notin {"quit", "cut", "killed"}
    BY <1>1, <1>4, <1>13 DEF Inv, LocksHeld, Alive, Ended, e
  <2>2. PICK i \in Held(e) : e.ring[i].lock = m
    BY <2>1 DEF Holds
  <2>3. i \in 1 .. n
    <3>1. Held(e) = 2 .. n \/ Held(e) = 1 .. n
      BY <1>1, <2>2 DEF Held, Alive, Ended, e, n
    <3>2. i \in 2 .. n \/ i \in 1 .. n
      BY <2>2, <3>1
    <3> QED
      BY ONLY <1>3, <3>2
  <2>4. Held(f) = 1 .. n
    BY <1>10 DEF Held, Closed
  <2> QED
    BY <1>7, <1>10, <2>2, <2>3, <2>4 DEF Holds
<1>14. BackupHolds(f, p, backup')
  <2>1. BackupHolds(e, p, backup)
    BY DEF Inv, BackupsHold, e
  <2> QED
    BY <1>4, <1>10, <2>1 DEF BackupHolds
<1>15. RescueOf(f, p, rescue')
  <2> SUFFICES ASSUME ~f.missed, NEW o \in f.owed
               PROVE  Owing(f, p, o)
    BY DEF RescueOf
  <2>1. r = e.ring /\ o \in owed
    BY <1>7, <1>10
  <2> QED
    BY <1>9, <1>10, <2>1 DEF Owing
<1>16. Grown(rescue, rescue')
  BY <1>4 DEF Grown
<1>17. /\ \A m \in Names : backup'[m] = backup[m] \/ backup'[m].by \in {p, Nobody}
       /\ \A m \in Names : lock'[m].by \in {lock[m].by, p, Nobody, Garbled}
  BY <1>4
<1> QED
  BY <1>4, <1>5, <1>11, <1>12, <1>13, <1>14, <1>15, <1>16, <1>17, StepKeeps

(* A dying editor is done with a buffer.                                   *)
LEMMA DoneIs ==
  ASSUME NEW e, IsEditor(e), e.ring # <<>>, e.todo > 0
  PROVE  LET f == Done(e)
         IN  /\ IsEditor(f) /\ f.pc = "dying" /\ f.ring = Rotated(e.ring) /\ f.todo = e.todo - 1
             /\ f.save = e.save /\ f.owed = e.owed /\ f.missed = e.missed
<1> DEFINE f == Done(e)
           r == Rotated(e.ring)
           t == e.todo - 1
<1>1. r \in Seq(Buffer) /\ t \in Nat
  BY RotatedRing DEF IsEditor
<1> HIDE DEF r, t
<1>2. /\ DOMAIN f = Fields /\ f.pc = "dying" /\ f.ring = r /\ f.save = e.save
      /\ f.args = e.args /\ f.up = e.up /\ f.todo = t /\ f.slot = e.slot
      /\ f.missed = e.missed /\ f.owed = e.owed
  BY DEF IsEditor, Fields, Done, r, t
<1> HIDE DEF f
<1>3. "dying" \in Pc
  BY DEF Pc, Ending3
<1>4. IsEditor(f)
  BY <1>1, <1>2, <1>3 DEF IsEditor
<1> QED
  BY <1>2, <1>4 DEF f, r, t

LEMMA DoneKeeps ==
  ASSUME Inv, NEW p \in Editors, editor[p].pc \in {"dying", "rescue"}, editor[p].todo > 0,
         NEW f, editor' = [editor EXCEPT ![p] = f], IsEditor(f), f.pc = "dying",
         f.ring = Rotated(editor[p].ring), f.todo = editor[p].todo - 1,
         f.save = editor[p].save, f.owed = editor[p].owed,
         LET b == editor[p].ring[1]
         IN  ~f.missed => /\ ~editor[p].missed
                          /\ b.mod => Among(b.text, rescue'[KeyOf(b, p)]),
         WorldOK', UNCHANGED backup, Grown(rescue, rescue'),
         \A n \in Names : lock'[n].by = p =>
           \E i \in 2 .. editor[p].todo : editor[p].ring[i].lock = n,
         \A n \in Names : lock'[n].by \in {lock[n].by, p, Nobody, Garbled}
  PROVE  Inv'
<1> DEFINE e == editor[p]
           n == Len(e.ring)
           t == e.todo
<1>1. /\ IsEditor(e) /\ Standing(e) /\ WorldOK /\ TypeOK /\ e.ring \in Seq(Buffer)
  BY Facts
<1>2. t \in Nat /\ n \in Nat /\ t <= n /\ t > 0
  BY <1>1, LenProperties DEF IsEditor, Standing
<1>3. /\ f.ring \in Seq(Buffer) /\ Len(f.ring) = n /\ \A i \in 1 .. n - 1 : f.ring[i] = e.ring[i + 1]
  <2>1. Len(e.ring) # 0
    <3> HIDE DEF e, t
    <3> QED
      BY ONLY <1>2
  <2>2. e.ring # <<>>
    BY <2>1
  <2> QED
    BY <1>1, <2>2, RotatedRing
<1>4. f.todo = t - 1 /\ f.pc = "dying" /\ f.save = e.save /\ f.owed = e.owed
  OBVIOUS
<1>5. \A m \in Names : lock'[m].by = p => \E i \in 2 .. t : e.ring[i].lock = m
  OBVIOUS
<1>6. BackupHolds(e, p, backup) /\ RescueOf(e, p, rescue)
  BY DEF Inv, BackupsHold, Rescuing
<1>7. e.pc \in Ending3 /\ rescue \in [Key -> Seq(Text)] /\ \A o \in e.owed : o.key \in Key
  BY <1>1 DEF WorldOK, IsEditor, Ending3
<1>8. ~f.missed => /\ ~e.missed
                   /\ e.ring[1].mod => Among(e.ring[1].text, rescue'[KeyOf(e.ring[1], p)])
  OBVIOUS
<1>9. editor' = [editor EXCEPT ![p] = f]
  OBVIOUS
<1>10. /\ \A m \in Names : backup'[m] = backup[m] \/ backup'[m].by \in {p, Nobody}
       /\ backup' = backup
  OBVIOUS
<1> HIDE DEF e, n, t
<1>11. Standing(f)
  <2>1. f.save.backed => f.save.name \in Names
    BY <1>1, <1>4 DEF Standing
  <2>2. t - 1 <= n
    BY ONLY <1>2
  <2> QED
    BY <1>3, <1>4, <2>1, <2>2 DEF Standing, Early, Late, Opening, Bufferless, Ending3
<1>12. \A i \in 2 .. t : i - 1 \in 1 .. t - 1 /\ i - 1 \in 1 .. n - 1 /\ i - 1 + 1 = i
  BY ONLY <1>2
<1>13. \A i \in 2 .. t : f.ring[i - 1] = e.ring[i]
  BY <1>3, <1>12
<1>14. ASSUME NEW m \in Names, lock'[m].by = p
       PROVE  Holds(f, m)
  <2>1. PICK i \in 2 .. t : e.ring[i].lock = m
    BY <1>5, <1>14
  <2>2. Held(f) = 1 .. t - 1
    BY <1>4 DEF Held, Closed
  <2>3. i - 1 \in Held(f) /\ f.ring[i - 1].lock = m
    BY <1>12, <1>13, <2>1, <2>2
  <2> QED
    BY <2>3 DEF Holds
<1>15. BackupHolds(f, p, backup')
  BY <1>4, <1>6, <1>10 DEF BackupHolds
<1>16. RescueOf(f, p, rescue')
  <2> SUFFICES ASSUME ~f.missed, NEW o \in f.owed
               PROVE  Among(o.text, rescue'[o.key]) \/ Owing(f, p, o)
    BY DEF RescueOf
  <2>1. Among(o.text, rescue[o.key]) \/ Owing(e, p, o)
    BY <1>4, <1>6, <1>7, <1>8 DEF RescueOf
  <2>2. CASE Among(o.text, rescue[o.key])
    BY <1>4, <1>7, <2>2, GrownKeeps
  <2>3. CASE Owing(e, p, o)
    <3>1. PICK i \in 1 .. t : /\ e.ring[i].mod /\ KeyOf(e.ring[i], p) = o.key
                              /\ e.ring[i].text = o.text
      BY <2>3 DEF Owing, t
    <3>2. i = 1 \/ i \in 2 .. t
      BY ONLY <1>2, <3>1
    <3>3. CASE i = 1
      BY <1>8, <3>1, <3>3
    <3>4. CASE i \in 2 .. t
      <4>1. i - 1 \in 1 .. f.todo /\ f.ring[i - 1] = e.ring[i]
        BY <1>4, <1>12, <1>13, <3>4
      <4> QED
        BY <1>4, <3>1, <4>1 DEF Owing
    <3> QED
      BY <3>2, <3>3, <3>4
  <2> QED
    BY <2>1, <2>2, <2>3
<1> QED
  BY <1>9, <1>10, <1>11, <1>14, <1>15, <1>16, StepKeeps

LEMMA DieOnKeeps ==
  ASSUME Inv, NEW p \in Editors, DieOn(p)
  PROVE  Inv'
<1> DEFINE e == editor[p]
           b == Cur(p)
           t == e.todo
           n == Len(e.ring)
           slot == Len(rescue[RescueKey(p)]) + 1
<1>1. /\ e.pc = "dying" /\ t > 0 /\ lock' = WithoutLock(b.lock)
      /\ UNCHANGED <<file, stored, poslog, now, scenario, spent, disturbed>>
  BY DEF DieOn, At
<1>2. editor' = [editor EXCEPT ![p] = IF b.mod THEN [@ EXCEPT !.pc = "rescue", !.slot = slot]
                                      ELSE Done(@)]
  BY DEF DieOn, NeedsRescue
<1>3. /\ IsEditor(e) /\ Standing(e) /\ WorldOK /\ TypeOK /\ e.ring \in Seq(Buffer)
  BY Facts
<1>4. t \in Nat /\ n \in Nat /\ t <= n /\ t > 0
  BY <1>1, <1>3, LenProperties DEF IsEditor, Standing
<1>5. e.ring # <<>> /\ DOMAIN e.ring = 1 .. n
  <2>1. n # 0
    <3> HIDE DEF n, t
    <3> QED
      BY ONLY <1>4
  <2> QED
    BY <1>3, <2>1, LenProperties
<1>6. b \in Buffer /\ b = e.ring[1]
  BY <1>3, <1>5, CurIs
<1>7. b.lock \in NameOrNot /\ Nobody # p
  BY <1>6, DistinctConstants DEF Buffer
<1>8. /\ lock' \in [Names -> LockFile]
      /\ \A m \in Names : lock'[m] = IF m = b.lock THEN NoLock ELSE lock[m]
      /\ NoLock.by = Nobody
  <2> HIDE DEF b
  <2> QED
    BY <1>1, <1>3, <1>7, WithoutLockIs
<1>9. WorldOK' /\ UNCHANGED <<backup, rescue>>
  BY <1>1, <1>3, <1>8 DEF WorldOK, stored
<1>10. ASSUME NEW m \in Names, lock'[m].by = p
       PROVE  \E i \in 2 .. t : e.ring[i].lock = m
  <2>1. lock[m].by = p /\ m # b.lock
    BY <1>7, <1>8, <1>10
  <2>2. Holds(e, m) /\ Held(e) = 1 .. t
    BY <1>1, <2>1 DEF Inv, LocksHeld, Held, Closed
  <2>3. PICK i \in 1 .. t : e.ring[i].lock = m
    BY <1>1, <2>2 DEF Holds
  <2>4. i # 1
    BY <1>6, <2>1, <2>3
  <2> HIDE DEF e, t
  <2>5. i \in 2 .. t
    BY ONLY <1>4, <2>4
  <2> QED
    BY <2>3, <2>5
<1>11. \A m \in Names : lock'[m].by \in {lock[m].by, p, Nobody, Garbled}
  BY <1>8
<1>12. Grown(rescue, rescue')
  BY <1>9 DEF Grown
<1>13. CASE ~b.mod
  <2> DEFINE f == Done(e)
  <2>1. editor' = [editor EXCEPT ![p] = f]
    BY <1>2, <1>3, <1>13 DEF TypeOK
  <2>2. /\ IsEditor(f) /\ f.pc = "dying" /\ f.ring = Rotated(e.ring) /\ f.todo = e.todo - 1
        /\ f.save = e.save /\ f.owed = e.owed /\ f.missed = e.missed
    BY <1>1, <1>3, <1>5, DoneIs
  <2> HIDE DEF f, b
  <2> QED
    BY <1>1, <1>6, <1>9, <1>10, <1>11, <1>12, <1>13, <2>1, <2>2, DoneKeeps
<1>14. CASE b.mod
  <2> DEFINE f == [e EXCEPT !.pc = "rescue", !.slot = slot]
  <2>1. editor' = [editor EXCEPT ![p] = f]
    BY <1>2, <1>3, <1>14 DEF TypeOK
  <2>2. slot \in Nat
    <3>1. RescueKey(p) \in Key
      BY <1>6 DEF RescueKey, Key, Buffer, NameOrNot
    <3>2. rescue[RescueKey(p)] \in Seq(Text)
      BY <1>3, <3>1 DEF WorldOK
    <3> QED
      BY <3>2, LenProperties
  <2>3. BackupHolds(e, p, backup) /\ RescueOf(e, p, rescue)
    BY DEF Inv, BackupsHold, Rescuing
  <2> HIDE DEF b, slot, e, t
  <2>4. /\ DOMAIN f = Fields /\ f.pc = "rescue" /\ f.ring = e.ring /\ f.save = e.save
        /\ f.args = e.args /\ f.up = e.up /\ f.todo = e.todo /\ f.slot = slot
        /\ f.missed = e.missed /\ f.owed = e.owed
    BY <1>3 DEF IsEditor, Fields
  <2> HIDE DEF f
  <2>5. IsEditor(f)
    <3>1. "rescue" \in Pc
      BY DEF Pc, Ending3
    <3> QED
      BY <1>3, <2>2, <2>4, <3>1 DEF IsEditor
  <2>6. Standing(f)
    <3>1. f.save.backed => f.save.name \in Names
      BY <1>3, <2>4 DEF Standing
    <3>2. f.todo <= Len(f.ring) /\ f.todo > 0
      BY <1>4, <2>4 DEF t, n
    <3> QED
      BY <1>5, <2>4, <3>1, <3>2 DEF Standing, Early, Late, Opening, Ending3
  <2>7. \A m \in Names : lock'[m].by = p => Holds(f, m)
    <3>1. Held(f) = 2 .. t
      BY <2>4 DEF Held, Closed, t
    <3> QED
      BY <1>10, <2>4, <3>1 DEF Holds
  <2>8. BackupHolds(f, p, backup')
    BY <1>9, <2>3, <2>4 DEF BackupHolds
  <2>9. RescueOf(f, p, rescue')
    BY <1>1, <1>9, <2>3, <2>4 DEF RescueOf, Owing, Ending3
  <2>10. \A m \in Names : backup'[m] = backup[m] \/ backup'[m].by \in {p, Nobody}
    BY <1>9
  <2> QED
    BY <1>9, <1>11, <1>12, <2>1, <2>5, <2>6, <2>7, <2>8, <2>9, <2>10, StepKeeps
<1> QED
  BY <1>13, <1>14

(* What is written to an emergency file that is not there.                 *)
LEMMA CreatedIs ==
  ASSUME WorldOK, NEW key \in Key, NEW text \in Text, NEW slot \in Nat,
         rescue' = [rescue EXCEPT ![key] = Created(@, slot, text)]
  PROVE  /\ rescue' \in [Key -> Seq(Text)] /\ Grown(rescue, rescue')
         /\ Len(rescue[key]) < slot => Among(text, rescue'[key])
<1> DEFINE old == rescue[key]
           more == Append(old, text)
<1>1. rescue \in [Key -> Seq(Text)] /\ old \in Seq(Text)
  BY DEF WorldOK
<1>2. more \in Seq(Text) /\ Len(more) = Len(old) + 1 /\ more[Len(old) + 1] = text
  BY <1>1, AppendProperties
<1>3. Len(old) + 1 \in DOMAIN more
  <2>1. Len(more) \in Nat /\ DOMAIN more = 1 .. Len(more) /\ Len(old) \in Nat
    BY <1>1, <1>2, LenProperties
  <2> HIDE DEF more, old
  <2> QED
    BY <1>2, <2>1
<1>4. rescue'[key] = IF Len(old) < slot THEN more ELSE old
  BY <1>1 DEF Created
<1>5. \A k \in Key \ {key} : rescue'[k] = rescue[k]
  BY <1>1
<1>6. rescue' \in [Key -> Seq(Text)]
  <2> DEFINE x == Created(old, slot, text)
  <2>1. x \in Seq(Text) /\ rescue' = [rescue EXCEPT ![key] = x]
    BY <1>1, <1>2 DEF Created
  <2> HIDE DEF x
  <2> QED
    BY <1>1, <2>1
<1> HIDE DEF more
<1>7. Grown(rescue, rescue')
  BY <1>4, <1>5 DEF Grown, more
<1>8. Len(old) < slot => Among(text, rescue'[key])
  BY <1>2, <1>3, <1>4 DEF Among
<1> QED
  BY <1>6, <1>7, <1>8

LEMMA RescueKeeps ==
  ASSUME Inv, NEW p \in Editors, Rescue(p)
  PROVE  Inv'
<1> DEFINE e == editor[p]
           b == Cur(p)
           key == RescueKey(p)
           raced == Len(rescue[key]) >= e.slot
           h == Done(e)
<1>1. e.pc = "rescue" /\ UNCHANGED <<file, backup, home, searchlog, world, spent, disturbed>>
  BY DEF Rescue, At
<1>2. /\ IsEditor(e) /\ Standing(e) /\ WorldOK /\ TypeOK /\ b \in Buffer /\ b = e.ring[1]
      /\ e.ring # <<>>
  BY <1>1, Facts DEF Bufferless
<1>3. e.todo > 0 /\ e.slot \in Nat
  BY <1>1, <1>2 DEF Standing, IsEditor
<1>4. /\ IsEditor(h) /\ h.pc = "dying" /\ h.ring = Rotated(e.ring) /\ h.todo = e.todo - 1
      /\ h.save = e.save /\ h.owed = e.owed /\ h.missed = e.missed
  BY <1>2, <1>3, DoneIs
<1>5. key \in Key /\ key = KeyOf(e.ring[1], p) /\ b.text \in Text
  BY <1>2 DEF RescueKey, Key, Buffer, NameOrNot, KeyOf
<1>6. UNCHANGED <<lock, backup>>
  BY <1>1 DEF world
<1>7. ASSUME NEW m \in Names, lock'[m].by = p
      PROVE  \E i \in 2 .. e.todo : e.ring[i].lock = m
  <2>1. Holds(e, m) /\ Held(e) = 2 .. e.todo
    BY <1>1, <1>6, <1>7 DEF Inv, LocksHeld, Held, Closed
  <2> QED
    BY <1>1, <2>1 DEF Holds
<1>8. \A m \in Names : lock'[m].by \in {lock[m].by, p, Nobody, Garbled}
  BY <1>6
<1>9. ASSUME NEW text \in Text, NEW missed,
             missed \/ (text = b.text /\ ~raced),
             rescue' = [rescue EXCEPT ![key] = Created(@, editor[p].slot, text)],
             editor' = [editor EXCEPT ![p] = [h EXCEPT !.missed = h.missed \/ missed]]
      PROVE  Inv'
  <2> DEFINE slot == e.slot
             x == h.missed \/ missed
             f == [h EXCEPT !.missed = x]
  <2>1. editor' = [editor EXCEPT ![p] = f]
    BY <1>9
  <2>2. rescue' = [rescue EXCEPT ![key] = Created(@, slot, text)] /\ slot \in Nat
    BY <1>3, <1>9
  <2>3. x \in BOOLEAN
    BY Zenon
  <2>4. ~x => ~h.missed /\ ~missed
    OBVIOUS
  <2> HIDE DEF slot, key
  <2>5. /\ rescue' \in [Key -> Seq(Text)] /\ Grown(rescue, rescue')
        /\ Len(rescue[key]) < slot => Among(text, rescue'[key])
    BY <1>2, <1>5, <2>2, CreatedIs
  <2>6. ~missed => Among(b.text, rescue'[key])
    <3> SUFFICES ASSUME ~missed
                 PROVE  Among(b.text, rescue'[key])
      OBVIOUS
    <3>1. text = b.text /\ ~(Len(rescue[key]) >= slot)
      BY <1>9 DEF slot
    <3>2. Len(rescue[key]) \in Nat
      <4>1. rescue[key] \in Seq(Text)
        BY <1>2, <1>5 DEF WorldOK
      <4> QED
        BY <4>1, LenProperties
    <3> DEFINE l == Len(rescue[key])
    <3> HIDE DEF l, b
    <3>3. l < slot
      <4>1. l \in Nat /\ slot \in Nat /\ ~(l >= slot)
        BY <2>2, <3>1, <3>2 DEF l
      <4> QED
        BY ONLY <4>1
    <3> QED
      BY <2>5, <3>1, <3>3 DEF l
  <2>7. WorldOK'
    BY <1>1, <1>2, <2>5 DEF WorldOK, world
  <2> HIDE DEF x, h, b, e
  <2>8. /\ DOMAIN f = Fields /\ f.pc = h.pc /\ f.ring = h.ring /\ f.save = h.save
        /\ f.args = h.args /\ f.up = h.up /\ f.todo = h.todo /\ f.slot = h.slot
        /\ f.missed = x /\ f.owed = h.owed
    BY <1>4 DEF IsEditor, Fields
  <2> HIDE DEF f
  <2>9. IsEditor(f)
    BY <1>4, <2>3, <2>8 DEF IsEditor
  <2>10. ~f.missed => /\ ~e.missed
                      /\ e.ring[1].mod => Among(e.ring[1].text, rescue'[KeyOf(e.ring[1], p)])
    BY <1>2, <1>4, <1>5, <2>4, <2>6, <2>8 DEF x
  <2>11. /\ f.pc = "dying" /\ f.ring = Rotated(e.ring) /\ f.todo = e.todo - 1
         /\ f.save = e.save /\ f.owed = e.owed
    BY <1>4, <2>8
  <2> QED
    BY <1>1, <1>3, <1>6, <1>7, <1>8, <2>1, <2>5, <2>7, <2>9, <2>10, <2>11, DoneKeeps DEF e
<1>10. CASE /\ rescue' = [rescue EXCEPT ![key] = Created(@, editor[p].slot, b.text)]
            /\ editor' = [editor EXCEPT ![p] = [h EXCEPT !.missed = h.missed \/ raced]]
  <2>1. raced \/ ~raced
    OBVIOUS
  <2> HIDE DEF raced, key, b
  <2> QED
    BY <1>5, <1>9, <1>10, <2>1
<1>11. CASE /\ rescue' = [rescue EXCEPT ![key] = Created(@, editor[p].slot, Torn)]
            /\ editor' = [editor EXCEPT ![p] = [h EXCEPT !.missed = h.missed \/ TRUE]]
  <2> HIDE DEF raced, key, b
  <2> QED
    BY <1>9, <1>11, TornIs
<1>12. \/ /\ rescue' = [rescue EXCEPT ![key] = Created(@, editor[p].slot, b.text)]
          /\ editor' = [editor EXCEPT ![p] = [h EXCEPT !.missed = h.missed \/ raced]]
       \/ /\ rescue' = [rescue EXCEPT ![key] = Created(@, editor[p].slot, Torn)]
          /\ editor' = [editor EXCEPT ![p] = [h EXCEPT !.missed = h.missed \/ TRUE]]
  BY Zenon DEF Rescue
<1> QED
  BY <1>10, <1>11, <1>12

LEMMA DeadKeeps ==
  ASSUME Inv, NEW p \in Editors, Dead(p)
  PROVE  Inv'
<1> DEFINE e == editor[p]
           pc == "dead"
           f == [e EXCEPT !.pc = pc]
<1>1. e.pc = "dying" /\ e.todo = 0 /\ Goto(p, "dead") /\ UNCHANGED <<file, stored, world, spent>>
  BY DEF Dead, At
<1>2. WorldOK' /\ UNCHANGED <<lock, backup, rescue>>
  BY <1>1, SameWorld
<1>3. IsEditor(e) /\ Standing(e) /\ TypeOK
  BY Facts
<1>4. editor' = [editor EXCEPT ![p] = f]
  BY <1>1, <1>3 DEF Goto, TypeOK
<1>5. pc \in Pc /\ pc = "dead"
  BY DEF Pc, Ending3
<1>6. BackupHolds(e, p, backup) /\ RescueOf(e, p, rescue)
  BY DEF Inv, BackupsHold, Rescuing
<1>7. \A n \in Names : lock[n].by # p
  <2>1. Held(e) = 1 .. 0
    BY <1>1 DEF Held, Closed
  <2>2. \A n \in Names : ~Holds(e, n)
    BY <1>1, <2>1 DEF Holds
  <2> QED
    BY <2>2 DEF Inv, LocksHeld
<1>8. \A o : ~Owing(e, p, o)
  BY <1>1 DEF Owing
<1>9. e.pc \in Ending3
  BY <1>1 DEF Ending3
<1> HIDE DEF e, pc
<1>10. IsEditor(f) /\ f.pc = pc /\ f.ring = e.ring /\ f.save = e.save /\ SameRest(f, e)
  BY <1>3, <1>5, PcChanges
<1> HIDE DEF f
<1>11. Standing(f)
  <2>1. f.save.backed => f.save.name \in Names
    BY <1>3, <1>10 DEF Standing
  <2> QED
    BY <1>5, <1>10, <2>1 DEF Standing, Early, Late, Opening, Bufferless, Ending3
<1>12. BackupHolds(f, p, backup')
  BY <1>2, <1>6, <1>10 DEF BackupHolds
<1>13. RescueOf(f, p, rescue')
  BY <1>2, <1>6, <1>8, <1>9, <1>10 DEF RescueOf, SameRest
<1>14. /\ \A m \in Names : backup'[m] = backup[m] \/ backup'[m].by \in {p, Nobody}
       /\ \A m \in Names : lock'[m].by \in {lock[m].by, p, Nobody, Garbled}
       /\ \A m \in Names : lock'[m].by = p => Holds(f, m)
       /\ Grown(rescue, rescue')
  BY <1>2, <1>7 DEF Grown
<1> QED
  BY <1>2, <1>4, <1>10, <1>11, <1>12, <1>13, <1>14, StepKeeps

LEMMA GiveUpKeeps ==
  ASSUME Inv, NEW p \in Editors, GiveUp(p)
  PROVE  Inv'
<1> DEFINE f == [editor[p] EXCEPT !.pc = "cut"]
<1>1. Goto(p, "cut") /\ UNCHANGED <<file, stored, world, spent>>
  BY DEF GiveUp
<1>2. WorldOK' /\ UNCHANGED <<lock, backup, rescue>>
  BY <1>1, SameWorld
<1>3. IsEditor(editor[p]) /\ TypeOK
  BY Facts
<1>4. editor' = [editor EXCEPT ![p] = f]
  BY <1>1, <1>3 DEF Goto, TypeOK
<1>5. f.pc = "cut" /\ f = [editor[p] EXCEPT !.pc = f.pc]
  BY <1>3 DEF IsEditor, Fields
<1> HIDE DEF f
<1> QED
  BY <1>2, <1>4, <1>5, EndKeeps

LEMMA KillKeeps ==
  ASSUME Inv, NEW p \in Editors, Kill(p)
  PROVE  Inv'
<1> DEFINE f == [editor[p] EXCEPT !.pc = "killed"]
<1>1. Goto(p, "killed") /\ LeftAsItIs(p) /\ UNCHANGED <<stored, world, spent>>
  BY DEF Kill
<1>2. IsEditor(editor[p]) /\ TypeOK /\ WorldOK
  BY Facts
<1>3. WorldOK' /\ UNCHANGED <<lock, backup, rescue>>
  <2>1. file' \in [Names -> File]
    BY <1>1, LeftIsFile
  <2> QED
    BY <1>1, <1>2, <2>1 DEF WorldOK, stored, world
<1>4. editor' = [editor EXCEPT ![p] = f]
  BY <1>1, <1>2 DEF Goto, TypeOK
<1>5. f.pc = "killed" /\ f = [editor[p] EXCEPT !.pc = f.pc]
  BY <1>2 DEF IsEditor, Fields
<1> HIDE DEF f
<1> QED
  BY <1>3, <1>4, <1>5, EndKeeps

-----------------------------------------------------------------------------
(* The world outside the editors.                                          *)

(* Files of the kind R may lose a part of their text.                      *)
Losing(R) ==
  /\ \A f \in R, t \in Text : [f EXCEPT !.text = t, !.synced = t] \in R
  /\ \A f \in R : f.text \in Text /\ f.synced \in Text

LEMMA RemainsAre ==
  ASSUME NEW R, Losing(R),
         NEW files \in [Names -> R], NEW after \in AfterLoss(files)
  PROVE  /\ after \in [Names -> R]
         /\ \A n \in Names : /\ files[n].text = files[n].synced => after[n] = files[n]
<1>1. /\ after \in [Names -> UNION {Remains(files[n]) : n \in Names}]
      /\ \A n \in Names : after[n] \in Remains(files[n])
  BY DEF AfterLoss
<1>2. ASSUME NEW f \in R
      PROVE  Remains(f) \subseteq R /\ (f.text = f.synced => Remains(f) = {f})
  <2>1. CASE f.text = f.synced
    BY <2>1 DEF Remains
  <2>2. CASE f.text # f.synced
    BY <2>2, TornIs DEF Remains, Losing
  <2> QED
    BY <2>1, <2>2
<1>3. \A n \in Names : after[n] \in R
  BY <1>1, <1>2
<1>4. after \in [Names -> R]
  BY <1>1, <1>3
<1> QED
  BY <1>1, <1>2, <1>4

LEMMA PowerLossKeeps ==
  ASSUME Inv, PowerLoss
  PROVE  Inv'
<1>1. /\ file' \in AfterLoss(file) /\ backup' \in AfterLoss(backup)
      /\ editor' = [p \in Editors |-> IF Alive(p) THEN [editor[p] EXCEPT !.pc = "killed"]
                                      ELSE editor[p]]
      /\ UNCHANGED <<home, rescue, searchlog, world, spent>>
  BY DEF PowerLoss
<1>2. WorldOK /\ TypeOK
  BY DEF Inv, TypeOK
<1>3. file' \in [Names -> File]
  <2>1. file \in [Names -> File]
    BY <1>2 DEF WorldOK
  <2>2. Losing(File)
    BY DEF Losing, File
  <2>3. file' \in AfterLoss(file)
    BY <1>1
  <2> QED
    BY ONLY <2>1, <2>2, <2>3, RemainsAre
<1>4. /\ backup' \in [Names -> Backup]
      /\ \A n \in Names : backup[n].text = backup[n].synced => backup'[n] = backup[n]
  <2>1. backup \in [Names -> Backup]
    BY <1>2 DEF WorldOK
  <2>2. Losing(Backup)
    BY DEF Losing, Backup
  <2>3. backup' \in AfterLoss(backup)
    BY <1>1
  <2> QED
    BY ONLY <2>1, <2>2, <2>3, RemainsAre
<1>5. WorldOK' /\ UNCHANGED <<lock, rescue>>
  BY <1>1, <1>2, <1>3, <1>4 DEF WorldOK, world
<1>6. \A n \in Names : backup'[n].by = backup[n].by
  <2>1. ASSUME NEW n \in Names
        PROVE  backup'[n].by = backup[n].by
    <3>1. backup'[n] \in Remains(backup[n]) /\ backup[n] \in Backup
      BY <1>1, <1>2 DEF AfterLoss, WorldOK
    <3> QED
      BY <3>1 DEF Remains, Backup
  <2> QED
    BY <2>1
<1>7. ASSUME NEW q \in Editors
      PROVE  /\ IsEditor(editor'[q]) /\ Standing(editor'[q]) /\ editor'[q].save = editor[q].save
             /\ editor'[q] = editor[q] \/ editor'[q].pc = "killed"
  <2> DEFINE e == editor[q]
             f == [e EXCEPT !.pc = "killed"]
             pc == "killed"
  <2>1. IsEditor(e) /\ Standing(e)
    BY Facts
  <2>2. CASE ~Alive(q)
    BY <1>1, <2>1, <2>2
  <2>3. CASE Alive(q)
    <3>1. editor'[q] = f
      BY <1>1, <2>3
    <3>2. "killed" \in Pc
      BY DEF Pc
    <3> HIDE DEF e
    <3>3. IsEditor(f) /\ f.pc = "killed" /\ f.ring = e.ring /\ f.save = e.save /\ SameRest(f, e)
      BY <2>1, <3>2, PcChanges
    <3> HIDE DEF f
    <3>4. Standing(f)
      BY <2>1, <3>3 DEF Standing, Bufferless, Opening, Early, Late, Ending3
    <3> QED
      BY <3>1, <3>3, <3>4 DEF e
  <2> QED
    BY <2>2, <2>3
<1>8. TypeOK'
  <2>1. editor' = [q \in Editors |-> editor'[q]]
    BY <1>1
  <2> QED
    BY <1>5, <1>7, <2>1 DEF TypeOK
<1>9. ASSUME NEW q \in Editors, NEW n \in Names, lock'[n].by = q
      PROVE  Holds(editor'[q], n)
  <2>1. Holds(editor[q], n)
    BY <1>5, <1>9 DEF Inv, LocksHeld
  <2>2. CASE editor'[q] = editor[q]
    BY <2>1, <2>2
  <2>3. CASE editor'[q].pc = "killed"
    BY <2>3 DEF Holds
  <2> QED
    BY <1>7, <2>2, <2>3
<1>10. ASSUME NEW q \in Editors
       PROVE  BackupHolds(editor'[q], q, backup')
  <2> DEFINE s == editor[q].save
  <2>1. editor'[q].save = s /\ Standing(editor[q]) /\ BackupHolds(editor[q], q, backup)
    BY <1>7, Facts DEF Inv, BackupsHold
  <2> SUFFICES ASSUME s.backed, backup'[s.name].by = q
               PROVE  backup'[s.name].text = s.old /\ backup'[s.name].synced = s.old
    BY <2>1 DEF BackupHolds
  <2>2. s.name \in Names
    BY <2>1 DEF Standing
  <2>3. backup[s.name].text = s.old /\ backup[s.name].synced = s.old
    BY <1>6, <2>1, <2>2 DEF BackupHolds
  <2> QED
    BY <1>4, <2>2, <2>3
<1>11. ASSUME NEW q \in Editors
       PROVE  RescueOf(editor'[q], q, rescue')
  <2>1. RescueOf(editor[q], q, rescue)
    BY DEF Inv, Rescuing
  <2>2. CASE editor'[q] = editor[q]
    BY <1>5, <2>1, <2>2
  <2>3. CASE editor'[q].pc = "killed"
    BY <2>3 DEF RescueOf, Ending3
  <2> QED
    BY <1>7, <2>2, <2>3
<1> QED
  BY <1>7, <1>8, <1>9, <1>10, <1>11 DEF Inv, LocksHeld, BackupsHold, Rescuing

(* Steps that leave the editors and what they own alone.                   *)
LEMMA OutsideKeeps ==
  ASSUME Inv, WorldOK', UNCHANGED <<editor, lock, backup, rescue>>
  PROVE  Inv'
BY DEF Inv, TypeOK, LocksHeld, BackupsHold, Rescuing

LEMMA ForeignWriteKeeps ==
  ASSUME Inv, NEW n \in Names, ForeignWrite(n)
  PROVE  Inv'
<1> DEFINE piece == spent.pieces + 1
<1>1. UNCHANGED <<stored, world, editor, disturbed>> /\ spent' = [spent EXCEPT !.pieces = piece]
  BY DEF ForeignWrite
<1>2. PICK id \in {file[n].id, piece} \ {0} :
        file' = [file EXCEPT ![n] = [text |-> <<piece>>, mtime |-> now, id |-> id,
                   synced |-> IF id = file[n].id THEN file[n].synced ELSE <<>>]]
  BY DEF ForeignWrite
<1>3. WorldOK
  BY DEF Inv, TypeOK
<1>4. piece \in Nat
  BY <1>3 DEF WorldOK
<1> HIDE DEF piece
<1> DEFINE t == <<piece>>
           s == IF id = file[n].id THEN file[n].synced ELSE <<>>
<1>5. file \in [Names -> File] /\ now \in Nat /\ file[n] \in File
  BY <1>3 DEF WorldOK
<1>6. t \in Text /\ s \in Text /\ id \in Nat
  BY <1>4, <1>5 DEF Text, File
<1>7. file' = [file EXCEPT ![n] = [text |-> t, mtime |-> now, id |-> id, synced |-> s]]
  BY <1>2
<1> HIDE DEF t, s
<1>8. [text |-> t, mtime |-> now, id |-> id, synced |-> s] \in File
  BY <1>5, <1>6 DEF File
<1>9. file' \in [Names -> File]
  BY <1>5, <1>7, <1>8
<1>10. spent' \in [pieces : Nat, saves : Nat, searches : Nat]
  BY <1>1, <1>3, <1>4 DEF WorldOK
<1>11. WorldOK'
  BY <1>1, <1>3, <1>9, <1>10 DEF WorldOK, stored, world
<1> QED
  BY <1>1, <1>11, OutsideKeeps DEF stored, world

LEMMA TickKeeps ==
  ASSUME Inv, Tick
  PROVE  Inv'
<1>1. now' = now + 1 /\ UNCHANGED <<file, stored, lock, poslog, editor, scenario, spent, disturbed>>
  BY DEF Tick
<1>2. WorldOK
  BY DEF Inv, TypeOK
<1>3. WorldOK' /\ UNCHANGED <<editor, lock, backup, rescue>>
  BY <1>1, <1>2 DEF WorldOK, stored
<1> QED
  BY <1>3, OutsideKeeps

-----------------------------------------------------------------------------
(* The invariant holds.                                                    *)

LEMMA InitInv ==
  Init => Inv
<1> SUFFICES ASSUME Init
             PROVE  Inv
  OBVIOUS
<1>1. \A p \in Editors :
        editor[p] = [pc |-> "off", ring |-> <<>>, args |-> scenario.args[p], up |-> FALSE,
                     save |-> NoSave, log |-> <<>>, stamp |-> 0, searches |-> <<>>,
                     searched |-> FALSE, todo |-> 0, slot |-> 0, owed |-> {}, missed |-> FALSE]
  BY DEF Init
<1>2. \A p \in Editors :
        /\ DOMAIN editor[p] = Fields /\ editor[p].pc = "off" /\ editor[p].ring = <<>>
        /\ editor[p].args = scenario.args[p] /\ editor[p].up = FALSE /\ editor[p].save = NoSave
        /\ editor[p].todo = 0 /\ editor[p].slot = 0 /\ editor[p].owed = {}
        /\ editor[p].missed = FALSE
  <2> TAKE p \in Editors
  <2> DEFINE e == editor[p]
             a == scenario.args[p]
             s == NoSave
  <2>1. e = [pc |-> "off", ring |-> <<>>, args |-> a, up |-> FALSE,
             save |-> s, log |-> <<>>, stamp |-> 0, searches |-> <<>>,
             searched |-> FALSE, todo |-> 0, slot |-> 0, owed |-> {}, missed |-> FALSE]
    BY <1>1
  <2> HIDE DEF e, a, s
  <2> QED
    BY <2>1 DEF Fields, e, a, s
<1>3. NoSave \in SaveRecord /\ NoSave.backed = FALSE
  BY NoSaveIs
<1>4. TypeOK
  <2>1. file \in [Names -> File]
    <3>1. <<1>> \in Text /\ <<>> \in Text
      BY DEF Text
    <3>2. [text |-> <<1>>, synced |-> <<1>>, mtime |-> 1, id |-> 1] \in File /\ Absent \in File
      BY <3>1 DEF Absent, File
    <3> QED
      BY <3>2 DEF Init
  <2>2. backup \in [Names -> Backup]
    <3>1. <<>> \in Text
      BY DEF Text
    <3>2. NoCopy \in Backup
      BY <3>1 DEF NoCopy, Backup
    <3> QED
      BY <3>2 DEF Init
  <2>3. lock \in [Names -> LockFile]
    <3>1. NoLock \in LockFile
      BY DEF NoLock, LockFile
    <3> QED
      BY <3>1 DEF Init
  <2>4. WorldOK
    BY <2>1, <2>2, <2>3 DEF WorldOK, Init, Key
  <2>5. ASSUME NEW p \in Editors
        PROVE  IsEditor(editor[p])
    <3>1. "off" \in Pc
      BY DEF Pc
    <3>2. editor[p].args \in Seq(Names)
      BY <1>2, ScenariosAssumption DEF Init
    <3>3. <<>> \in Seq(Buffer) /\ FALSE \in BOOLEAN /\ 0 \in Nat
          /\ {} \in SUBSET [key : Key, text : Text]
      OBVIOUS
    <3> QED
      BY <1>3, <1>2, <3>1, <3>2, <3>3 DEF IsEditor
  <2>6. editor = [p \in Editors |-> editor[p]]
    BY DEF Init
  <2> QED
    BY <2>4, <2>5, <2>6 DEF TypeOK
<1>5. \A p \in Editors : Standing(editor[p])
  <2> SUFFICES ASSUME NEW p \in Editors
               PROVE  Standing(editor[p])
    OBVIOUS
  <2>1. /\ editor[p].pc = "off" /\ editor[p].ring = <<>> /\ editor[p].save.backed = FALSE
    BY <1>3, <1>2
  <2>2. DOMAIN <<>> = {}
    OBVIOUS
  <2> QED
    BY <2>1, <2>2 DEF Standing, Bufferless, Opening, Early, Late
<1>6. LocksHeld
  BY DistinctConstants DEF LocksHeld, Init, NoLock
<1>7. BackupsHold
  BY <1>3, <1>2 DEF BackupsHold, BackupHolds
<1>8. Rescuing
  BY <1>2 DEF Rescuing, RescueOf, Ending3
<1> QED
  BY <1>4, <1>5, <1>6, <1>7, <1>8 DEF Inv

LEMMA StepInv ==
  Inv /\ [Next]_vars => Inv'
<1> SUFFICES ASSUME Inv, [Next]_vars
             PROVE  Inv'
  OBVIOUS
<1>1. ASSUME NEW p \in Editors, SaveStep(p)
      PROVE  Inv'
  BY <1>1, PromptKeeps, CheckKeeps, AnswerOverwriteKeeps, AnswerContinueKeeps, StatTargetKeeps,
     CreateBackupKeeps, CopyToBackupKeeps, FailToBackupKeeps, CopyToTempKeeps, OpenFileKeeps,
     WriteTextKeeps, SyncFileKeeps, FinishSaveKeeps DEF SaveStep
<1>2. ASSUME NEW p \in Editors, Editing(p)
      PROVE  Inv'
  BY <1>1, <1>2, StartKeeps, OpenNextKeeps, MakeLockKeeps, ReadKeeps, StatFileKeeps,
     RestorePositionKeeps, ReadyKeeps, OpenAnotherKeeps, TypeKeeps, SwitchKeeps, SearchKeeps,
     DoWriteoutKeeps, DoSavefileKeeps, DoExitKeeps, CloseKeeps, OpenLogKeeps, WriteLogKeeps,
     FinishKeeps DEF Editing
<1>3. ASSUME NEW p \in Editors, Ending(p)
      PROVE  Inv'
  BY <1>3, HangupKeeps, DieOnKeeps, RescueKeeps, DeadKeeps, GiveUpKeeps, KillKeeps DEF Ending
<1>4. CASE UNCHANGED vars
  <2>1. WorldOK' /\ UNCHANGED <<editor, lock, backup, rescue>>
    BY <1>4 DEF vars, Inv, TypeOK, WorldOK
  <2> QED
    BY <2>1, OutsideKeeps
<1> QED
  BY <1>2, <1>3, <1>4, PowerLossKeeps, TickKeeps, ForeignWriteKeeps DEF Next

(* Whatever several editors, other programs, a full disk, a power failure  *)
(* and signals do in turn: each editor stands somewhere its code can be    *)
(* with the buffers and the save it should have there, lock files name     *)
(* editors that still answer for them, completed backups keep the old      *)
(* text, and dying editors have rescued what they are done with.           *)
THEOREM NanoFilesInvariant ==
  Spec => []Inv
<1> QED
  BY InitInv, StepInv, PTL DEF Spec

-----------------------------------------------------------------------------
(* The properties.                                                         *)

(* All state has its type: what is on the disk is text that was typed,     *)
(* read or torn, and a lock file or a backup names an editor that exists.  *)
THEOREM NanoFilesTypes ==
  Spec => []TypeOK
<1>1. Inv => TypeOK
  BY DEF Inv
<1> QED
  BY <1>1, NanoFilesInvariant, PTL

(* A completed backup keeps the old text until the save is finished, or    *)
(* the file still has it: whatever ends the editor or the power            *)
(* (make_backup_of(), write_file()).                                       *)
THEOREM NanoFilesOldTextSurvives ==
  Spec => []OldTextSurvives
<1>1. Inv => OldTextSurvives
  BY DEF Inv, BackupsHold, BackupHolds, OldTextSurvives, Target, Save
<1> QED
  BY <1>1, NanoFilesInvariant, PTL

(* A buffer is closed without the user's consent only when its text came   *)
(* from a file or went to one (do_exit(), write_it_out()).                 *)
THEOREM NanoFilesClosedMeansStored ==
  Spec => []ClosedMeansStored
<1>1. Inv => ClosedMeansStored
  <2> SUFFICES ASSUME Inv, NEW p \in Editors, editor[p].pc = "closing", ~Cur(p).told
               PROVE  Cur(p).text = Cur(p).base
    BY DEF ClosedMeansStored, At
  <2>1. Standing(editor[p]) /\ Cur(p) = editor[p].ring[1]
    BY Facts DEF Bufferless
  <2> QED
    BY <2>1 DEF Standing
<1> QED
  BY <1>1, NanoFilesInvariant, PTL

(* A readable lock file belongs to a buffer of the editor that wrote it,   *)
(* or that editor was killed, gave up or quit at the question about        *)
(* another's lock (do_lockfile(), delete_lockfile()).                      *)
THEOREM NanoFilesLocksHaveOwners ==
  Spec => []LocksHaveOwners
<1>1. Inv => LocksHaveOwners
  <2> SUFFICES ASSUME Inv, NEW n \in Names, lock[n].by \in Editors
               PROVE  LET e == editor[lock[n].by]
                      IN  \/ e.pc # "dead" /\ \E i \in DOMAIN e.ring : e.ring[i].lock = n
                          \/ e.pc \in {"quit", "cut", "killed"}
    BY DEF LocksHaveOwners
  <2> DEFINE p == lock[n].by
             e == editor[p]
             l == Len(e.ring)
  <2>1. p \in Editors
    OBVIOUS
  <2>2. Holds(e, n)
    BY <2>1 DEF Inv, LocksHeld
  <2> HIDE DEF p
  <2>3. IsEditor(e) /\ Standing(e) /\ e.ring \in Seq(Buffer)
    BY <2>1, Facts
  <2>4. l \in Nat /\ DOMAIN e.ring = 1 .. l
    BY <2>3, LenProperties
  <2>5. CASE e.pc \in {"quit", "cut", "killed"}
    BY <2>5 DEF p
  <2>6. CASE e.pc \notin {"quit", "cut", "killed"}
    <3>1. PICK i \in Held(e) : e.ring[i].lock = n
      BY <2>2, <2>6 DEF Holds
    <3>2. e.pc # "dead"
      BY <3>1 DEF Held, Closed
    <3>3. i \in 1 .. l
      <4>1. e.todo \in Nat /\ (e.pc \in {"dying", "rescue"} => e.todo <= l)
        BY <2>3 DEF IsEditor, Standing
      <4>2. \/ i \in 2 .. l \/ i \in 1 .. l
            \/ e.pc \in {"dying", "rescue"} /\ (i \in 1 .. e.todo \/ i \in 2 .. e.todo)
        BY <3>1 DEF Held
      <4> DEFINE todo == e.todo
      <4>3. /\ todo \in Nat /\ l \in Nat
            /\ \/ i \in 2 .. l \/ i \in 1 .. l
               \/ todo <= l /\ (i \in 1 .. todo \/ i \in 2 .. todo)
        BY <2>4, <4>1, <4>2
      <4> HIDE DEF todo, l
      <4> QED
        BY ONLY <4>3
    <3> QED
      BY <2>4, <3>1, <3>2, <3>3 DEF p
  <2> QED
    BY <2>5, <2>6
<1> QED
  BY <1>1, NanoFilesInvariant, PTL

(* A hangup leaves every modified buffer in an emergency file, unless the  *)
(* disk was full, the name was taken by another dying editor, or only a    *)
(* region was being written (die(), emergency_save()).                     *)
THEOREM NanoFilesDeathRescues ==
  Spec => []DeathRescues
<1>1. Inv => DeathRescues
  BY DEF Inv, Rescuing, RescueOf, Owing, Among, DeathRescues, At, Ending3, ToSet
<1> QED
  BY <1>1, NanoFilesInvariant, PTL

(* The emergency files change only when a dying editor saves a buffer.     *)
LEMMA OnlyRescueRescues ==
  ASSUME [Next]_vars
  PROVE  rescue' = rescue \/ \E p \in Editors : Rescue(p)
<1>1. ASSUME NEW p \in Editors, SaveStep(p)
      PROVE  rescue' = rescue
  <2>1. CASE CopyToBackup(p) \/ CreateBackup(p) \/ FailToBackup(p)
    BY <2>1 DEF CopyToBackup, CreateBackup, FailToBackup
  <2>2. CASE \/ Prompt(p) \/ Check(p) \/ AnswerOverwrite(p) \/ AnswerContinue(p) \/ StatTarget(p)
             \/ CopyToTemp(p) \/ OpenFile(p) \/ WriteText(p) \/ SyncFile(p) \/ FinishSave(p)
    BY <2>2 DEF stored, Prompt, Check, AnswerOverwrite, AnswerContinue, StatTarget, CopyToTemp,
                OpenFile, WriteText, SyncFile, FinishSave
  <2> QED
    BY <1>1, <2>1, <2>2 DEF SaveStep
<1>2. ASSUME NEW p \in Editors, Editing(p)
      PROVE  rescue' = rescue
  <2>1. CASE \/ Start(p) \/ OpenNext(p) \/ MakeLock(p) \/ Read(p) \/ StatFile(p)
             \/ RestorePosition(p) \/ Ready(p) \/ OpenAnother(p) \/ Type(p)
    BY <2>1 DEF stored, Start, OpenNext, MakeLock, Read, StatFile, RestorePosition, Ready,
                OpenAnother, Type
  <2>2. CASE \/ Switch(p) \/ DoWriteout(p) \/ DoSavefile(p) \/ Search(p) \/ DoExit(p) \/ Close(p)
             \/ OpenLog(p) \/ WriteLog(p) \/ Finish(p)
    BY <2>2 DEF stored, Switch, DoWriteout, DoSavefile, Search, DoExit, Close, OpenLog,
                WriteLog, Finish
  <2> QED
    BY <1>1, <1>2, <2>1, <2>2 DEF Editing
<1>3. ASSUME NEW p \in Editors, Ending(p)
      PROVE  rescue' = rescue \/ Rescue(p)
  BY <1>3 DEF Ending, Hangup, DieOn, Dead, GiveUp, Kill, stored
<1>4. PowerLoss \/ Tick \/ (\E n \in Names : ForeignWrite(n)) => rescue' = rescue
  BY DEF PowerLoss, Tick, ForeignWrite, stored
<1>5. UNCHANGED vars => rescue' = rescue
  BY DEF vars
<1> QED
  BY <1>2, <1>3, <1>4, <1>5 DEF Next

(* A sequence is the beginning of itself with something appended.          *)
LEMMA PrefixOfAppend ==
  ASSUME NEW S, NEW s \in Seq(S), NEW x \in S
  PROVE  IsPrefix(s, s) /\ IsPrefix(s, Append(s, x))
<1> DEFINE n == Len(s)
           t == Append(s, x)
           a == SubSeq(s, 1, n)
           b == SubSeq(t, 1, n)
<1>1. n \in Nat /\ t \in Seq(S) /\ Len(t) = n + 1 /\ \A i \in 1 .. n : t[i] = s[i]
  BY LenProperties, AppendProperties
<1>2. \A i \in 1 .. n : s[i] \in S /\ t[i] \in S
  BY <1>1, ElementOfSeq
<1> HIDE DEF n, t
<1>3. /\ a \in Seq(S) /\ Len(a) = (IF 1 <= n THEN n - 1 + 1 ELSE 0)
      /\ \A i \in 1 .. n - 1 + 1 : a[i] = s[1 + i - 1]
  BY <1>1, <1>2, SubSeqProperties
<1>4. /\ b \in Seq(S) /\ Len(b) = (IF 1 <= n THEN n - 1 + 1 ELSE 0)
      /\ \A i \in 1 .. n - 1 + 1 : b[i] = t[1 + i - 1]
  BY <1>1, <1>2, SubSeqProperties
<1> HIDE DEF a, b
<1>5. Len(a) = n /\ Len(b) = n
  BY <1>1, <1>3, <1>4
<1>6. \A i \in 1 .. n : a[i] = b[i]
  <2> SUFFICES ASSUME NEW i \in 1 .. n
               PROVE  a[i] = b[i]
    OBVIOUS
  <2>1. i \in 1 .. n - 1 + 1 /\ 1 + i - 1 = i
    BY <1>1
  <2> QED
    BY <1>1, <1>3, <1>4, <2>1
<1>7. a = b
  BY <1>3, <1>4, <1>5, <1>6, SeqEqual
<1>8. n <= n /\ n <= n + 1
  BY <1>1
<1> QED
  BY <1>1, <1>7, <1>8 DEF IsPrefix, n, t, a, b

(* An emergency file never replaces another one, whoever dies at the same  *)
(* time (emergency_save(), write_file()).                                  *)
THEOREM NanoFilesEmergencyNeverClobbers ==
  Spec => EmergencyNeverClobbers
<1>1. Inv /\ [Next]_vars => [\A k \in DOMAIN rescue : IsPrefix(rescue[k], rescue'[k])]_vars
  <2> SUFFICES ASSUME Inv, [Next]_vars, NEW k \in DOMAIN rescue
               PROVE  IsPrefix(rescue[k], rescue'[k])
    OBVIOUS
  <2>1. WorldOK /\ rescue \in [Key -> Seq(Text)]
    BY DEF Inv, TypeOK, WorldOK
  <2>2. rescue[k] \in Seq(Text) /\ k \in Key
    BY <2>1
  <2>3. IsPrefix(rescue[k], rescue[k]) /\ \A t \in Text : IsPrefix(rescue[k], Append(rescue[k], t))
    <3>1. \A t \in Text : IsPrefix(rescue[k], rescue[k]) /\ IsPrefix(rescue[k], Append(rescue[k], t))
      BY <2>2, PrefixOfAppend
    <3> QED
      BY <3>1, TornIs
  <2>4. CASE rescue' = rescue
    BY <2>3, <2>4
  <2>5. ASSUME NEW p \in Editors, Rescue(p)
        PROVE  IsPrefix(rescue[k], rescue'[k])
    <3>1. /\ IsEditor(editor[p]) /\ Cur(p) \in Buffer
      BY <2>5, Facts DEF Rescue, At, Bufferless
    <3>2. Cur(p).text \in Text
      BY <3>1 DEF Buffer
    <3>3. PICK t \in Text : rescue' = [rescue EXCEPT ![RescueKey(p)] =
                                         Created(@, editor[p].slot, t)]
      BY <2>5, <3>2, TornIs DEF Rescue
    <3>4. rescue'[k] = rescue[k] \/ rescue'[k] = Append(rescue[k], t)
      BY <2>1, <2>2, <3>3 DEF Created
    <3> QED
      BY <2>3, <3>4
  <2> QED
    BY <2>4, <2>5, OnlyRescueRescues
<1> QED
  BY <1>1, NanoFilesInvariant, PTL DEF Spec, EmergencyNeverClobbers
-----------------------------------------------------------------------------
(* The histories.                                                          *)

LEMMA LeastOf ==
  ASSUME NEW S \in SUBSET Nat, S # {}
  PROVE  \E x \in S : \A y \in S : x <= y
<1> DEFINE R == {ss \in Nat \X Nat : ss[1] < ss[2]}
<1>1. IsWellFoundedOn(R, Nat)
  BY NatLessThanWellFounded DEF OpToRel
<1>2. PICK x \in S : \A y \in S : <<y, x>> \notin R
  BY <1>1, WFMin, Zenon
<1>3. ASSUME NEW y \in S PROVE x <= y
  <2>1. /\ <<y, x>> \in Nat \X Nat
        /\ <<y, x>>[1] = y /\ <<y, x>>[2] = x
    OBVIOUS
  <2>2. ~(y < x)
    BY <1>2, <2>1
  <2> QED
    BY <2>2
<1> QED
  BY <1>3

(* A set of places has a first and a last one.                             *)
LEMMA FirstAndLast ==
  ASSUME NEW n \in Nat, NEW I \in SUBSET (1 .. n), I # {}
  PROVE  Min(I) \in I /\ Max(I) \in I
<1>1. Min(I) \in I
  <2>1. I \in SUBSET Nat
    OBVIOUS
  <2> QED
    BY <2>1, LeastOf DEF Min
<1> DEFINE J == {n - i : i \in I}
<1>2. J \in SUBSET Nat /\ J # {}
  <2>1. \A i \in I : n - i \in Nat
    OBVIOUS
  <2> QED
    BY <2>1
<1>3. PICK j \in J : \A k \in J : j <= k
  BY <1>2, LeastOf
<1>4. PICK m \in I : j = n - m
  OBVIOUS
<1>5. \A i \in I : m >= i
  <2> TAKE i \in I
  <2>1. n - m <= n - i
    BY <1>3, <1>4
  <2> QED
    BY <2>1
<1> QED
  BY <1>1, <1>5 DEF Max

(* A sequence without one of its elements.                                 *)
LEMMA RemovedIs ==
  ASSUME NEW S, NEW s \in Seq(S), NEW i \in 1 .. Len(s)
  PROVE  /\ RemoveAt(s, i) \in Seq(S) /\ Len(RemoveAt(s, i)) = Len(s) - 1
         /\ \A j \in 1 .. Len(s) - 1 :
              RemoveAt(s, i)[j] = IF j < i THEN s[j] ELSE s[j + 1]
<1> DEFINE n == Len(s)
           a == SubSeq(s, 1, i - 1)
           b == SubSeq(s, i + 1, n)
<1>1. n \in Nat /\ i \in 1 .. n
  BY LenProperties
<1>2. \A j \in 1 .. n : s[j] \in S
  BY ElementOfSeq
<1> HIDE DEF n
<1>3. a \in Seq(S) /\ Len(a) = i - 1 /\ \A j \in 1 .. i - 1 : a[j] = s[j]
  <2>1. \A j \in 1 .. i - 1 : s[j] \in S
    BY <1>1, <1>2
  <2>2. /\ a \in Seq(S) /\ Len(a) = (IF 1 <= i - 1 THEN (i - 1) - 1 + 1 ELSE 0)
        /\ \A j \in 1 .. (i - 1) - 1 + 1 : a[j] = s[1 + j - 1]
    BY <1>1, <2>1, SubSeqProperties
  <2> HIDE DEF a
  <2>3. \A j \in 1 .. i - 1 : j \in 1 .. (i - 1) - 1 + 1 /\ 1 + j - 1 = j
    BY <1>1
  <2> QED
    BY <1>1, <2>2, <2>3
<1>4. b \in Seq(S) /\ Len(b) = n - i /\ \A j \in 1 .. n - i : b[j] = s[i + j]
  <2>1. \A j \in i + 1 .. n : s[j] \in S
    BY <1>1, <1>2
  <2>2. /\ b \in Seq(S) /\ Len(b) = (IF i + 1 <= n THEN n - (i + 1) + 1 ELSE 0)
        /\ \A j \in 1 .. n - (i + 1) + 1 : b[j] = s[(i + 1) + j - 1]
    BY <1>1, <2>1, SubSeqProperties
  <2> HIDE DEF b
  <2>3. \A j \in 1 .. n - i : j \in 1 .. n - (i + 1) + 1 /\ (i + 1) + j - 1 = i + j
    BY <1>1
  <2> QED
    BY <1>1, <2>2, <2>3
<1> HIDE DEF a, b
<1>5. /\ a \o b \in Seq(S) /\ Len(a \o b) = (i - 1) + (n - i)
      /\ \A j \in 1 .. (i - 1) + (n - i) :
           (a \o b)[j] = IF j <= i - 1 THEN a[j] ELSE b[j - (i - 1)]
  <2>1. /\ a \o b \in Seq(S) /\ Len(a \o b) = Len(a) + Len(b)
        /\ \A j \in 1 .. Len(a) + Len(b) :
             (a \o b)[j] = IF j <= Len(a) THEN a[j] ELSE b[j - Len(a)]
    BY <1>3, <1>4, ConcatProperties
  <2> QED
    BY <1>3, <1>4, <2>1
<1>6. ASSUME NEW j \in 1 .. n - 1
      PROVE  (a \o b)[j] = IF j < i THEN s[j] ELSE s[j + 1]
  <2>1. j \in 1 .. (i - 1) + (n - i) /\ (j <= i - 1 <=> j < i)
    BY <1>1
  <2>2. CASE j < i
    BY <1>3, <1>5, <2>1, <2>2
  <2>3. CASE ~(j < i)
    <3>1. j - (i - 1) \in 1 .. n - i /\ i + (j - (i - 1)) = j + 1
      BY <1>1, <2>3
    <3> QED
      BY <1>4, <1>5, <2>1, <2>3, <3>1
  <2> QED
    BY <2>2, <2>3
<1>7. (i - 1) + (n - i) = n - 1
  BY <1>1
<1> QED
  BY <1>5, <1>6, <1>7 DEF RemoveAt, a, b, n

(* The history of positions without a name has all the others.             *)
LEMMA WithoutName ==
  ASSUME NEW S, NEW s \in Seq(S), NEW x
  PROVE  RemoveFirst(s, x) \in Seq(S) /\ ToSet(s) \subseteq ToSet(RemoveFirst(s, x)) \cup {x}
<1> DEFINE I == {i \in 1 .. Len(s) : s[i] = x}
           k == Min(I)
           t == RemoveAt(s, k)
<1>1. Len(s) \in Nat /\ DOMAIN s = 1 .. Len(s)
  BY LenProperties
<1>2. CASE I = {}
  BY <1>2 DEF RemoveFirst
<1>3. CASE I # {}
  <2>1. k \in 1 .. Len(s) /\ s[k] = x
    <3>1. Min(I) \in I
      BY <1>1, <1>3, FirstAndLast
    <3> QED
      BY <3>1
  <2>2. RemoveFirst(s, x) = t
    BY <1>3 DEF RemoveFirst, SelectInSeq
  <2> HIDE DEF k, I
  <2>3. /\ t \in Seq(S) /\ Len(t) = Len(s) - 1
        /\ \A j \in 1 .. Len(s) - 1 : t[j] = IF j < k THEN s[j] ELSE s[j + 1]
    BY <2>1, RemovedIs
  <2> HIDE DEF t
  <2>4. DOMAIN t = 1 .. Len(s) - 1
    BY <2>3, LenProperties
  <2>5. ASSUME NEW i \in 1 .. Len(s), s[i] # x
        PROVE  \E j \in DOMAIN t : t[j] = s[i]
    <3>1. CASE i < k
      BY <1>1, <2>1, <2>3, <2>4, <3>1
    <3>2. CASE ~(i < k)
      <4>1. i # k /\ i - 1 \in 1 .. Len(s) - 1 /\ ~(i - 1 < k) /\ (i - 1) + 1 = i
        BY <1>1, <2>1, <2>5, <3>2
      <4> QED
        BY <2>3, <2>4, <4>1
    <3> QED
      BY <3>1, <3>2
  <2> QED
    BY <1>1, <2>2, <2>3, <2>5 DEF ToSet
<1> QED
  BY <1>2, <1>3

(* An updated history of searches has no string twice, and keeps to its    *)
(* length.                                                                 *)
LEMMA UpdatedIs ==
  ASSUME NEW S, NEW s \in Seq(S), NEW x \in S, IsInjective(s), Len(s) <= MaxHistory
  PROVE  /\ Updated(s, x) \in Seq(S) /\ IsInjective(Updated(s, x))
         /\ Len(Updated(s, x)) <= MaxHistory
<1> DEFINE I == {i \in 1 .. Len(s) : s[i] = x}
           k == IF I # {} THEN Max(I) ELSE 0
           t == IF k = 0 THEN s ELSE RemoveAt(s, k)
           n == Len(t)
           from == IF n < MaxHistory THEN 1 ELSE 2
           u == SubSeq(t, from, n)
<1>1. Updated(s, x) = u \o <<x>>
  BY DEF Updated, SelectLastInSeq
<1>2. Len(s) \in Nat /\ DOMAIN s = 1 .. Len(s) /\ MaxHistory \in Nat \ {0}
      /\ \A i \in 1 .. Len(s) : s[i] \in S
  BY LenProperties, ElementOfSeq, DistinctConstants
<1>3. (k = 0 /\ I = {}) \/ (k \in 1 .. Len(s) /\ s[k] = x)
  <2>1. I # {} => Max(I) \in I
    BY <1>2, FirstAndLast
  <2>2. \A i \in I : i \in 1 .. Len(s) /\ s[i] = x
    OBVIOUS
  <2> HIDE DEF I
  <2> QED
    BY <2>1, <2>2
<1>4. /\ t \in Seq(S) /\ n \in Nat /\ n <= MaxHistory
      /\ \A i \in 1 .. n : t[i] # x /\ t[i] \in S
      /\ \A i, j \in 1 .. n : t[i] = t[j] => i = j
  <2>1. \A i, j \in 1 .. Len(s) : s[i] = s[j] => i = j
    BY <1>2 DEF IsInjective
  <2>2. CASE k = 0
    BY <1>2, <1>3, <2>1, <2>2
  <2>3. CASE k # 0
    <3>1. k \in 1 .. Len(s) /\ s[k] = x /\ t = RemoveAt(s, k)
      BY <1>3, <2>3
    <3> HIDE DEF k, t
    <3>2. /\ t \in Seq(S) /\ Len(t) = Len(s) - 1
          /\ \A j \in 1 .. Len(s) - 1 : t[j] = IF j < k THEN s[j] ELSE s[j + 1]
      BY <3>1, RemovedIs
    <3> DEFINE from2(j) == IF j < k THEN j ELSE j + 1
    <3>3. \A j \in 1 .. n : from2(j) \in 1 .. Len(s) /\ from2(j) # k /\ t[j] = s[from2(j)]
      BY <1>2, <3>1, <3>2
    <3>4. \A i, j \in 1 .. n : from2(i) = from2(j) => i = j
      BY <1>2, <3>1, <3>2
    <3>5. n \in Nat /\ n <= MaxHistory
      BY <1>2, <3>1, <3>2
    <3> HIDE DEF from2, n
    <3> QED
      BY <1>2, <2>1, <3>1, <3>2, <3>3, <3>4, <3>5
  <2> QED
    BY <2>2, <2>3
<1> HIDE DEF t, k, I
<1>5. from \in {1, 2} /\ n + 2 - from \in Nat /\ n + 2 - from <= MaxHistory
      /\ n + 1 - from + 1 = n + 2 - from
  BY <1>2, <1>4
<1> HIDE DEF n, from
<1> DEFINE m == n + 1 - from
<1>6. /\ u \in Seq(S) /\ \A i \in 1 .. m : u[i] = t[from + i - 1] /\ from + i - 1 \in 1 .. n
      /\ Len(u) = IF from <= n THEN m ELSE 0
  <2>1. \A i \in from .. n : t[i] \in S /\ i \in 1 .. n
    BY <1>4, <1>5
  <2>2. /\ u \in Seq(S) /\ Len(u) = (IF from <= n THEN n - from + 1 ELSE 0)
        /\ \A i \in 1 .. n - from + 1 : u[i] = t[from + i - 1]
    BY <1>4, <1>5, <2>1, SubSeqProperties
  <2> HIDE DEF u
  <2>3. n - from + 1 = m /\ \A i \in 1 .. m : from + i - 1 \in 1 .. n
    BY <1>4, <1>5
  <2> QED
    BY <2>2, <2>3
<1> DEFINE c == Len(u)
<1>7. c <= m \/ c = 0
  BY <1>6, LenProperties
<1>8. c \in Nat /\ c + 1 <= MaxHistory /\ c + 1 \in Nat /\ \A i \in 1 .. c : i \in 1 .. m
  <2>1. c \in Nat
    BY <1>6, LenProperties
  <2> HIDE DEF c
  <2> QED
    BY <1>2, <1>4, <1>5, <1>7, <2>1
<1> HIDE DEF u
<1>9. /\ u \o <<x>> \in Seq(S) /\ Len(u \o <<x>>) = c + 1
      /\ \A i \in 1 .. c + 1 : (u \o <<x>>)[i] = IF i <= c THEN u[i] ELSE x
  <2>1. <<x>> \in Seq(S) /\ Len(<<x>>) = 1 /\ <<x>>[1] = x
    OBVIOUS
  <2>2. /\ u \o <<x>> \in Seq(S) /\ Len(u \o <<x>>) = c + 1
        /\ \A i \in 1 .. c + 1 : (u \o <<x>>)[i] = IF i <= c THEN u[i] ELSE <<x>>[i - c]
    BY <1>6, <2>1, ConcatProperties
  <2>3. \A i \in 1 .. c + 1 : ~(i <= c) => i - c = 1
    BY <1>8
  <2> QED
    BY <2>1, <2>2, <2>3
<1> DEFINE v == u \o <<x>>
<1>10. DOMAIN v = 1 .. c + 1
  BY <1>9, LenProperties
<1> HIDE DEF v, c
<1>11. ASSUME NEW i \in 1 .. c + 1, NEW j \in 1 .. c + 1, v[i] = v[j]
       PROVE  i = j
  <2>1. \A a \in 1 .. c : u[a] = t[from + a - 1] /\ from + a - 1 \in 1 .. n /\ u[a] # x
    BY <1>4, <1>6, <1>8
  <2>2. CASE i <= c /\ j <= c
    <3>1. i \in 1 .. c /\ j \in 1 .. c
      BY <1>8, <2>2
    <3>2. v[i] = u[i] /\ v[j] = u[j]
      BY <1>9, <2>2 DEF v
    <3>3. t[from + i - 1] = t[from + j - 1]
      BY <1>11, <2>1, <3>1, <3>2
    <3>4. from + i - 1 = from + j - 1
      BY <1>4, <2>1, <3>1, <3>3
    <3> QED
      BY <1>5, <3>4
  <2>3. CASE i > c /\ j > c
    <3>1. i = c + 1 /\ j = c + 1
      BY <1>8, <2>3
    <3> QED
      BY <3>1
  <2>4. CASE (i <= c /\ j > c) \/ (i > c /\ j <= c)
    <3>1. \A a \in 1 .. c + 1 : a <= c => a \in 1 .. c
      BY <1>8
    <3>2. \A a \in 1 .. c + 1 : a > c => ~(a <= c)
      BY <1>8
    <3> QED
      BY <1>9, <1>11, <2>1, <2>4, <3>1, <3>2 DEF v
  <2>5. (i <= c \/ i > c) /\ (j <= c \/ j > c)
    BY <1>8
  <2> QED
    BY <2>2, <2>3, <2>4, <2>5
<1> QED
  BY <1>1, <1>8, <1>9, <1>10, <1>11 DEF IsInjective, v

-----------------------------------------------------------------------------
(* The types of the histories.                                             *)
Strings == UNION {s.strings : s \in Scenarios}

Remembers(e) == e.log \in Seq(Names) /\ e.stamp \in Nat /\ e.searches \in Seq(Strings)

HistoryTypes ==
  /\ poslog \in [names : Seq(Names), mtime : Nat] /\ searchlog \in Seq(Strings)
  /\ now # 0
  /\ \A p \in Editors : Remembers(editor[p])

(* Until updates overlap, no two editors are writing the history of        *)
(* positions or about to.                                                  *)
Logging == {"open log", "write log"}

OneLogs ==
  ~disturbed => \A p, q \in Editors : editor[p].pc \in Logging /\ editor[q].pc \in Logging => p = q

(* A history without a time is one that was never written.                 *)
UnwrittenIsEmpty == poslog.mtime = 0 => poslog.names = <<>>

Histories == HistoryTypes /\ OneLogs /\ UnwrittenIsEmpty /\ PositionsKept /\ SearchesDistinct

-----------------------------------------------------------------------------
(* Steps that leave an editor's histories alone.                           *)
Quiet(f, e) ==
  /\ f.log = e.log /\ f.stamp = e.stamp /\ f.searches = e.searches
  /\ f.pc \in Logging => e.pc = f.pc

LEMMA QuietKeeps ==
  ASSUME Histories, UNCHANGED <<poslog, searchlog>>, now' # 0, disturbed => disturbed',
         \A p \in Editors : Quiet(editor'[p], editor[p])
  PROVE  Histories'
<1>1. HistoryTypes'
  BY DEF Histories, HistoryTypes, Remembers, Quiet
<1>2. OneLogs'
  BY DEF Histories, OneLogs, Quiet
<1>3. UnwrittenIsEmpty'
  BY DEF Histories, UnwrittenIsEmpty
<1>4. PositionsKept'
  <2>1. \A p \in Editors : editor'[p].pc = "open log" =>
          editor[p].pc = "open log" /\ editor'[p].log = editor[p].log
    BY DEF Quiet, Logging
  <2> QED
    BY <2>1 DEF Histories, PositionsKept, At
<1>5. SearchesDistinct'
  <2>1. \A p \in Editors : editor'[p].searches = editor[p].searches
    BY DEF Quiet
  <2> QED
    BY <2>1 DEF Histories, SearchesDistinct
<1> QED
  BY <1>1, <1>2, <1>3, <1>4, <1>5 DEF Histories

(* What the fields of a record with all fields are after a change.         *)
LEMMA Recorded ==
  ASSUME Inv
  PROVE  /\ editor = [q \in Editors |-> editor[q]]
         /\ \A q \in Editors : DOMAIN editor[q] = {"pc", "ring", "args", "up", "save", "log",
              "stamp", "searches", "searched", "todo", "slot", "owed", "missed"}
BY DEF Inv, TypeOK, IsEditor, Fields

LEMMA SaveQuiet ==
  ASSUME Inv, NEW p \in Editors, SaveStep(p), NEW q \in Editors
  PROVE  Quiet(editor'[q], editor[q])
<1>1. ASSUME NEW pc, pc \notin Logging, Goto(p, pc)
      PROVE  Quiet(editor'[q], editor[q])
  BY <1>1, Recorded DEF Goto, Quiet
<1>2. ASSUME Dropped(p)
       PROVE  Quiet(editor'[q], editor[q])
  BY <1>2, Recorded DEF Dropped, Quiet, Logging
<1>3. CASE Prompt(p)
  <2>1. ASSUME NEW n, NEW method, NEW pc \in {"check", "stat"},
               editor' = [editor EXCEPT ![p].save.name = n, ![p].save.method = method, ![p].pc = pc]
        PROVE  Quiet(editor'[q], editor[q])
    BY <2>1, Recorded DEF Quiet, Logging
  <2> QED
    BY <1>3, <1>1, <1>2, <2>1 DEF Prompt, Logging
<1>4. CASE Check(p)
  <2>1. ASSUME NEW seen, NEW pc \in {"overwrite?", "stat", "continue?"},
               editor' = [editor EXCEPT ![p].pc = pc, ![p].save.asked = FALSE,
                                        ![p].save.seen = seen]
        PROVE  Quiet(editor'[q], editor[q])
    BY <2>1, Recorded DEF Quiet, Logging
  <2> QED
    BY <1>4, <1>1, <2>1 DEF Check, Logging
<1>5. CASE AnswerOverwrite(p)
  <2>1. CASE editor' = [editor EXCEPT ![p].pc = "stat", ![p].save.asked = TRUE]
    BY <2>1, Recorded DEF Quiet, Logging
  <2> QED
    BY <1>5, <1>1, <2>1 DEF AnswerOverwrite, Logging
<1>6. CASE AnswerContinue(p)
  <2>1. ASSUME NEW annotate,
               editor' = [editor EXCEPT ![p].pc = "stat", ![p].save.asked = TRUE,
                                        ![p].save.annotate = annotate]
        PROVE  Quiet(editor'[q], editor[q])
    BY <2>1, Recorded DEF Quiet, Logging
  <2> QED
    BY <1>6, <1>1, <1>2, <2>1 DEF AnswerContinue, Logging
<1>7. CASE StatTarget(p)
  BY <1>7, Recorded DEF StatTarget, WithCur, Onward, Quiet, Logging
<1>8. CASE CreateBackup(p)
  BY <1>8, Recorded DEF CreateBackup, Goto, Quiet, Logging
<1>9. CASE CopyToBackup(p)
  BY <1>9, Recorded DEF CopyToBackup, Onward, Quiet, Logging
<1>10. ASSUME NEW full, NEW files, Failed(p, full, files)
      PROVE  Quiet(editor'[q], editor[q])
  BY <1>10, Recorded DEF Failed, AfterFailing, WithCur, Quiet, Logging
<1>11. CASE FailToBackup(p)
  BY <1>10, <1>1, <1>11 DEF FailToBackup, Onward, Logging
<1>12. CASE CopyToTemp(p)
  <2>1. CASE editor' = [editor EXCEPT ![p].save.temp = file[Target(p)].text, ![p].pc = "open file"]
    BY <2>1, Recorded DEF Quiet, Logging
  <2> QED
    BY <1>10, <1>12, <2>1 DEF CopyToTemp
<1>13. CASE OpenFile(p)
  BY <1>10, <1>1, <1>13 DEF OpenFile, Logging
<1>14. CASE WriteText(p)
  BY <1>10, <1>1, <1>14 DEF WriteText, Logging
<1>15. CASE SyncFile(p)
  BY <1>1, <1>15 DEF SyncFile, Logging
<1>16. CASE FinishSave(p)
  <2>1. ASSUME NEW pc \in {"closing", "idle"}, NEW c,
               editor' = [editor EXCEPT ![p] =
                            WithCur([editor[p] EXCEPT !.pc = pc, !.save.backed = FALSE], c)]
        PROVE  Quiet(editor'[q], editor[q])
    BY <2>1, Recorded DEF WithCur, Quiet, Logging
  <2> QED
    BY <1>16, <2>1 DEF FinishSave
<1> QED
  BY <1>3, <1>4, <1>5, <1>6, <1>7, <1>8, <1>9, <1>11, <1>12, <1>13, <1>14, <1>15, <1>16
     DEF SaveStep

LEMMA GotoQuiet ==
  ASSUME Inv, NEW p \in Editors, NEW pc, pc \notin Logging, Goto(p, pc), NEW q \in Editors
  PROVE  Quiet(editor'[q], editor[q])
BY Recorded DEF Goto, Quiet

LEMMA StartSaveQuiet ==
  ASSUME Inv, NEW p \in Editors, NEW exiting, NEW prompt, NEW mark,
         StartSave(p, exiting, prompt, mark), NEW q \in Editors
  PROVE  Quiet(editor'[q], editor[q])
BY Recorded DEF StartSave, Quiet, Logging

LEMMA EditingQuiet ==
  ASSUME Inv, NEW p \in Editors, NEW q \in Editors,
         \/ OpenNext(p) \/ MakeLock(p) \/ Read(p) \/ StatFile(p) \/ Ready(p) \/ OpenAnother(p)
         \/ Type(p) \/ Switch(p) \/ DoWriteout(p) \/ DoSavefile(p) \/ DoExit(p) \/ Finish(p)
  PROVE  Quiet(editor'[q], editor[q])
<1> DEFINE e == editor[p]
<1>1. ASSUME NEW pc, pc \notin Logging, Goto(p, pc)
      PROVE  Quiet(editor'[q], editor[q])
  BY <1>1, GotoQuiet
<1>2. ASSUME NEW r, editor' = [editor EXCEPT ![p].ring = r]
      PROVE  Quiet(editor'[q], editor[q])
  BY <1>2, Recorded DEF Quiet
<1>3. CASE OpenNext(p)
  <2>1. ASSUME NEW pc \in {"lock", "read"}, NEW r,
               editor' = [editor EXCEPT ![p].pc = pc, ![p].ring = r]
        PROVE  Quiet(editor'[q], editor[q])
    BY <2>1, Recorded DEF Quiet, Logging
  <2>2. CASE editor' = [editor EXCEPT ![p].args = Tail(@)]
    BY <2>2, Recorded DEF Quiet, Logging
  <2> QED
    BY <1>1, <1>3, <2>1, <2>2 DEF OpenNext, Logging
<1>4. CASE MakeLock(p)
  <2>1. ASSUME NEW k, editor' = [editor EXCEPT ![p].pc = "read", ![p].ring[1].lock = k]
        PROVE  Quiet(editor'[q], editor[q])
    BY <2>1, Recorded DEF Quiet, Logging
  <2> QED
    BY <1>4, <2>1 DEF MakeLock
<1>5. ASSUME NEW pc, pc \notin Logging, NEW c,
             editor' = [editor EXCEPT ![p] = WithCur([editor[p] EXCEPT !.pc = pc], c)]
      PROVE  Quiet(editor'[q], editor[q])
  BY <1>5, Recorded DEF WithCur, Quiet
<1>6. CASE Read(p) \/ StatFile(p)
  BY <1>5, <1>6 DEF Read, StatFile, Logging
<1>7. CASE Ready(p)
  <2>1. ASSUME NEW r, editor' = [editor EXCEPT ![p].pc = "idle", ![p].up = TRUE, ![p].ring = r]
        PROVE  Quiet(editor'[q], editor[q])
    BY <2>1, Recorded DEF Quiet, Logging
  <2> QED
    BY <1>7, <2>1 DEF Ready
<1>8. CASE OpenAnother(p)
  <2>1. ASSUME NEW n, editor' = [editor EXCEPT ![p].pc = "open", ![p].args = <<n>>]
        PROVE  Quiet(editor'[q], editor[q])
    BY <2>1, Recorded DEF Quiet, Logging
  <2> QED
    BY <1>8, <2>1 DEF OpenAnother
<1>9. CASE Type(p)
  <2>1. ASSUME NEW c, editor' = [editor EXCEPT ![p] = WithCur(editor[p], c)]
        PROVE  Quiet(editor'[q], editor[q])
    BY <2>1, Recorded DEF WithCur, Quiet
  <2> QED
    BY <1>9, <2>1 DEF Type
<1>10. CASE Switch(p)
  BY <1>2, <1>10 DEF Switch
<1>11. CASE DoWriteout(p) \/ DoSavefile(p)
  BY <1>11, StartSaveQuiet DEF DoWriteout, DoSavefile
<1>12. CASE DoExit(p)
  <2>1. CASE Dropped(p)
    BY <2>1, Recorded DEF Dropped, Quiet, Logging
  <2> QED
    BY <1>1, <1>12, <2>1, StartSaveQuiet DEF DoExit, Logging
<1>13. CASE Finish(p)
  <2>1. editor' = [editor EXCEPT ![p].pc = "gone", ![p].ring = <<>>]
    BY <1>13 DEF Finish
  <2> QED
    BY <2>1, Recorded DEF Quiet, Logging
<1> QED
  BY <1>3, <1>4, <1>6, <1>7, <1>8, <1>9, <1>10, <1>11, <1>12, <1>13

LEMMA EndingQuiet ==
  ASSUME Inv, NEW p \in Editors, NEW q \in Editors, Ending(p) \/ PowerLoss
  PROVE  Quiet(editor'[q], editor[q])
<1>1. ASSUME NEW e, DOMAIN e = Fields, e.log = editor[p].log, e.stamp = editor[p].stamp,
             e.searches = editor[p].searches, e.pc \notin Logging,
             editor' = [editor EXCEPT ![p] = e]
      PROVE  Quiet(editor'[q], editor[q])
  BY <1>1, Recorded DEF Quiet
<1>2. ASSUME NEW pc, pc \notin Logging, Goto(p, pc)
      PROVE  Quiet(editor'[q], editor[q])
  BY <1>2, GotoQuiet
<1>3. CASE Hangup(p)
  <2>1. ASSUME NEW todo, NEW missed, NEW region, NEW b, NEW owed,
               editor' = [editor EXCEPT ![p].pc = "dying", ![p].todo = todo, ![p].missed = missed,
                            ![p].ring = IF region THEN <<b>> \o Tail(@) ELSE @, ![p].owed = owed]
        PROVE  Quiet(editor'[q], editor[q])
    BY <2>1, Recorded DEF Quiet, Logging
  <2> QED
    BY <1>3, <2>1 DEF Hangup
<1>4. ASSUME NEW e, DOMAIN e = Fields
      PROVE  /\ DOMAIN Done(e) = Fields /\ Done(e).pc = "dying" /\ Done(e).log = e.log
             /\ Done(e).stamp = e.stamp /\ Done(e).searches = e.searches
  BY <1>4 DEF Done, Fields
<1>5. DOMAIN editor[p] = Fields
  BY Recorded DEF Fields
<1>6. CASE DieOn(p)
  <2>1. CASE editor' = [editor EXCEPT ![p] = Done(editor[p])]
    BY <1>1, <1>4, <1>5, <2>1 DEF Logging
  <2>2. ASSUME NEW slot,
               editor' = [editor EXCEPT ![p] = [editor[p] EXCEPT !.pc = "rescue", !.slot = slot]]
        PROVE  Quiet(editor'[q], editor[q])
    BY <2>2, Recorded DEF Quiet, Logging
  <2>3. editor' = [editor EXCEPT ![p] =
          IF NeedsRescue(Cur(p))
          THEN [editor[p] EXCEPT !.pc = "rescue", !.slot = Len(rescue[RescueKey(p)]) + 1]
          ELSE Done(editor[p])]
    BY <1>6, Recorded DEF DieOn
  <2> QED
    BY <2>1, <2>2, <2>3
<1>7. CASE Rescue(p)
  <2>1. PICK missed : editor' = [editor EXCEPT ![p] = [Done(editor[p]) EXCEPT !.missed = missed]]
    BY <1>7 DEF Rescue
  <2> DEFINE d == Done(editor[p])
             f == [d EXCEPT !.missed = missed]
  <2>2. /\ DOMAIN d = Fields /\ d.pc = "dying" /\ d.log = editor[p].log
        /\ d.stamp = editor[p].stamp /\ d.searches = editor[p].searches
    BY <1>4, <1>5
  <2> HIDE DEF d
  <2>3. /\ DOMAIN f = Fields /\ f.pc = "dying" /\ f.log = editor[p].log
        /\ f.stamp = editor[p].stamp /\ f.searches = editor[p].searches
    BY <2>2 DEF Fields
  <2>4. editor' = [editor EXCEPT ![p] = f]
    BY <2>1 DEF d
  <2> HIDE DEF f
  <2> QED
    BY <1>1, <2>3, <2>4 DEF Logging
<1>8. CASE Dead(p) \/ GiveUp(p) \/ Kill(p)
  BY <1>2, <1>8 DEF Dead, GiveUp, Kill, Logging
<1>9. CASE PowerLoss
  <2>1. editor'[q] = IF Alive(q) THEN [editor[q] EXCEPT !.pc = "killed"] ELSE editor[q]
    BY <1>9 DEF PowerLoss
  <2> QED
    BY <2>1, Recorded DEF Quiet, Logging
<1> QED
  BY <1>3, <1>6, <1>7, <1>8, <1>9 DEF Ending

-----------------------------------------------------------------------------
(* Steps of an editor that change its histories, or the files.             *)

(* One editor, which is not at the history of positions, remembers         *)
(* something else.                                                         *)
LEMMA OneRemembers ==
  ASSUME Inv, Histories, NEW p \in Editors, NEW f, editor' = [editor EXCEPT ![p] = f],
         f.pc \notin Logging, Remembers(f),
         IsInjective(f.searches), Len(f.searches) <= MaxHistory,
         UNCHANGED <<poslog, searchlog, now>>, disturbed => disturbed'
  PROVE  Histories'
<1>1. /\ editor'[p] = f
      /\ \A q \in Editors : q # p => editor'[q] = editor[q]
  BY Recorded
<1>2. HistoryTypes'
  BY <1>1 DEF Histories, HistoryTypes
<1>3. OneLogs'
  BY <1>1 DEF Histories, OneLogs
<1>4. UnwrittenIsEmpty'
  BY DEF Histories, UnwrittenIsEmpty
<1>5. PositionsKept'
  BY <1>1 DEF Histories, PositionsKept, At, Logging
<1>6. SearchesDistinct'
  <2>1. \A q \in Editors : IsInjective(editor'[q].searches) /\ Len(editor'[q].searches) <= MaxHistory
    BY <1>1 DEF Histories, SearchesDistinct
  <2>2. IsInjective(searchlog') /\ Len(searchlog') <= MaxHistory
    BY DEF Histories, SearchesDistinct
  <2> QED
    BY <2>1, <2>2 DEF SearchesDistinct
<1> QED
  BY <1>2, <1>3, <1>4, <1>5, <1>6 DEF Histories

LEMMA KnownSearches ==
  ASSUME Histories
  PROVE  /\ \A q \in Editors : /\ Remembers(editor[q]) /\ IsInjective(editor[q].searches)
                               /\ Len(editor[q].searches) <= MaxHistory
         /\ searchlog \in Seq(Strings) /\ IsInjective(searchlog) /\ Len(searchlog) <= MaxHistory
         /\ poslog.names \in Seq(Names) /\ poslog.mtime \in Nat
BY DEF Histories, HistoryTypes, SearchesDistinct

(* What reading the history of positions again makes of an editor.         *)
LEMMA ReloadedRemembers ==
  ASSUME Histories, NEW e, DOMAIN e = Fields, Remembers(e)
  PROVE  /\ DOMAIN Reloaded(e) = Fields /\ Remembers(Reloaded(e)) /\ Reloaded(e).pc = e.pc
         /\ Reloaded(e).searches = e.searches
         /\ Reloaded(e).log = IF poslog.mtime \in {0, e.stamp} THEN e.log ELSE poslog.names
<1> DEFINE f == [e EXCEPT !.log = poslog.names, !.stamp = poslog.mtime]
<1>1. /\ DOMAIN f = Fields /\ f.log = poslog.names /\ f.stamp = poslog.mtime
      /\ f.searches = e.searches /\ f.pc = e.pc
  BY DEF Fields
<1>2. Remembers(f)
  <2> HIDE DEF f
  <2> QED
    BY <1>1, KnownSearches DEF Remembers
<1>3. CASE poslog.mtime \in {0, e.stamp}
  <2>1. Reloaded(e) = e
    BY <1>3 DEF Reloaded
  <2> QED
    BY <1>3, <2>1
<1>4. CASE poslog.mtime \notin {0, e.stamp}
  <2>1. Reloaded(e) = f
    BY <1>4 DEF Reloaded, LoadPosHistory
  <2> HIDE DEF f
  <2> QED
    BY <1>1, <1>2, <1>4, <2>1
<1> QED
  BY <1>3, <1>4

LEMMA StartRemembers ==
  ASSUME Inv, Histories, NEW p \in Editors, Start(p)
  PROVE  Histories'
<1> DEFINE e == [editor[p] EXCEPT !.pc = "open"]
           g == [e EXCEPT !.log = poslog.names, !.stamp = poslog.mtime]
           f == [g EXCEPT !.searches = searchlog]
<1>1. editor' = [editor EXCEPT ![p] = f]
  BY Recorded DEF Start, LoadHistory, LoadPosHistory
<1>2. /\ f.pc = "open" /\ f.log = poslog.names /\ f.stamp = poslog.mtime
      /\ f.searches = searchlog
  BY Recorded
<1> HIDE DEF f
<1>3. Remembers(f) /\ IsInjective(f.searches) /\ Len(f.searches) <= MaxHistory
  BY <1>2, KnownSearches DEF Remembers
<1>4. UNCHANGED <<poslog, searchlog, now>> /\ (disturbed => disturbed')
  BY DEF Start, stored, world
<1> QED
  BY <1>1, <1>2, <1>3, <1>4, OneRemembers DEF Logging

LEMMA RestorePositionRemembers ==
  ASSUME Inv, Histories, NEW p \in Editors, RestorePosition(p)
  PROVE  Histories'
<1> DEFINE next == [editor[p] EXCEPT !.pc = "open", !.args = Tail(@)]
           f == IF Option("POSITIONLOG") THEN Reloaded(next) ELSE next
<1>1. editor' = [editor EXCEPT ![p] = f]
  BY DEF RestorePosition
<1>2. /\ DOMAIN next = Fields /\ next.pc = "open" /\ next.log = editor[p].log
      /\ next.stamp = editor[p].stamp /\ next.searches = editor[p].searches
  BY Recorded DEF Fields
<1> HIDE DEF next
<1>3. Remembers(next)
  BY <1>2, KnownSearches DEF Remembers
<1>4. Remembers(f) /\ f.pc = "open" /\ f.searches = editor[p].searches
  BY <1>2, <1>3, ReloadedRemembers
<1> HIDE DEF f
<1>5. IsInjective(f.searches) /\ Len(f.searches) <= MaxHistory
  BY <1>4, KnownSearches
<1>6. UNCHANGED <<poslog, searchlog, now>> /\ (disturbed => disturbed')
  BY DEF RestorePosition, stored, world
<1> QED
  BY <1>1, <1>4, <1>5, <1>6, OneRemembers DEF Logging

LEMMA SearchRemembers ==
  ASSUME Inv, Histories, NEW p \in Editors, Search(p)
  PROVE  Histories'
<1>1. editor[p].pc = "idle" /\ scenario \in Scenarios
  BY DEF Search, At, Inv, TypeOK, WorldOK
<1>2. PICK s \in scenario.strings :
        editor' = [editor EXCEPT ![p].searches = Updated(@, s), ![p].searched = TRUE]
  BY DEF Search
<1> DEFINE l == Updated(editor[p].searches, s)
           f == [editor[p] EXCEPT !.searches = l, !.searched = TRUE]
<1>3. s \in Strings
  BY <1>1, <1>2 DEF Strings
<1>4. l \in Seq(Strings) /\ IsInjective(l) /\ Len(l) <= MaxHistory
  <2>1. /\ editor[p].searches \in Seq(Strings) /\ IsInjective(editor[p].searches)
        /\ Len(editor[p].searches) <= MaxHistory
    BY KnownSearches DEF Remembers
  <2> QED
    BY <1>3, <2>1, UpdatedIs
<1>5. editor' = [editor EXCEPT ![p] = f]
  <2>1. editor' = [editor EXCEPT ![p].searches = l, ![p].searched = TRUE]
    BY <1>2
  <2> HIDE DEF l
  <2> QED
    BY <2>1, Recorded
<1> HIDE DEF l
<1>6. /\ f.pc = "idle" /\ f.log = editor[p].log /\ f.stamp = editor[p].stamp /\ f.searches = l
  BY <1>1, Recorded
<1> HIDE DEF f
<1>7. Remembers(f)
  BY <1>4, <1>6, KnownSearches DEF Remembers
<1>8. UNCHANGED <<poslog, searchlog, now>> /\ (disturbed => disturbed')
  BY DEF Search, stored, world
<1> QED
  BY <1>4, <1>5, <1>6, <1>7, <1>8, OneRemembers DEF Logging

(* A buffer is closed: unless updates overlap, what the editor then knows  *)
(* is all the history has.                                                 *)
LEMMA CloseRemembers ==
  ASSUME Inv, Histories, NEW p \in Editors, Close(p)
  PROVE  Histories'
<1> DEFINE e == editor[p]
           n == Cur(p).name
<1>1. UNCHANGED <<poslog, searchlog, now>> /\ (disturbed => disturbed')
  BY DEF Close, stored
<1>2. CASE editor' = [editor EXCEPT ![p] = WithoutFirst(@)]
  <2> DEFINE f == WithoutFirst(e)
  <2>1. editor' = [editor EXCEPT ![p] = f]
    BY <1>2
  <2>2. /\ f.pc \in {"finish", "idle"} /\ f.log = e.log /\ f.stamp = e.stamp
        /\ f.searches = e.searches
    BY Recorded DEF WithoutFirst
  <2> HIDE DEF f
  <2>3. Remembers(f) /\ IsInjective(f.searches) /\ Len(f.searches) <= MaxHistory
    BY <2>2, KnownSearches DEF Remembers
  <2> QED
    BY <1>1, <2>1, <2>2, <2>3, OneRemembers DEF Logging
<1>3. CASE /\ n # NoName
           /\ editor' = [editor EXCEPT ![p] = UpdatePosHistory([@ EXCEPT !.pc = "open log"], n)]
           /\ disturbed' = (disturbed \/ Overlaps(p) \/ \E q \in Editors : At(q, "open log"))
  <2> DEFINE g == [e EXCEPT !.pc = "open log"]
             known == Reloaded(g)
             rest == RemoveFirst(known.log, n)
             l == <<n>> \o rest
             f == [known EXCEPT !.log = l]
  <2>1. editor' = [editor EXCEPT ![p] = f]
    BY <1>3, Recorded DEF UpdatePosHistory
  <2>2. /\ DOMAIN g = Fields /\ g.pc = "open log" /\ g.log = e.log
        /\ g.stamp = e.stamp /\ g.searches = e.searches
    BY Recorded DEF Fields
  <2>3. n \in Names
    <3>1. Cur(p) \in Buffer
      BY Facts DEF Close, At, Bufferless
    <3> QED
      BY <1>3, <3>1 DEF Buffer, NameOrNot
  <2> HIDE DEF g, e, n
  <2>4. Remembers(g)
    BY <2>2, KnownSearches DEF Remembers, e
  <2>5. /\ DOMAIN known = Fields /\ Remembers(known) /\ known.pc = "open log"
        /\ known.searches = e.searches
        /\ known.log = IF poslog.mtime \in {0, e.stamp} THEN e.log ELSE poslog.names
    BY <2>2, <2>4, ReloadedRemembers
  <2> HIDE DEF known
  <2>6. rest \in Seq(Names) /\ ToSet(known.log) \subseteq ToSet(rest) \cup {n}
    BY <2>5, WithoutName DEF Remembers
  <2> HIDE DEF rest
  <2>7. l \in Seq(Names) /\ ToSet(rest) \cup {n} \subseteq ToSet(l)
    <3>1. <<n>> \in Seq(Names) /\ Len(<<n>>) = 1 /\ <<n>>[1] = n
      BY <2>3
    <3>2. /\ l \in Seq(Names) /\ Len(l) = 1 + Len(rest)
          /\ \A i \in 1 .. 1 + Len(rest) : l[i] = IF i <= 1 THEN <<n>>[i] ELSE rest[i - 1]
      BY <2>6, <3>1, ConcatProperties
    <3> HIDE DEF l
    <3>3. Len(rest) \in Nat /\ DOMAIN rest = 1 .. Len(rest) /\ DOMAIN l = 1 .. 1 + Len(rest)
      BY <2>6, <3>2, LenProperties
    <3>4. l[1] = n /\ 1 \in DOMAIN l
      BY <3>1, <3>2, <3>3
    <3>5. ASSUME NEW i \in DOMAIN rest
          PROVE  i + 1 \in DOMAIN l /\ l[i + 1] = rest[i]
      <4>1. i + 1 \in 1 .. 1 + Len(rest) /\ ~(i + 1 <= 1) /\ (i + 1) - 1 = i
        BY <3>3
      <4> QED
        BY <3>2, <3>3, <4>1
    <3> QED
      BY <3>2, <3>4, <3>5 DEF ToSet
  <2> HIDE DEF l
  <2>8. /\ f.pc = "open log" /\ f.log = l /\ f.stamp = known.stamp /\ f.searches = e.searches
    BY <2>5 DEF Fields
  <2> HIDE DEF f
  <2>9. /\ editor'[p] = f
        /\ \A q \in Editors : q # p => editor'[q] = editor[q]
    BY <2>1, Recorded
  <2>10. HistoryTypes'
    <3>1. Remembers(f)
      BY <2>5, <2>7, <2>8 DEF Remembers
    <3> QED
      BY <1>1, <2>9, <3>1 DEF Histories, HistoryTypes
  <2>11. ~disturbed' => \A q \in Editors : editor[q].pc \notin Logging
    BY <1>3 DEF Overlaps, At, Logging
  <2>12. OneLogs'
    BY <2>9, <2>11 DEF OneLogs
  <2>13. UnwrittenIsEmpty'
    BY <1>1 DEF Histories, UnwrittenIsEmpty
  <2>14. PositionsKept'
    <3>1. ~disturbed' => ToSet(poslog.names) \subseteq ToSet(known.log)
      <4>1. CASE poslog.mtime = 0
        <5>1. poslog.names = <<>>
          BY <4>1 DEF Histories, UnwrittenIsEmpty
        <5> QED
          BY <5>1 DEF ToSet
      <4>2. CASE poslog.mtime = e.stamp
        BY <1>3, <2>5, <4>2 DEF Overlaps, e
      <4>3. CASE poslog.mtime \notin {0, e.stamp}
        BY <2>5, <4>3
      <4> QED
        BY <4>1, <4>2, <4>3
    <3>2. ~disturbed' => ToSet(poslog'.names) \subseteq ToSet(editor'[p].log)
      BY <1>1, <2>6, <2>7, <2>8, <2>9, <3>1
    <3>3. ASSUME NEW q \in Editors, q # p, ~disturbed'
          PROVE  editor'[q].pc # "open log"
      BY <2>9, <2>11, <3>3 DEF Logging
    <3> QED
      BY <3>2, <3>3 DEF PositionsKept, At
  <2>15. SearchesDistinct'
    <3>1. \A q \in Editors : editor'[q].searches = editor[q].searches
      BY <2>8, <2>9 DEF e
    <3> QED
      BY <1>1, <3>1 DEF Histories, SearchesDistinct
  <2> QED
    BY <2>10, <2>12, <2>13, <2>14, <2>15 DEF Histories
<1>4. \/ editor' = [editor EXCEPT ![p] = WithoutFirst(@)]
      \/ /\ n # NoName
         /\ editor' = [editor EXCEPT ![p] = UpdatePosHistory([@ EXCEPT !.pc = "open log"], n)]
         /\ disturbed' = (disturbed \/ Overlaps(p) \/ \E q \in Editors : At(q, "open log"))
  BY Zenon DEF Close
<1> QED
  BY <1>2, <1>3, <1>4

(* The history is emptied, and written by one editor while no other waits  *)
(* to write it.                                                            *)
LEMMA OpenLogRemembers ==
  ASSUME Inv, Histories, NEW p \in Editors, OpenLog(p)
  PROVE  Histories'
<1>1. /\ editor[p].pc = "open log" /\ UNCHANGED <<searchlog, now, disturbed>>
      /\ poslog' = [names |-> <<>>, mtime |-> now] /\ now \in Nat
      /\ editor' = [editor EXCEPT ![p].pc = "write log"]
  BY DEF OpenLog, At, Goto, stored, Inv, TypeOK, WorldOK
<1>2. /\ \A q \in Editors : /\ editor'[q].log = editor[q].log
                            /\ editor'[q].stamp = editor[q].stamp
                            /\ editor'[q].searches = editor[q].searches
      /\ editor'[p].pc = "write log" /\ \A q \in Editors : q # p => editor'[q] = editor[q]
  BY <1>1, Recorded
<1>3. HistoryTypes'
  <2>1. <<>> \in Seq(Names)
    OBVIOUS
  <2> QED
    BY <1>1, <1>2, <2>1 DEF Histories, HistoryTypes, Remembers
<1>4. OneLogs'
  BY <1>1, <1>2 DEF Histories, OneLogs, Logging
<1>5. UnwrittenIsEmpty'
  BY <1>1 DEF UnwrittenIsEmpty
<1>6. PositionsKept'
  <2>1. poslog'.names = <<>>
    BY <1>1
  <2>2. \A S : ToSet(poslog'.names) \subseteq S
    BY <2>1 DEF ToSet
  <2> QED
    BY <2>2 DEF PositionsKept
<1>7. SearchesDistinct'
  <2>1. \A q \in Editors : editor'[q].searches = editor[q].searches
    BY <1>2
  <2> QED
    BY <1>1, <2>1 DEF Histories, SearchesDistinct
<1> QED
  BY <1>3, <1>4, <1>5, <1>6, <1>7 DEF Histories

LEMMA WriteLogRemembers ==
  ASSUME Inv, Histories, NEW p \in Editors, WriteLog(p)
  PROVE  Histories'
<1> DEFINE e == editor[p]
           g == [e EXCEPT !.stamp = now]
           f == WithoutFirst(g)
           names == Overlaid(poslog.names, e.log)
<1>1. /\ e.pc = "write log" /\ UNCHANGED <<searchlog, now, disturbed>>
      /\ poslog' = [names |-> names, mtime |-> now] /\ now \in Nat
      /\ editor' = [editor EXCEPT ![p] = f]
  BY DEF WriteLog, At, stored, Inv, TypeOK, WorldOK
<1>2. names \in Seq(Names)
  BY KnownSearches, OverlaidSeq DEF Remembers
<1>3. DOMAIN g = Fields /\ g.log = e.log /\ g.stamp = now /\ g.searches = e.searches
  BY Recorded DEF Fields
<1> HIDE DEF g, names
<1>4. f.pc \notin Logging /\ f.log = e.log /\ f.stamp = now /\ f.searches = e.searches
  BY <1>3 DEF WithoutFirst, Fields, Logging
<1> HIDE DEF f
<1>5. /\ editor'[p] = f
      /\ \A q \in Editors : q # p => editor'[q] = editor[q]
  BY <1>1, Recorded
<1>6. HistoryTypes'
  <2>1. Remembers(f)
    BY <1>1, <1>4, KnownSearches DEF Remembers
  <2> QED
    BY <1>1, <1>2, <1>5, <2>1 DEF Histories, HistoryTypes
<1>7. OneLogs'
  BY <1>1, <1>4, <1>5 DEF Histories, OneLogs
<1>8. UnwrittenIsEmpty'
  BY <1>1 DEF Histories, HistoryTypes, UnwrittenIsEmpty
<1>9. PositionsKept'
  <2>1. ASSUME NEW q \in Editors, editor'[q].pc = "open log", ~disturbed'
        PROVE  FALSE
    <3>1. q # p /\ editor[q].pc = "open log"
      BY <1>4, <1>5, <2>1 DEF Logging
    <3> QED
      BY <1>1, <2>1, <3>1 DEF Histories, OneLogs, Logging
  <2> QED
    BY <2>1 DEF PositionsKept, At
<1>10. SearchesDistinct'
  <2>1. \A q \in Editors : editor'[q].searches = editor[q].searches
    BY <1>4, <1>5
  <2> QED
    BY <1>1, <2>1 DEF Histories, SearchesDistinct
<1> QED
  BY <1>6, <1>7, <1>8, <1>9, <1>10 DEF Histories

LEMMA FinishRemembers ==
  ASSUME Inv, Histories, NEW p \in Editors, Finish(p)
  PROVE  Histories'
<1>1. /\ UNCHANGED <<poslog, now, disturbed>>
      /\ searchlog' = searchlog \/ searchlog' = editor[p].searches
  BY DEF Finish, world
<1>2. \A q \in Editors : Quiet(editor'[q], editor[q])
  BY EditingQuiet
<1>3. HistoryTypes'
  BY <1>1, <1>2 DEF Histories, HistoryTypes, Remembers, Quiet
<1>4. OneLogs'
  BY <1>1, <1>2 DEF Histories, OneLogs, Quiet
<1>5. UnwrittenIsEmpty'
  BY <1>1 DEF Histories, UnwrittenIsEmpty
<1>6. PositionsKept'
  <2>1. \A q \in Editors : editor'[q].pc = "open log" =>
          editor[q].pc = "open log" /\ editor'[q].log = editor[q].log
    BY <1>2 DEF Quiet, Logging
  <2> QED
    BY <1>1, <2>1 DEF Histories, PositionsKept, At
<1>7. SearchesDistinct'
  <2>1. \A q \in Editors : IsInjective(editor'[q].searches) /\ Len(editor'[q].searches) <= MaxHistory
    BY <1>2, KnownSearches DEF Quiet
  <2>2. IsInjective(searchlog') /\ Len(searchlog') <= MaxHistory
    BY <1>1, KnownSearches
  <2> QED
    BY <2>1, <2>2 DEF SearchesDistinct
<1> QED
  BY <1>3, <1>4, <1>5, <1>6, <1>7 DEF Histories

LEMMA InitHistories ==
  Init => Histories
<1> SUFFICES ASSUME Init
             PROVE  Histories
  OBVIOUS
<1>1. \A p \in Editors : /\ editor[p].pc = "off" /\ editor[p].log = <<>>
                         /\ editor[p].stamp = 0 /\ editor[p].searches = <<>>
  BY DEF Init
<1>2. poslog = [names |-> <<>>, mtime |-> 0] /\ searchlog = <<>> /\ now = 1
  BY DEF Init
<1>3. \A S : <<>> \in Seq(S)
  OBVIOUS
<1>4. IsInjective(<<>>) /\ Len(<<>>) <= MaxHistory
  <2>1. DOMAIN <<>> = {} /\ Len(<<>>) = 0
    OBVIOUS
  <2>2. 0 <= MaxHistory
    BY DistinctConstants
  <2> QED
    BY <2>1, <2>2 DEF IsInjective
<1>5. HistoryTypes
  <2>1. \A p \in Editors : Remembers(editor[p])
    <3>1. <<>> \in Seq(Names) /\ <<>> \in Seq(Strings) /\ 0 \in Nat
      BY <1>3
    <3> QED
      BY <1>1, <3>1 DEF Remembers
  <2>2. poslog \in [names : Seq(Names), mtime : Nat] /\ searchlog \in Seq(Strings) /\ now # 0
    BY <1>2, <1>3
  <2> QED
    BY <2>1, <2>2 DEF HistoryTypes
<1>6. OneLogs /\ UnwrittenIsEmpty /\ PositionsKept
  BY <1>1, <1>2 DEF OneLogs, Logging, UnwrittenIsEmpty, PositionsKept, At
<1>7. SearchesDistinct
  BY <1>1, <1>2, <1>4 DEF SearchesDistinct
<1> QED
  BY <1>5, <1>6, <1>7 DEF Histories

LEMMA StepHistories ==
  Inv /\ Histories /\ [Next]_vars => Histories'
<1> SUFFICES ASSUME Inv, Histories, [Next]_vars
             PROVE  Histories'
  OBVIOUS
<1>1. now \in Nat /\ now # 0
  BY DEF Inv, TypeOK, WorldOK, Histories, HistoryTypes
<1>2. ASSUME NEW p \in Editors, SaveStep(p), UNCHANGED disturbed
      PROVE  Histories'
  <2>1. UNCHANGED <<poslog, searchlog, now>>
    BY <1>2 DEF SaveStep, Prompt, Check, AnswerOverwrite, AnswerContinue, StatTarget, CreateBackup,
                CopyToBackup, FailToBackup, CopyToTemp, OpenFile, WriteText, SyncFile, FinishSave,
                stored, world
  <2> QED
    BY <1>1, <1>2, <2>1, SaveQuiet, QuietKeeps
<1>3. ASSUME NEW p \in Editors,
             \/ OpenNext(p) \/ MakeLock(p) \/ Read(p) \/ StatFile(p) \/ Ready(p) \/ OpenAnother(p)
             \/ Type(p) \/ Switch(p) \/ DoWriteout(p) \/ DoSavefile(p) \/ DoExit(p)
      PROVE  Histories'
  <2>1. UNCHANGED <<poslog, searchlog, now, disturbed>>
    BY <1>3 DEF OpenNext, MakeLock, Read, StatFile, Ready, OpenAnother, Type, Switch, DoWriteout,
                DoSavefile, DoExit, stored, world
  <2>2. \A q \in Editors : Quiet(editor'[q], editor[q])
    BY <1>3, EditingQuiet
  <2> QED
    BY <1>1, <2>1, <2>2, QuietKeeps
<1>4. ASSUME NEW p \in Editors, Editing(p)
      PROVE  Histories'
  BY <1>2, <1>3, <1>4, StartRemembers, RestorePositionRemembers, SearchRemembers, CloseRemembers,
     OpenLogRemembers, WriteLogRemembers, FinishRemembers DEF Editing
<1>5. ASSUME NEW p \in Editors, Ending(p)
      PROVE  Histories'
  <2>1. UNCHANGED <<poslog, searchlog, now>> /\ (disturbed => disturbed')
    <3>1. CASE Hangup(p)
      <4>1. UNCHANGED <<stored, world>> /\ disturbed' = (disturbed \/ editor[p].pc = "write log")
        BY <3>1 DEF Hangup
      <4> QED
        BY <4>1 DEF stored, world
    <3>2. CASE Kill(p)
      BY <3>2 DEF Kill, stored, world
    <3>3. CASE DieOn(p)
      BY <3>3 DEF DieOn, stored
    <3>4. CASE Rescue(p)
      <4>1. UNCHANGED <<searchlog, world, disturbed>>
        BY <3>4 DEF Rescue
      <4> QED
        BY <4>1 DEF world
    <3>5. CASE Dead(p) \/ GiveUp(p)
      <4>1. UNCHANGED <<stored, world, disturbed>>
        BY <3>5 DEF Dead, GiveUp
      <4> QED
        BY <4>1 DEF stored, world
    <3> QED
      BY <1>5, <3>1, <3>2, <3>3, <3>4, <3>5 DEF Ending
  <2> QED
    BY <1>1, <1>5, <2>1, EndingQuiet, QuietKeeps
<1>6. CASE PowerLoss
  <2>1. UNCHANGED <<poslog, searchlog, now>> /\ disturbed'
    BY <1>6 DEF PowerLoss, world
  <2>2. \A q \in Editors : Quiet(editor'[q], editor[q])
    BY <1>6, EndingQuiet DEF PowerLoss
  <2> QED
    BY <1>1, <2>1, <2>2, QuietKeeps
<1>7. CASE Tick \/ (\E n \in Names : ForeignWrite(n)) \/ UNCHANGED vars
  <2>1. UNCHANGED <<poslog, searchlog, editor, disturbed>> /\ now' # 0
    BY <1>1, <1>7 DEF Tick, ForeignWrite, vars, stored, world
  <2>2. \A q \in Editors : Quiet(editor'[q], editor[q])
    BY <2>1 DEF Quiet
  <2> QED
    BY <2>1, <2>2, QuietKeeps
<1> QED
  BY <1>4, <1>5, <1>6, <1>7 DEF Next

(* The two histories that editors share, whatever ends them in between.    *)
(* Unless two updates overlap, the one of positions still names all the    *)
(* files it named before a closing editor writes it; no string is twice in *)
(* one of searches, or in what is left to the next editor, and there are   *)
(* no more than the limit (update_poshistory(), update_history()).         *)
THEOREM NanoFilesHistoriesKept ==
  Spec => []HistoriesKept
<1>1. Init => Inv /\ Histories
  BY InitInv, InitHistories
<1>2. Inv /\ Histories /\ [Next]_vars => Inv' /\ Histories'
  BY StepInv, StepHistories
<1>3. Histories => HistoriesKept
  BY DEF Histories, HistoriesKept
<1> QED
  BY <1>1, <1>2, <1>3, PTL DEF Spec
-----------------------------------------------------------------------------
(* What editors noticed of the files.  The stat information of a buffer is *)
(* of a state the file was in; while the file is still in that state by    *)
(* time and inode, it has the text that the buffer came from, unless this  *)
(* was false from the start or the file had just been written then.  And   *)
(* what a save saw of the file at the check is not later than what the     *)
(* buffer knows of it.                                                     *)

Over == {"off", "gone", "quit", "dead", "cut", "killed", "dying", "rescue"}

Older(s, r) == s.of = r.of /\ s.mtime <= r.mtime /\ s.id <= r.id

Dated(files, t, k) == \A n \in Names : files[n].mtime <= t /\ files[n].id <= k

Noticed(b, files, t) ==
  /\ b.stat # NoStat => b.stat.of \in Names
  /\ b.stat.of \in Names =>
       /\ Older(b.stat, StatIn(files, b.stat.of))
       /\ ~b.hasty => b.stat.mtime < t
       /\ b.stat.of = b.name /\ b.stat = StatIn(files, b.name) =>
            files[b.name].text = b.origin \/ b.late \/ b.hasty

(* From the check to the opening of the file for writing, when the user    *)
(* was not asked and the file was there.                                   *)
Checking == {"stat", "backup", "copy", "prepend", "open file"}

Unasked(e) ==
  /\ e.pc \in Checking /\ e.save.method = "OVERWRITE" /\ ~e.save.asked
  /\ e.save.name = e.ring[1].name /\ e.save.seen.stat.id # 0

Checked(e, files) ==
  Unasked(e) =>
    /\ Older(e.save.seen.stat, StatIn(files, e.save.name))
    /\ \/ e.pc = "stat" /\ e.ring[1].stat = NoStat
       \/ Older(e.save.seen.stat, e.ring[1].stat)

AllNoticed(r, files, t) == \A i \in DOMAIN r : Noticed(r[i], files, t)

Noticing(e, files, t) ==
  /\ e.pc = "off" => e.ring = <<>>
  /\ e.pc \in {"lock", "read"} => e.ring[1].stat = NoStat
  /\ e.pc \notin Over => AllNoticed(e.ring, files, t) /\ Checked(e, files)

Dates ==
  /\ Dated(file, now, spent.pieces)
  /\ \A p \in Editors : Noticing(editor[p], file, now)

-----------------------------------------------------------------------------
(* Files only get newer.                                                   *)
Ages(files, later, t) ==
  \A n \in Names :
    /\ files[n].id <= later[n].id
    /\ \/ /\ later[n].text = files[n].text /\ later[n].mtime = files[n].mtime
          /\ later[n].id = files[n].id
       \/ later[n].mtime = t

LEMMA StatGrows ==
  ASSUME NEW files \in [Names -> File], NEW later \in [Names -> File], NEW t \in Nat, NEW k \in Nat,
         Dated(files, t, k), Ages(files, later, t), NEW n \in Names
  PROVE  Older(StatIn(files, n), StatIn(later, n))
<1>1. files[n] \in File /\ later[n] \in File
  OBVIOUS
<1> QED
  BY <1>1 DEF File, Older, StatIn, Dated, Ages

LEMMA OlderOlder ==
  ASSUME NEW r \in Stamps, NEW s \in Stamps, NEW t \in Stamps, Older(r, s), Older(s, t)
  PROVE  Older(r, t)
BY DEF Older, Stamps

LEMMA StatTyped ==
  ASSUME NEW files \in [Names -> File], NEW n \in Names
  PROVE  StatIn(files, n) \in Stamps
BY DEF StatIn, File, Stamps, NameOrNot

(* A buffer's stat information stays good while files get newer, since     *)
(* what is written from now on has a later time stamp.                     *)
LEMMA NoticedKept ==
  ASSUME NEW files \in [Names -> File], NEW later \in [Names -> File], NEW t \in Nat, NEW k \in Nat,
         NEW u \in Nat, t <= u, Dated(files, t, k), Ages(files, later, t),
         NEW b \in Buffer, Noticed(b, files, t)
  PROVE  Noticed(b, later, u)
<1>1. b.stat # NoStat => b.stat.of \in Names
  BY DEF Noticed
<1>2. SUFFICES ASSUME b.stat.of \in Names
               PROVE  /\ Older(b.stat, StatIn(later, b.stat.of))
                      /\ ~b.hasty => b.stat.mtime < u
                      /\ b.stat.of = b.name /\ b.stat = StatIn(later, b.name) =>
                           later[b.name].text = b.origin \/ b.late \/ b.hasty
  BY <1>1 DEF Noticed
<1> DEFINE n == b.stat.of
<1>3. /\ Older(b.stat, StatIn(files, n)) /\ (~b.hasty => b.stat.mtime < t)
      /\ b.stat.of = b.name /\ b.stat = StatIn(files, b.name) =>
           files[b.name].text = b.origin \/ b.late \/ b.hasty
  BY <1>2 DEF Noticed
<1>4. b.stat \in Stamps /\ b.stat.mtime \in Nat
  BY DEF Buffer, Stamps
<1>5. Older(b.stat, StatIn(later, n))
  BY <1>2, <1>3, <1>4, StatGrows, OlderOlder, StatTyped
<1>6. ~b.hasty => b.stat.mtime < u
  BY <1>3, <1>4
<1>7. ASSUME b.stat.of = b.name, b.stat = StatIn(later, b.name), ~b.hasty
      PROVE  later[b.name].text = b.origin \/ b.late
  <2>1. later[n].mtime = b.stat.mtime /\ later[n].id = b.stat.id
    BY <1>7 DEF StatIn
  <2>2. later[n].mtime # t
    BY <1>3, <1>4, <1>7, <2>1
  <2>3. /\ later[n].text = files[n].text /\ later[n].mtime = files[n].mtime
        /\ later[n].id = files[n].id
    BY <1>2, <2>2 DEF Ages
  <2>4. b.stat = StatIn(files, b.name)
    BY <1>7, <2>3 DEF StatIn
  <2> QED
    BY <1>3, <1>7, <2>3, <2>4
<1> QED
  BY <1>5, <1>6, <1>7

(* What was seen at the check stays older than the file.                   *)
LEMMA CheckedKept ==
  ASSUME NEW files \in [Names -> File], NEW later \in [Names -> File], NEW t \in Nat, NEW k \in Nat,
         Dated(files, t, k), Ages(files, later, t),
         NEW e, IsEditor(e), Standing(e), Checked(e, files)
  PROVE  Checked(e, later)
<1> SUFFICES ASSUME Unasked(e)
             PROVE  Older(e.save.seen.stat, StatIn(later, e.save.name))
  BY DEF Checked
<1>1. e.save.name \in Names
  BY DEF Unasked, Checking, Standing, Early, Late
<1>2. Older(e.save.seen.stat, StatIn(files, e.save.name))
  BY DEF Checked
<1>3. e.save.seen.stat \in Stamps
  BY DEF IsEditor, SaveRecord
<1> QED
  BY <1>1, <1>2, <1>3, StatGrows, OlderOlder, StatTyped

(* A buffer that is new, or as far as this goes one that was there.        *)
Alike(b, c) ==
  /\ b.name = c.name /\ b.stat = c.stat /\ b.origin = c.origin
  /\ b.late = c.late /\ b.hasty = c.hasty

Drawn(b, r) == b.stat = NoStat \/ \E i \in DOMAIN r : Alike(b, r[i])

LEMMA BlankNoticed ==
  ASSUME NEW b, b.stat = NoStat, NEW files, NEW t
  PROVE  Noticed(b, files, t)
<1>1. b.stat.of = NoName /\ NoName \notin Names
  BY DistinctConstants DEF NoStat
<1> QED
  BY <1>1 DEF Noticed

LEMMA AlikeNoticed ==
  ASSUME NEW b, NEW c, Alike(b, c), NEW files, NEW t, Noticed(c, files, t)
  PROVE  Noticed(b, files, t)
BY DEF Alike, Noticed

(* New stat information is good.                                           *)
LEMMA RestattedNoticed ==
  ASSUME Inv, NEW b \in Buffer, NEW n \in Names, NEW files \in [Names -> File], NEW k,
         Dated(files, now, k)
  PROVE  Noticed(Restatted(b, files, n), files, now)
<1> DEFINE c == Restatted(b, files, n)
<1>1. /\ c.name = b.name /\ c.origin = b.origin /\ c.stat = StatIn(files, n)
      /\ c.late = (files[n].text # b.origin) /\ c.hasty = (files[n].mtime = now)
  BY RestattedIs DEF Similar
<1>2. files[n].mtime \in Nat /\ files[n].id \in Nat /\ files[n].mtime <= now /\ now \in Nat
  BY DEF File, Dated, Inv, TypeOK, WorldOK
<1> HIDE DEF c
<1>3. c.stat.of = n /\ c.stat.mtime = files[n].mtime /\ c.stat.id = files[n].id
  BY <1>1 DEF StatIn
<1>4. Older(c.stat, StatIn(files, c.stat.of))
  BY <1>1, <1>2, <1>3 DEF Older
<1>5. ~c.hasty => c.stat.mtime < now
  <2>1. ~c.hasty => files[n].mtime # now
    BY <1>1, Zenon
  <2> QED
    BY <1>2, <1>3, <2>1
<1>6. c.stat.of = c.name => files[c.name].text = c.origin \/ c.late
  BY <1>1, <1>3
<1> QED
  BY <1>3, <1>4, <1>5, <1>6 DEF Noticed, c
-----------------------------------------------------------------------------
(* What a step of one editor has to show.                                  *)

(* The files only get newer, the clock stays, and only p changes.          *)
OnlyOf(p) ==
  /\ \A q \in Editors \ {p} : editor'[q] = editor[q]
  /\ UNCHANGED now /\ Ages(file, file', now) /\ Dated(file', now, spent'.pieces)

LEMMA Numbers ==
  ASSUME Inv
  PROVE  /\ now \in Nat /\ spent.pieces \in Nat /\ file \in [Names -> File]
         /\ \A p \in Editors : editor[p].ring \in Seq(Buffer)
BY DEF Inv, TypeOK, WorldOK, IsEditor

(* The files stay as they are.                                             *)
LEMMA SameFiles ==
  ASSUME Inv, Inv', Dates, NEW p \in Editors, \A q \in Editors \ {p} : editor'[q] = editor[q],
         UNCHANGED <<now, file>>, spent.pieces <= spent'.pieces
  PROVE  OnlyOf(p)
<1>1. spent.pieces \in Nat /\ spent'.pieces \in Nat /\ \A n \in Names : file[n].id \in Nat
  BY DEF Inv, TypeOK, WorldOK, File
<1>2. Dated(file, now, spent.pieces)
  BY DEF Dates
<1>3. Dated(file', now, spent'.pieces)
  BY <1>1, <1>2 DEF Dated
<1>4. Ages(file, file', now)
  BY <1>1 DEF Ages
<1> QED
  BY <1>3, <1>4 DEF OnlyOf

(* One file is written, without a change of its inode.                     *)
LEMMA OneFile ==
  ASSUME Inv, Inv', Dates, NEW p \in Editors, \A q \in Editors \ {p} : editor'[q] = editor[q],
         UNCHANGED now, spent.pieces <= spent'.pieces,
         \A n \in Names : /\ file'[n].id = file[n].id
                          /\ \/ file'[n].text = file[n].text /\ file'[n].mtime = file[n].mtime
                             \/ file'[n].mtime = now
  PROVE  OnlyOf(p)
<1>1. /\ spent.pieces \in Nat /\ spent'.pieces \in Nat /\ now \in Nat
      /\ \A n \in Names : file[n].id \in Nat /\ file[n].mtime \in Nat
  BY DEF Inv, TypeOK, WorldOK, File
<1>2. Dated(file, now, spent.pieces)
  BY DEF Dates
<1>3. Dated(file', now, spent'.pieces)
  BY <1>1, <1>2 DEF Dated
<1>4. Ages(file, file', now)
  BY <1>1 DEF Ages
<1> QED
  BY <1>3, <1>4 DEF OnlyOf

(* The other editors are not concerned.                                    *)
LEMMA OneNotices ==
  ASSUME Inv, Inv', Dates, NEW p \in Editors, OnlyOf(p), Noticing(editor'[p], file', now)
  PROVE  Dates'
<1>1. /\ file \in [Names -> File] /\ file' \in [Names -> File] /\ now \in Nat
      /\ spent.pieces \in Nat /\ now' = now /\ Dated(file, now, spent.pieces)
      /\ Ages(file, file', now)
  BY Numbers DEF Dates, OnlyOf, Inv, TypeOK, WorldOK
<1>2. ASSUME NEW q \in Editors, q # p
      PROVE  Noticing(editor'[q], file', now)
  <2> DEFINE e == editor[q]
  <2>1. editor'[q] = e
    BY <1>2 DEF OnlyOf
  <2>2. IsEditor(e) /\ Standing(e) /\ Noticing(e, file, now) /\ e.ring \in Seq(Buffer)
    BY Numbers DEF Inv, TypeOK, Dates
  <2> HIDE DEF e
  <2>3. ASSUME e.pc \notin Over
        PROVE  AllNoticed(e.ring, file', now) /\ Checked(e, file')
    <3>1. AllNoticed(e.ring, file, now) /\ Checked(e, file)
      BY <2>2, <2>3 DEF Noticing
    <3>2. \A i \in DOMAIN e.ring : e.ring[i] \in Buffer
      BY <2>2
    <3>3. now <= now
      BY <1>1
    <3>4. AllNoticed(e.ring, file', now)
      BY <1>1, <3>1, <3>2, <3>3, NoticedKept DEF AllNoticed
    <3>5. Checked(e, file')
      BY <1>1, <2>2, <3>1, CheckedKept
    <3> QED
      BY <3>4, <3>5
  <2> QED
    BY <2>1, <2>2, <2>3 DEF Noticing
<1>3. Dated(file', now', spent'.pieces)
  BY <1>1 DEF OnlyOf
<1>4. \A q \in Editors : Noticing(editor'[q], file', now')
  BY <1>1, <1>2
<1> QED
  BY <1>3, <1>4 DEF Dates

(* An editor that is not at work on its buffers any more has nothing to    *)
(* notice.                                                                 *)
LEMMA OverNotices ==
  ASSUME Inv, Inv', Dates, NEW p \in Editors, OnlyOf(p), editor'[p].pc \in Over \ {"off"}
  PROVE  Dates'
<1>1. Noticing(editor'[p], file', now)
  BY DEF Noticing, Over
<1> QED
  BY <1>1, OneNotices

(* What buffers are drawn from the ring stays noticed.                     *)
LEMMA DrawnNoticed ==
  ASSUME Inv, Inv', Dates, NEW p \in Editors, OnlyOf(p), editor[p].pc \notin Over,
         NEW b, Drawn(b, editor[p].ring)
  PROVE  Noticed(b, file', now)
<1> DEFINE r == editor[p].ring
<1>1. CASE b.stat = NoStat
  BY <1>1, BlankNoticed
<1>2. CASE \E i \in DOMAIN r : Alike(b, r[i])
  <2>1. PICK i \in DOMAIN r : Alike(b, r[i])
    BY <1>2
  <2>2. Noticed(r[i], file, now) /\ r[i] \in Buffer
    BY Numbers DEF Dates, Noticing, AllNoticed
  <2>3. /\ file \in [Names -> File] /\ file' \in [Names -> File] /\ now \in Nat
        /\ spent.pieces \in Nat /\ Dated(file, now, spent.pieces) /\ now <= now
        /\ Ages(file, file', now)
    BY Numbers DEF Dates, OnlyOf, Inv, TypeOK, WorldOK
  <2>4. Noticed(r[i], file', now)
    BY <2>2, <2>3, NoticedKept
  <2> QED
    BY <2>1, <2>4, AlikeNoticed
<1> QED
  BY <1>1, <1>2 DEF Drawn

(* A step between places that are not on the way of a save to the file.    *)
LEMMA PlainNotices ==
  ASSUME Inv, Inv', Dates, NEW p \in Editors, OnlyOf(p), editor[p].pc \notin Over,
         editor'[p].pc \notin Checking \cup {"off", "lock", "read"},
         \A i \in DOMAIN editor'[p].ring : Drawn(editor'[p].ring[i], editor[p].ring)
  PROVE  Dates'
<1>1. AllNoticed(editor'[p].ring, file', now)
  BY DrawnNoticed DEF AllNoticed
<1>2. Checked(editor'[p], file')
  BY DEF Checked, Unasked
<1> QED
  BY <1>1, <1>2, OneNotices DEF Noticing

(* The ring stays as it is.                                                *)
LEMMA SameRingDrawn ==
  ASSUME NEW r
  PROVE  \A i \in DOMAIN r : Drawn(r[i], r)
BY DEF Drawn, Alike

(* A step on this way, with the same of the save that matters.             *)
SameSave(s, t) ==
  s.method = t.method /\ s.asked = t.asked /\ s.name = t.name /\ s.seen = t.seen

LEMMA OnwardNotices ==
  ASSUME Inv, Inv', Dates, NEW p \in Editors, OnlyOf(p),
         editor[p].pc \in Checking \ {"stat"}, editor'[p].pc \in Checking \ {"stat"},
         SameSave(editor'[p].save, editor[p].save), editor'[p].ring = editor[p].ring
  PROVE  Dates'
<1> DEFINE e == editor[p]
           f == editor'[p]
<1>1. e.pc \notin Over /\ f.pc \notin Over \cup {"off", "lock", "read"}
  BY DEF Checking, Over
<1>2. AllNoticed(f.ring, file', now)
  BY <1>1, DrawnNoticed, SameRingDrawn DEF AllNoticed
<1>3. IsEditor(e) /\ Standing(e) /\ Checked(e, file)
  BY <1>1 DEF Inv, TypeOK, Dates, Noticing
<1>4. Checked(e, file')
  <2>1. /\ file \in [Names -> File] /\ file' \in [Names -> File] /\ now \in Nat
        /\ spent.pieces \in Nat /\ Dated(file, now, spent.pieces) /\ Ages(file, file', now)
    BY Numbers DEF Dates, OnlyOf, Inv, TypeOK, WorldOK
  <2> HIDE DEF e
  <2> QED
    BY <1>3, <2>1, CheckedKept
<1>5. Checked(f, file')
  BY <1>4 DEF Checked, Unasked, SameSave
<1> QED
  BY <1>1, <1>2, <1>5, OneNotices DEF Noticing
(* Another buffer in the place of the current one.                         *)
LEMMA CurDrawn ==
  ASSUME Inv, Inv', Dates, NEW p \in Editors, OnlyOf(p), editor[p].pc \notin Over,
         editor[p].ring # <<>>, NEW c \in Buffer,
         editor'[p].ring = <<c>> \o Tail(editor[p].ring),
         Drawn(c, editor[p].ring) \/ Noticed(c, file', now)
  PROVE  AllNoticed(editor'[p].ring, file', now) /\ editor'[p].ring[1] = c
<1> DEFINE r == editor[p].ring
           t == editor'[p].ring
<1>1. r \in Seq(Buffer) /\ Len(r) \in Nat \ {0} /\ DOMAIN r = 1 .. Len(r)
  BY Numbers, Ends
<1>2. DOMAIN t = DOMAIN r /\ t[1] = c /\ \A i \in 2 .. Len(r) : t[i] = r[i]
  BY <1>1, FirstReplaced
<1>3. ASSUME NEW i \in DOMAIN t
      PROVE  Noticed(t[i], file', now)
  <2>1. CASE i = 1
    BY <1>2, <2>1, DrawnNoticed
  <2>2. CASE i # 1
    <3>1. i \in DOMAIN r /\ t[i] = r[i]
      BY <1>1, <1>2, <2>2
    <3>2. Drawn(r[i], r)
      BY <3>1, SameRingDrawn
    <3> QED
      BY <3>1, <3>2, DrawnNoticed
  <2> QED
    BY <2>1, <2>2
<1> QED
  BY <1>2, <1>3 DEF AllNoticed

LEMMA CurNotices ==
  ASSUME Inv, Inv', Dates, NEW p \in Editors, OnlyOf(p), editor[p].pc \notin Over,
         editor[p].ring # <<>>, NEW c \in Buffer,
         editor'[p].ring = <<c>> \o Tail(editor[p].ring),
         Drawn(c, editor[p].ring) \/ Noticed(c, file', now),
         editor'[p].pc \notin Checking \cup {"off", "lock", "read"}
  PROVE  Dates'
<1>1. AllNoticed(editor'[p].ring, file', now)
  BY CurDrawn
<1>2. Checked(editor'[p], file')
  BY DEF Checked, Unasked
<1> QED
  BY <1>1, <1>2, OneNotices DEF Noticing

LEMMA GotoShows ==
  ASSUME Inv, NEW p \in Editors, NEW pc, Goto(p, pc)
  PROVE  /\ editor'[p].pc = pc /\ editor'[p].ring = editor[p].ring
         /\ editor'[p].save = editor[p].save
         /\ \A q \in Editors \ {p} : editor'[q] = editor[q]
BY Recorded DEF Goto

LEMMA GotoNotices ==
  ASSUME Inv, Inv', Dates, NEW p \in Editors, OnlyOf(p), editor[p].pc \notin Over,
         NEW pc, Goto(p, pc), pc \notin Checking \cup {"off", "lock", "read"}
  PROVE  Dates'
<1>1. editor'[p].pc = pc /\ editor'[p].ring = editor[p].ring
  BY GotoShows
<1> QED
  BY <1>1, SameRingDrawn, PlainNotices

(* Dropping the buffer.                                                    *)
LEMMA DroppedShows ==
  ASSUME Inv, NEW p \in Editors, Dropped(p)
  PROVE  /\ editor'[p].pc = "closing"
         /\ editor'[p].ring = [editor[p].ring EXCEPT ![1].told = TRUE]
         /\ \A q \in Editors \ {p} : editor'[q] = editor[q]
BY Recorded DEF Dropped

(* A buffer in which something else is changed.                            *)
LEMMA FirstAlike ==
  ASSUME NEW r, NEW c, r # <<>>, r \in Seq(Buffer), Alike(c, r[1])
  PROVE  \A i \in DOMAIN [r EXCEPT ![1] = c] : Drawn([r EXCEPT ![1] = c][i], r)
<1>1. 1 \in DOMAIN r
  BY Ends
<1>2. \A i \in DOMAIN r : Alike(r[i], r[i])
  BY DEF Alike
<1> QED
  BY <1>1, <1>2 DEF Drawn

LEMMA DroppedNotices ==
  ASSUME Inv, Inv', Dates, NEW p \in Editors, editor[p].pc \notin Over \cup Bufferless,
         UNCHANGED <<now, file>>, spent.pieces <= spent'.pieces, Dropped(p)
  PROVE  Dates'
<1> DEFINE r == editor[p].ring
           c == [r[1] EXCEPT !.told = TRUE]
<1>1. /\ editor'[p].pc = "closing" /\ editor'[p].ring = [r EXCEPT ![1] = c]
      /\ \A q \in Editors \ {p} : editor'[q] = editor[q]
  BY DroppedShows
<1>2. r # <<>> /\ r \in Seq(Buffer) /\ r[1] \in Buffer
  BY Facts
<1>3. Alike(c, r[1])
  BY <1>2 DEF Alike, Buffer
<1>4. \A i \in DOMAIN editor'[p].ring : Drawn(editor'[p].ring[i], r)
  <2> HIDE DEF c, r
  <2> QED
    BY <1>1, <1>2, <1>3, FirstAlike
<1>5. OnlyOf(p)
  BY <1>1, SameFiles
<1> QED
  BY <1>1, <1>4, <1>5, PlainNotices DEF Checking

(* A failed save.                                                          *)
LEMMA FailedNotices ==
  ASSUME Inv, Inv', Dates, NEW p \in Editors, editor[p].pc \in (Early \cup Late) \ {"prompt"},
         UNCHANGED now, spent.pieces <= spent'.pieces, NEW full \in BOOLEAN,
         Failed(p, full, file'), OnlyOf(p)
  PROVE  Dates'
<1> DEFINE e == editor[p]
           c == IF full THEN Restatted(Cur(p), file', Target(p)) ELSE Cur(p)
<1>1. /\ Target(p) \in Names /\ Cur(p) \in Buffer /\ Cur(p) = e.ring[1] /\ e.ring # <<>>
      /\ e.pc \notin Over
  BY SavingFacts DEF Early, Late, Over
<1>2. /\ editor'[p].pc = "idle" /\ editor'[p].ring = <<c>> \o Tail(e.ring)
  BY Recorded DEF Failed, AfterFailing, WithCur
<1>3. file' \in [Names -> File] /\ Dated(file', now, spent'.pieces)
  BY Numbers DEF OnlyOf, Inv, TypeOK, WorldOK
<1>4. c \in Buffer
  BY <1>1, <1>3, RestattedIs
<1>5. Drawn(c, e.ring) \/ Noticed(c, file', now)
  <2>1. CASE full
    BY <1>1, <1>3, <2>1, RestattedNoticed
  <2>2. CASE ~full
    <3>1. 1 \in DOMAIN e.ring
      BY <1>1, Numbers, Ends
    <3> QED
      BY <1>1, <2>2, <3>1, SameRingDrawn
  <2> QED
    BY <2>1, <2>2
<1> HIDE DEF c
<1> QED
  BY <1>1, <1>2, <1>4, <1>5, CurNotices DEF Checking
-----------------------------------------------------------------------------
(* The steps of a save.                                                    *)

(* Steps that leave the files, the clock and the pieces alone.             *)
LEMMA QuietSave ==
  ASSUME Inv, UNCHANGED <<world, spent>>
  PROVE  now' = now /\ spent.pieces <= spent'.pieces
BY Numbers DEF world

LEMMA PromptNotices ==
  ASSUME Inv, Inv', Dates, NEW p \in Editors, Prompt(p)
  PROVE  Dates'
<1> DEFINE e == editor[p]
<1>1. /\ e.pc = "prompt" /\ UNCHANGED file /\ now' = now /\ spent.pieces <= spent'.pieces
      /\ e.pc \notin Over \cup Bufferless
  BY QuietSave DEF Prompt, At, Over, Bufferless
<1>2. ASSUME NEW n, NEW method,
             editor' = [editor EXCEPT ![p].save.name = n, ![p].save.method = method,
                          ![p].pc = IF method = "OVERWRITE" THEN "check" ELSE "stat"]
      PROVE  Dates'
  <2>1. /\ editor'[p].ring = e.ring
        /\ editor'[p].pc = IF method = "OVERWRITE" THEN "check" ELSE "stat"
        /\ \A q \in Editors \ {p} : editor'[q] = editor[q]
    BY <1>2, Recorded
  <2>2. editor'[p].save.method = method
    <3>1. e.save \in SaveRecord /\ IsEditor(e)
      BY <1>1, SavingFacts DEF Early
    <3> QED
      BY <1>2, <3>1, Recorded DEF SaveRecord
  <2>3. OnlyOf(p)
    BY <1>1, <2>1, SameFiles
  <2>4. Checked(editor'[p], file')
    BY <2>1, <2>2 DEF Checked, Unasked, Checking
  <2>5. AllNoticed(editor'[p].ring, file', now)
    BY <1>1, <2>1, <2>3, DrawnNoticed, SameRingDrawn DEF AllNoticed
  <2>6. editor'[p].pc \notin Over \cup {"lock", "read"}
    BY <2>1 DEF Over
  <2> QED
    BY <2>3, <2>4, <2>5, <2>6, OneNotices DEF Noticing, Over
<1>3. CASE Goto(p, "idle")
  BY <1>1, <1>3, GotoShows, SameFiles, GotoNotices DEF Checking
<1>4. CASE Dropped(p)
  BY <1>1, <1>4, DroppedNotices
<1> QED
  BY <1>2, <1>3, <1>4 DEF Prompt

(* The check: what is seen then is not later than what the buffer knows,   *)
(* or the user is asked.                                                   *)
LEMMA CheckNotices ==
  ASSUME Inv, Inv', Dates, NEW p \in Editors, Check(p)
  PROVE  Dates'
<1> DEFINE e == editor[p]
           s == Save(p)
           n == s.name
           b == e.ring[1]
<1>1. /\ e.pc = "check" /\ UNCHANGED file /\ now' = now /\ spent.pieces <= spent'.pieces
      /\ e.pc \notin Over \cup Bufferless
  BY QuietSave DEF Check, At, Over, Bufferless
<1>2. /\ e.save \in SaveRecord /\ n \in Names /\ b \in Buffer /\ Cur(p) = b /\ Save(p) = e.save
      /\ Target(p) = n /\ WorldOK
  BY <1>1, SavingFacts DEF Early, Target, Save
<1>3. CASE Goto(p, "prompt")
  BY <1>1, <1>3, GotoShows, SameFiles, GotoNotices DEF Checking
<1>4. ASSUME NEW pc \in {"overwrite?", "stat", "continue?"},
             editor' = [editor EXCEPT ![p].pc = pc, ![p].save.asked = FALSE,
                                      ![p].save.seen = Seen(n)],
             pc = "stat" => ~Exists(n) \/ ~Changed(p) \/ b.name # n
      PROVE  Dates'
  <2>1. /\ editor'[p].ring = e.ring /\ editor'[p].pc = pc
        /\ \A q \in Editors \ {p} : editor'[q] = editor[q]
    BY <1>4, Recorded
  <2>2. editor'[p].save.seen = Seen(n) /\ editor'[p].save.name = n
    <3> DEFINE seen == Seen(n)
    <3> HIDE DEF seen
    <3>1. editor' = [editor EXCEPT ![p].pc = pc, ![p].save.asked = FALSE, ![p].save.seen = seen]
      BY <1>4 DEF seen
    <3>2. editor'[p].save = [e.save EXCEPT !.asked = FALSE, !.seen = seen]
      BY <3>1, Recorded
    <3> QED
      BY <1>2, <3>2 DEF SaveRecord, seen
  <2>3. OnlyOf(p)
    BY <1>1, <2>1, SameFiles
  <2>4. Checked(editor'[p], file')
    <3> DEFINE f == editor'[p]
               st == StatIn(file, n)
    <3>0. /\ f.save.seen.stat = st /\ f.save.name = n /\ f.ring[1] = b /\ f.pc = pc
          /\ st.id = file[n].id
      BY <2>1, <2>2 DEF Seen, StatIn
    <3> HIDE DEF f, b, st
    <3> SUFFICES ASSUME Unasked(f)
                 PROVE  Older(st, st) /\ (b.stat = NoStat \/ Older(st, b.stat))
      BY <1>1, <1>4, <3>0 DEF Checked, Unasked, Checking, f, st
    <3>1. pc = "stat" /\ b.name = n /\ Exists(n)
      BY <1>4, <3>0 DEF Unasked, Checking, Exists
    <3>2. ~Changed(p) /\ ~Other(p)
      BY <1>2, <1>4, <3>1, DistinctConstants DEF Other, b
    <3>3. b.stat = NoStat \/ ~Differs(b.stat, n)
      BY <1>2, <3>1, <3>2 DEF Changed, b
    <3>4. file[n].mtime \in Nat /\ file[n].id \in Nat /\ b.stat \in Stamps
      BY <1>2 DEF WorldOK, File, Buffer, b
    <3>5. ASSUME ~Differs(b.stat, n)
          PROVE  Older(st, b.stat)
      <4>1. b.stat.of = n /\ b.stat.id = file[n].id /\ ~(b.stat.mtime < file[n].mtime)
        BY <3>5 DEF Differs
      <4> QED
        BY <3>4, <4>1 DEF Older, StatIn, Stamps, st
    <3>6. Older(st, st)
      BY <3>4 DEF Older, StatIn, st
    <3> QED
      BY <3>3, <3>5, <3>6
  <2>5. AllNoticed(editor'[p].ring, file', now)
    BY <1>1, <2>1, <2>3, DrawnNoticed, SameRingDrawn DEF AllNoticed
  <2>6. editor'[p].pc \notin Over \cup {"lock", "read"}
    BY <2>1 DEF Over
  <2> QED
    BY <2>3, <2>4, <2>5, <2>6, OneNotices DEF Noticing, Over
<1>5. Other(p) => ~Exists(n) \/ b.name # n
  BY <1>2, DistinctConstants DEF Other
<1> DEFINE Onto(pc) == editor' = [editor EXCEPT ![p].pc = pc, ![p].save.asked = FALSE,
                                                ![p].save.seen = Seen(n)]
<1>6. \/ Goto(p, "prompt")
      \/ Other(p) /\ Onto(IF Exists(n) THEN "overwrite?" ELSE "stat")
      \/ Changed(p) /\ Onto("continue?")
      \/ ~Other(p) /\ ~Changed(p) /\ Onto("stat")
  BY DEF Check
<1>7. ASSUME NEW pc \in {"overwrite?", "stat", "continue?"}, Onto(pc),
             pc = "stat" => ~Exists(n) \/ ~Changed(p) \/ b.name # n
      PROVE  Dates'
  BY <1>4, <1>7
<1>8. CASE Other(p) /\ Onto(IF Exists(n) THEN "overwrite?" ELSE "stat")
  <2> HIDE DEF Onto, b, n
  <2>1. CASE Exists(n)
    BY <1>7, <1>8, <2>1
  <2>2. CASE ~Exists(n)
    BY <1>7, <1>8, <2>2
  <2> QED
    BY <2>1, <2>2
<1> HIDE DEF Onto, b, n
<1> QED
  BY <1>3, <1>6, <1>7, <1>8

LEMMA AskedNotices ==
  ASSUME Inv, Inv', Dates, NEW p \in Editors, editor[p].pc \in {"overwrite?", "continue?"},
         UNCHANGED file, now' = now, spent.pieces <= spent'.pieces,
         editor'[p].ring = editor[p].ring, editor'[p].pc = "stat", editor'[p].save.asked,
         \A q \in Editors \ {p} : editor'[q] = editor[q]
  PROVE  Dates'
<1>1. OnlyOf(p)
  BY SameFiles
<1>2. Checked(editor'[p], file')
  BY DEF Checked, Unasked
<1>3. AllNoticed(editor'[p].ring, file', now)
  BY <1>1, DrawnNoticed, SameRingDrawn DEF AllNoticed, Over
<1> QED
  BY <1>1, <1>2, <1>3, OneNotices DEF Noticing, Over

LEMMA AnswerOverwriteNotices ==
  ASSUME Inv, Inv', Dates, NEW p \in Editors, AnswerOverwrite(p)
  PROVE  Dates'
<1> DEFINE e == editor[p]
<1>1. /\ e.pc = "overwrite?" /\ UNCHANGED file /\ now' = now /\ spent.pieces <= spent'.pieces
      /\ e.pc \notin Over
  BY QuietSave DEF AnswerOverwrite, At, Over
<1>2. e.save \in SaveRecord
  BY <1>1, SavingFacts DEF Early
<1>3. CASE editor' = [editor EXCEPT ![p].pc = "stat", ![p].save.asked = TRUE]
  <2>1. /\ editor'[p].ring = e.ring /\ editor'[p].pc = "stat"
        /\ editor'[p].save = [e.save EXCEPT !.asked = TRUE]
        /\ \A q \in Editors \ {p} : editor'[q] = editor[q]
    BY <1>3, Recorded
  <2>2. editor'[p].save.asked
    BY <1>2, <2>1 DEF SaveRecord
  <2> QED
    BY <1>1, <2>1, <2>2, AskedNotices
<1>4. CASE Goto(p, "prompt")
  BY <1>1, <1>4, GotoShows, SameFiles, GotoNotices DEF Checking
<1> QED
  BY <1>3, <1>4 DEF AnswerOverwrite

LEMMA AnswerContinueNotices ==
  ASSUME Inv, Inv', Dates, NEW p \in Editors, AnswerContinue(p)
  PROVE  Dates'
<1> DEFINE e == editor[p]
<1>1. /\ e.pc = "continue?" /\ UNCHANGED file /\ now' = now /\ spent.pieces <= spent'.pieces
      /\ e.pc \notin Over \cup Bufferless
  BY QuietSave DEF AnswerContinue, At, Over, Bufferless
<1>2. e.save \in SaveRecord
  BY <1>1, SavingFacts DEF Early
<1>3. ASSUME NEW annotate,
             editor' = [editor EXCEPT ![p].pc = "stat", ![p].save.asked = TRUE,
                                      ![p].save.annotate = annotate]
      PROVE  Dates'
  <2>1. /\ editor'[p].ring = e.ring /\ editor'[p].pc = "stat"
        /\ editor'[p].save = [e.save EXCEPT !.asked = TRUE, !.annotate = annotate]
        /\ \A q \in Editors \ {p} : editor'[q] = editor[q]
    BY <1>3, Recorded
  <2>2. editor'[p].save.asked
    BY <1>2, <2>1 DEF SaveRecord
  <2> QED
    BY <1>1, <2>1, <2>2, AskedNotices
<1>4. ASSUME NEW pc \in {"prompt", "idle"}, Goto(p, pc)
      PROVE  Dates'
  BY <1>1, <1>4, GotoShows, SameFiles, GotoNotices DEF Checking
<1>5. CASE Dropped(p)
  BY <1>1, <1>5, DroppedNotices
<1> QED
  BY <1>3, <1>4, <1>5 DEF AnswerContinue

(* What is not known of the file yet is known now.                         *)
LEMMA StatTargetNotices ==
  ASSUME Inv, Inv', Dates, NEW p \in Editors, StatTarget(p)
  PROVE  Dates'
<1> DEFINE e == editor[p]
           n == Target(p)
           b == Cur(p)
           c == IF b.stat = NoStat /\ Exists(n) THEN Restatted(b, file, n) ELSE b
           backs == /\ Option("MAKE_BACKUP") /\ Exists(n)
                    /\ c.stat.mtime = file[n].mtime \/ Save(p).method # "OVERWRITE" \/ Save(p).mark
           pc == IF backs THEN "backup" ELSE Onward(p)
<1>1. /\ e.pc = "stat" /\ UNCHANGED file /\ now' = now /\ spent.pieces <= spent'.pieces
      /\ e.pc \notin Over
  BY QuietSave DEF StatTarget, At, Over
<1>2. /\ e.save \in SaveRecord /\ n \in Names /\ b \in Buffer /\ b = e.ring[1] /\ Save(p) = e.save
      /\ e.save.name = n /\ file \in [Names -> File] /\ e.ring # <<>>
  BY <1>1, SavingFacts, Numbers DEF Early, Target, Save
<1>3. /\ pc \in Checking \ {"stat"}
      /\ editor' = [editor EXCEPT ![p] = WithCur([editor[p] EXCEPT !.pc = pc], c)]
  <2>1. pc \in Checking \ {"stat"}
    BY OnwardIs DEF Checking
  <2>2. editor' = [editor EXCEPT ![p] = WithCur([editor[p] EXCEPT !.pc = pc], c)]
    BY DEF StatTarget
  <2> QED
    BY <2>1, <2>2
<1> HIDE DEF pc
<1>4. /\ editor'[p].ring = <<c>> \o Tail(e.ring) /\ editor'[p].pc = pc
      /\ editor'[p].save = e.save /\ \A q \in Editors \ {p} : editor'[q] = editor[q]
  BY <1>3, Recorded DEF WithCur
<1>5. OnlyOf(p)
  BY <1>1, <1>4, SameFiles
<1>6. Dated(file, now, spent.pieces) /\ Noticing(e, file, now)
  BY DEF Dates
<1>7. /\ c \in Buffer /\ c.name = b.name
      /\ b.stat = NoStat /\ Exists(n) => c.stat = StatIn(file, n) /\ Noticed(c, file, now)
      /\ b.stat # NoStat \/ ~Exists(n) => c = b
  BY <1>2, <1>6, RestattedIs, RestattedNoticed DEF Similar
<1> HIDE DEF c
<1>8. Drawn(c, e.ring) \/ Noticed(c, file', now)
  <2>1. CASE b.stat = NoStat /\ Exists(n)
    BY <1>1, <1>7, <2>1
  <2>2. CASE b.stat # NoStat \/ ~Exists(n)
    <3>1. 1 \in DOMAIN e.ring /\ c = e.ring[1]
      BY <1>2, <1>7, <2>2, Numbers, Ends
    <3> QED
      BY <3>1, SameRingDrawn
  <2> QED
    BY <2>1, <2>2
<1>9. AllNoticed(editor'[p].ring, file', now) /\ editor'[p].ring[1] = c
  BY <1>1, <1>2, <1>4, <1>5, <1>7, <1>8, CurDrawn
<1>10. Checked(editor'[p], file')
  <2> SUFFICES ASSUME Unasked(editor'[p])
               PROVE  /\ Older(e.save.seen.stat, StatIn(file, n))
                      /\ Older(e.save.seen.stat, c.stat)
    BY <1>1, <1>2, <1>4, <1>9 DEF Checked
  <2>1. Checked(e, file)
    BY <1>1, <1>6 DEF Noticing
  <2>2. Unasked(e)
    BY <1>1, <1>2, <1>4, <1>7, <1>9 DEF Unasked, Checking
  <2>3. /\ Older(e.save.seen.stat, StatIn(file, n)) /\ e.save.seen.stat.id # 0
        /\ b.stat = NoStat \/ Older(e.save.seen.stat, b.stat)
    BY <1>2, <2>1, <2>2 DEF Checked, Unasked
  <2>4. Exists(n)
    <3>1. e.save.seen.stat.id \in Nat /\ file[n].id \in Nat
      BY <1>2 DEF SaveRecord, Stamps, File
    <3>2. e.save.seen.stat.id <= file[n].id
      BY <2>3 DEF Older, StatIn
    <3> QED
      BY <2>3, <3>1, <3>2 DEF Exists
  <2>5. b.stat = NoStat => c.stat = StatIn(file, n)
    BY <1>7, <2>4
  <2>6. b.stat # NoStat => c.stat = b.stat
    BY <1>7
  <2>7. Older(e.save.seen.stat, c.stat)
    BY <2>3, <2>5, <2>6
  <2> QED
    BY <2>3, <2>7
<1>11. editor'[p].pc \notin Over \cup {"lock", "read"}
  BY <1>3, <1>4 DEF Over, Checking
<1> QED
  BY <1>5, <1>9, <1>10, <1>11, OneNotices DEF Noticing, Over
LEMMA CreateBackupNotices ==
  ASSUME Inv, Inv', Dates, NEW p \in Editors, CreateBackup(p)
  PROVE  Dates'
<1>1. /\ editor[p].pc = "backup" /\ UNCHANGED file /\ now' = now /\ spent.pieces <= spent'.pieces
      /\ Goto(p, "copy")
  BY QuietSave DEF CreateBackup, At
<1>2. OnlyOf(p)
  BY <1>1, GotoShows, SameFiles
<1>3. /\ editor'[p].pc = "copy" /\ editor'[p].ring = editor[p].ring
      /\ editor'[p].save = editor[p].save
  BY <1>1, GotoShows
<1>4. SameSave(editor'[p].save, editor[p].save)
  BY <1>3 DEF SameSave
<1>5. editor[p].pc \in Checking \ {"stat"} /\ editor'[p].pc \in Checking \ {"stat"}
  BY <1>1, <1>3 DEF Checking
<1> QED
  BY <1>2, <1>3, <1>4, <1>5, OnwardNotices

(* The copy is made, or not; the file is not touched.                      *)
LEMMA GoingOnwardNotices ==
  ASSUME Inv, Inv', Dates, NEW p \in Editors, editor[p].pc = "copy",
         UNCHANGED file, now' = now, spent.pieces <= spent'.pieces, Goto(p, Onward(p))
  PROVE  Dates'
<1>1. OnlyOf(p)
  BY GotoShows, SameFiles
<1>2. Onward(p) \in Checking \ {"stat"}
  BY OnwardIs DEF Checking
<1>3. /\ editor'[p].pc = Onward(p) /\ editor'[p].ring = editor[p].ring
      /\ editor'[p].save = editor[p].save
  BY GotoShows
<1>4. SameSave(editor'[p].save, editor[p].save)
  BY <1>3 DEF SameSave
<1>5. editor[p].pc \in Checking \ {"stat"} /\ editor'[p].pc \in Checking \ {"stat"}
  BY <1>2, <1>3 DEF Checking
<1> QED
  BY <1>1, <1>3, <1>4, <1>5, OnwardNotices

LEMMA CopyToBackupNotices ==
  ASSUME Inv, Inv', Dates, NEW p \in Editors, CopyToBackup(p)
  PROVE  Dates'
<1> DEFINE e == editor[p]
           pc == Onward(p)
           old == file[Target(p)].text
           mine == backup[Target(p)].by = p
<1>1. /\ e.pc = "copy" /\ UNCHANGED file /\ now' = now /\ spent.pieces <= spent'.pieces
      /\ editor' = [editor EXCEPT ![p].pc = pc, ![p].save.backed = mine, ![p].save.old = old]
  BY QuietSave DEF CopyToBackup, At
<1>2. pc \in Checking \ {"stat"} /\ e.save \in SaveRecord
  BY <1>1, OnwardIs, SavingFacts DEF Checking, Early
<1> HIDE DEF pc, mine, old
<1>3. /\ editor'[p].pc = pc /\ editor'[p].ring = e.ring
      /\ editor'[p].save = [e.save EXCEPT !.backed = mine, !.old = old]
      /\ \A q \in Editors \ {p} : editor'[q] = editor[q]
  BY <1>1, Recorded
<1>4. SameSave(editor'[p].save, e.save)
  BY <1>2, <1>3 DEF SaveRecord, SameSave
<1>5. OnlyOf(p)
  BY <1>1, <1>3, SameFiles
<1> QED
  BY <1>1, <1>2, <1>3, <1>4, <1>5, OnwardNotices DEF Checking

LEMMA FailedShows ==
  ASSUME Inv, NEW p \in Editors, NEW full, NEW files, Failed(p, full, files)
  PROVE  \A q \in Editors \ {p} : editor'[q] = editor[q]
BY Recorded DEF Failed

LEMMA FailToBackupNotices ==
  ASSUME Inv, Inv', Dates, NEW p \in Editors, FailToBackup(p)
  PROVE  Dates'
<1>1. /\ editor[p].pc = "copy" /\ UNCHANGED file /\ now' = now /\ spent.pieces <= spent'.pieces
  BY QuietSave DEF FailToBackup, At
<1>2. ASSUME NEW full \in BOOLEAN, Failed(p, full, file)
      PROVE  Dates'
  <2>1. Failed(p, full, file')
    BY <1>1, <1>2
  <2>2. OnlyOf(p)
    BY <1>1, <1>2, FailedShows, SameFiles
  <2> QED
    BY <1>1, <2>1, <2>2, FailedNotices DEF Early
<1> QED
  BY <1>1, <1>2, GoingOnwardNotices DEF FailToBackup

LEMMA CopyToTempNotices ==
  ASSUME Inv, Inv', Dates, NEW p \in Editors, CopyToTemp(p)
  PROVE  Dates'
<1> DEFINE e == editor[p]
           old == file[Target(p)].text
<1>1. /\ e.pc = "prepend" /\ UNCHANGED file /\ now' = now /\ spent.pieces <= spent'.pieces
  BY QuietSave DEF CopyToTemp, At
<1>2. ASSUME NEW full \in BOOLEAN, Failed(p, full, file)
      PROVE  Dates'
  <2>1. Failed(p, full, file')
    BY <1>1, <1>2
  <2>2. OnlyOf(p)
    BY <1>1, <1>2, FailedShows, SameFiles
  <2> QED
    BY <1>1, <2>1, <2>2, FailedNotices DEF Late
<1>3. CASE editor' = [editor EXCEPT ![p].save.temp = old, ![p].pc = "open file"]
  <2> HIDE DEF old
  <2>1. /\ editor'[p].pc = "open file" /\ editor'[p].ring = e.ring
        /\ editor'[p].save = [e.save EXCEPT !.temp = old]
        /\ \A q \in Editors \ {p} : editor'[q] = editor[q]
    BY <1>3, Recorded
  <2>2. e.save \in SaveRecord
    BY <1>1, SavingFacts DEF Late
  <2>3. SameSave(editor'[p].save, e.save)
    BY <2>1, <2>2 DEF SaveRecord, SameSave
  <2>4. OnlyOf(p)
    BY <1>1, <2>1, SameFiles
  <2> QED
    BY <1>1, <2>1, <2>3, <2>4, OnwardNotices DEF Checking
<1> QED
  BY <1>2, <1>3 DEF CopyToTemp

(* Opening the file for writing makes it newer, or creates it.             *)
LEMMA OpenFileNotices ==
  ASSUME Inv, Inv', Dates, NEW p \in Editors, OpenFile(p)
  PROVE  Dates'
<1> DEFINE e == editor[p]
           n == Target(p)
           appending == Save(p).method = "APPEND"
           opened == [text |-> IF appending THEN file[n].text ELSE <<>>, synced |-> file[n].synced,
                      mtime |-> IF appending /\ Exists(n) THEN file[n].mtime ELSE now,
                      id |-> IF Exists(n) THEN file[n].id ELSE spent.pieces]
<1>1. /\ e.pc = "open file" /\ now' = now /\ spent.pieces <= spent'.pieces /\ UNCHANGED spent
  BY QuietSave DEF OpenFile, At
<1>2. n \in Names /\ file \in [Names -> File] /\ now \in Nat /\ spent.pieces \in Nat
  BY <1>1, SavingFacts, Numbers DEF Late
<1>3. CASE UNCHANGED file /\ Failed(p, FALSE, file)
  <2>1. OnlyOf(p) /\ Failed(p, FALSE, file')
    BY <1>1, <1>3, FailedShows, SameFiles
  <2> QED
    BY <1>1, <2>1, FailedNotices DEF Late
<1>4. CASE file' = [file EXCEPT ![n] = opened] /\ Goto(p, "write")
  <2>1. /\ file'[n] = opened /\ \A m \in Names \ {n} : file'[m] = file[m]
    BY <1>2, <1>4
  <2>2. \A m \in Names : file[m].id \in Nat /\ file[m].mtime \in Nat
    BY <1>2 DEF File
  <2>3. /\ file'[n].id = IF Exists(n) THEN file[n].id ELSE spent.pieces
        /\ file'[n].mtime = IF appending /\ Exists(n) THEN file[n].mtime ELSE now
        /\ appending => file'[n].text = file[n].text
    BY <2>1
  <2> HIDE DEF opened, appending
  <2>4. Dated(file, now, spent.pieces)
    BY DEF Dates
  <2>5. Ages(file, file', now)
    <3> SUFFICES ASSUME NEW m \in Names
                 PROVE  /\ file[m].id <= file'[m].id
                        /\ \/ /\ file'[m].text = file[m].text /\ file'[m].mtime = file[m].mtime
                              /\ file'[m].id = file[m].id
                           \/ file'[m].mtime = now
      BY DEF Ages
    <3>1. CASE m # n
      BY <2>1, <2>2, <3>1
    <3>2. CASE m = n
      BY <1>2, <2>2, <2>3, <3>2 DEF Exists
    <3> QED
      BY <3>1, <3>2
  <2>6. Dated(file', now, spent'.pieces)
    <3> SUFFICES ASSUME NEW m \in Names
                 PROVE  file'[m].mtime <= now /\ file'[m].id <= spent.pieces
      BY <1>1 DEF Dated
    <3>1. file[m].mtime <= now /\ file[m].id <= spent.pieces
      BY <2>4 DEF Dated
    <3> QED
      BY <1>2, <2>1, <2>3, <3>1
  <2>7. OnlyOf(p)
    BY <1>1, <1>4, <2>5, <2>6, GotoShows DEF OnlyOf
  <2> QED
    BY <1>1, <1>4, <2>7, GotoNotices DEF Checking, Over
<1> HIDE DEF opened
<1> QED
  BY <1>3, <1>4 DEF OpenFile, opened
(* Data written to the file give it the time of now.                       *)
LEMMA WrittenAges ==
  ASSUME Inv, NEW p \in Editors, Target(p) \in Names, NEW data
  PROVE  LET later == Written(p, data)
         IN  \A n \in Names : /\ later[n].id = file[n].id
                              /\ \/ later[n].text = file[n].text /\ later[n].mtime = file[n].mtime
                                 \/ later[n].mtime = now
<1> DEFINE m == Target(p)
           t == IF Save(p).method = "APPEND" THEN file[m].text \o data
                ELSE Overlaid(file[m].text, data)
           later == [file EXCEPT ![m].text = t, ![m].mtime = now]
<1>1. Written(p, data) = later
  BY DEF Written
<1>2. file \in [Names -> File] /\ file[m] \in File
  BY Numbers
<1> HIDE DEF t, m
<1>3. later[m].id = file[m].id /\ later[m].mtime = now /\ \A n \in Names \ {m} : later[n] = file[n]
  BY <1>2 DEF File, m
<1> HIDE DEF later
<1> QED
  BY <1>1, <1>3 DEF m

LEMMA WriteTextNotices ==
  ASSUME Inv, Inv', Dates, NEW p \in Editors, WriteText(p)
  PROVE  Dates'
<1>1. /\ editor[p].pc = "write" /\ now' = now /\ spent.pieces <= spent'.pieces
  BY QuietSave DEF WriteText, At
<1>2. Target(p) \in Names
  BY <1>1, SavingFacts DEF Late
<1>3. ASSUME NEW data, file' = Written(p, data), \A q \in Editors \ {p} : editor'[q] = editor[q]
      PROVE  OnlyOf(p)
  BY <1>1, <1>2, <1>3, WrittenAges, OneFile
<1> DEFINE data == Content(p) \o Save(p).temp
<1>4. CASE file' = Written(p, data) /\ Goto(p, "sync")
  <2> HIDE DEF data
  <2>1. OnlyOf(p)
    BY <1>3, <1>4, GotoShows
  <2> QED
    BY <1>1, <1>4, <2>1, GotoNotices DEF Checking, Over
<1>5. CASE file' = Written(p, Torn) /\ Failed(p, TRUE, Written(p, Torn))
  <2>1. OnlyOf(p) /\ Failed(p, TRUE, file')
    BY <1>3, <1>5, FailedShows
  <2> QED
    BY <1>1, <2>1, FailedNotices DEF Late
<1> QED
  BY <1>4, <1>5 DEF WriteText

LEMMA SyncFileNotices ==
  ASSUME Inv, Inv', Dates, NEW p \in Editors, SyncFile(p)
  PROVE  Dates'
<1> DEFINE m == Target(p)
           t == file[m].text
<1>1. /\ editor[p].pc = "sync" /\ now' = now /\ spent.pieces <= spent'.pieces /\ Goto(p, "note")
      /\ file' = [file EXCEPT ![m].synced = t]
  BY QuietSave DEF SyncFile, At
<1>2. file \in [Names -> File]
  BY Numbers
<1> HIDE DEF m, t
<1>3. \A n \in Names : /\ file'[n].text = file[n].text /\ file'[n].mtime = file[n].mtime
                       /\ file'[n].id = file[n].id
  BY <1>1, <1>2 DEF File
<1>4. OnlyOf(p)
  BY <1>1, <1>3, GotoShows, OneFile
<1> QED
  BY <1>1, <1>4, GotoNotices DEF Checking, Over

(* What was stored is noted.                                               *)
LEMMA NotedNoticed ==
  ASSUME Inv, Dates, NEW p \in Editors, editor[p].pc = "note", ~Region(Save(p)),
         NEW l \in NameOrNot
  PROVE  Noted(p, l) \in Buffer /\ Noticed(Noted(p, l), file, now)
<1>1. /\ Target(p) \in Names /\ Cur(p) \in Buffer /\ file \in [Names -> File]
      /\ Content(p) = Cur(p).text
  BY SavingFacts, Numbers DEF Late, Content
<1> DEFINE n == Target(p)
           t == Content(p)
           b == [Cur(p) EXCEPT !.name = n, !.lock = l, !.mod = FALSE, !.base = t, !.origin = t]
<1>2. Noted(p, l) = Restatted(b, file, n)
  BY DEF Noted
<1>3. b \in Buffer
  <2> HIDE DEF n, t
  <2>1. n \in Names /\ t \in Text
    BY <1>1 DEF n, t, Buffer
  <2> QED
    BY <1>1, <2>1 DEF Buffer, NameOrNot
<1>4. Dated(file, now, spent.pieces)
  BY DEF Dates
<1> HIDE DEF b
<1> QED
  BY <1>1, <1>2, <1>3, <1>4, RestattedNoticed, NotedIs

LEMMA FinishSaveNotices ==
  ASSUME Inv, Inv', Dates, NEW p \in Editors, FinishSave(p)
  PROVE  Dates'
<1> DEFINE e == editor[p]
           s == Save(p)
           b == Cur(p)
           noting == s.annotate /\ ~Region(s) /\ s.method = "OVERWRITE"
           pc == IF s.exiting THEN "closing" ELSE "idle"
           Done2(c) == editor' = [editor EXCEPT ![p] =
                         WithCur([editor[p] EXCEPT !.pc = pc, !.save.backed = FALSE], c)]
           plain == [b EXCEPT !.base = IF Region(s) THEN @ ELSE b.text]
<1>1. /\ e.pc = "note" /\ UNCHANGED file /\ now' = now /\ spent.pieces <= spent'.pieces
      /\ pc \in {"closing", "idle"}
  BY Numbers DEF FinishSave, At
<1>2. /\ Cur(p) = e.ring[1] /\ Cur(p) \in Buffer /\ e.ring # <<>> /\ e.save \in SaveRecord
      /\ Target(p) \in Names /\ Save(p) = e.save
  BY <1>1, SavingFacts DEF Late, Save
<1>3. plain \in Buffer /\ Alike(plain, b)
  BY <1>2 DEF Buffer, Alike
<1>4. 1 \in DOMAIN e.ring
  BY <1>2, Numbers, Ends
<1>5. ASSUME NEW c \in Buffer, Done2(c), Drawn(c, e.ring) \/ Noticed(c, file, now)
      PROVE  Dates'
  <2> HIDE DEF pc
  <2>1. /\ editor'[p].ring = <<c>> \o Tail(e.ring) /\ editor'[p].pc = pc
        /\ \A q \in Editors \ {p} : editor'[q] = editor[q]
    BY <1>5, Recorded DEF WithCur
  <2>2. OnlyOf(p)
    BY <1>1, <2>1, SameFiles
  <2> QED
    BY <1>1, <1>2, <1>5, <2>1, <2>2, CurNotices DEF Checking, Over
<1>6. CASE Done2(plain)
  <2>1. Drawn(plain, e.ring)
    BY <1>2, <1>3, <1>4 DEF Drawn
  <2> HIDE DEF plain, Done2
  <2> QED
    BY <1>3, <1>5, <1>6, <2>1
<1>7. ASSUME NEW l \in NameOrNot, Done2(Noted(p, l)), noting
      PROVE  Dates'
  <2>1. Noted(p, l) \in Buffer /\ Noticed(Noted(p, l), file, now)
    BY <1>1, <1>7, NotedNoticed
  <2> HIDE DEF Done2
  <2> QED
    BY <1>5, <1>7, <2>1
<1>8. b.lock \in NameOrNot /\ s.name \in NameOrNot /\ NoName \in NameOrNot
  BY <1>2 DEF Buffer, SaveRecord, NameOrNot
<1>9. \/ Done2(plain)
      \/ noting /\ \E l \in {b.lock, NoName, s.name} : Done2(Noted(p, l))
  BY DEF FinishSave
<1> HIDE DEF plain, Done2, noting, b, s
<1> QED
  BY <1>6, <1>7, <1>8, <1>9

LEMMA SaveNotices ==
  ASSUME Inv, Inv', Dates, NEW p \in Editors, SaveStep(p)
  PROVE  Dates'
BY PromptNotices, CheckNotices, AnswerOverwriteNotices, AnswerContinueNotices, StatTargetNotices,
   CreateBackupNotices, CopyToBackupNotices, FailToBackupNotices, CopyToTempNotices,
   OpenFileNotices, WriteTextNotices, SyncFileNotices, FinishSaveNotices DEF SaveStep
-----------------------------------------------------------------------------
(* At the keyboard, and when files are opened and closed.                  *)

LEMMA SameBuffersDrawn ==
  ASSUME NEW t, NEW r, SameBuffers(t, r)
  PROVE  \A i \in DOMAIN t : Drawn(t[i], r)
<1>1. NewBuffer.stat = NoStat
  BY DEF NewBuffer
<1> QED
  BY <1>1 DEF SameBuffers, Drawn, Alike

(* Without a change of the files or the ring.                              *)
LEMMA QuietNotices ==
  ASSUME Inv, Inv', Dates, NEW p \in Editors, editor[p].pc \notin Over,
         editor'[p].pc \notin Checking \cup {"off", "lock", "read"},
         \A i \in DOMAIN editor'[p].ring : Drawn(editor'[p].ring[i], editor[p].ring),
         \A q \in Editors \ {p} : editor'[q] = editor[q],
         UNCHANGED file, now' = now, spent.pieces <= spent'.pieces
  PROVE  Dates'
BY SameFiles, PlainNotices

LEMMA Pieces ==
  ASSUME Inv, UNCHANGED spent
  PROVE  spent.pieces <= spent'.pieces
BY Numbers

LEMMA StartNotices ==
  ASSUME Inv, Inv', Dates, NEW p \in Editors, Start(p)
  PROVE  Dates'
<1> DEFINE e == editor[p]
           g == [e EXCEPT !.pc = "open"]
<1>1. /\ e.pc = "off" /\ UNCHANGED <<file, now, spent>>
      /\ editor' = [editor EXCEPT ![p] = LoadHistory(LoadPosHistory(g))]
  BY DEF Start, At, world
<1>2. DOMAIN g = Fields /\ g.pc = "open" /\ g.ring = e.ring
  BY Recorded DEF Fields
<1>3. e.ring = <<>>
  BY <1>1 DEF Dates, Noticing
<1> HIDE DEF g
<1>4. LoadHistory(LoadPosHistory(g)).pc = "open" /\ LoadHistory(LoadPosHistory(g)).ring = e.ring
  BY <1>2 DEF LoadHistory, LoadPosHistory, Fields
<1>5. /\ editor'[p].pc = "open" /\ editor'[p].ring = <<>>
      /\ \A q \in Editors \ {p} : editor'[q] = editor[q]
  BY <1>1, <1>3, <1>4, Recorded
<1>6. OnlyOf(p)
  BY <1>1, <1>5, Pieces, SameFiles
<1>7. AllNoticed(editor'[p].ring, file', now) /\ Checked(editor'[p], file')
  BY <1>5 DEF AllNoticed, Checked, Unasked, Checking
<1> QED
  BY <1>5, <1>6, <1>7, OneNotices DEF Noticing

(* A file being opened has not been statted yet.                           *)
LEMMA OpeningNotices ==
  ASSUME Inv, Inv', Dates, NEW p \in Editors, editor[p].pc \notin Over,
         editor'[p].pc \in {"lock", "read"}, editor'[p].ring[1].stat = NoStat,
         \A i \in DOMAIN editor'[p].ring : Drawn(editor'[p].ring[i], editor[p].ring),
         \A q \in Editors \ {p} : editor'[q] = editor[q],
         UNCHANGED <<file, now, spent>>
  PROVE  Dates'
<1>1. OnlyOf(p)
  BY Pieces, SameFiles
<1>2. AllNoticed(editor'[p].ring, file', now)
  BY <1>1, DrawnNoticed DEF AllNoticed
<1>3. Checked(editor'[p], file')
  BY DEF Checked, Unasked, Checking
<1> QED
  BY <1>1, <1>2, <1>3, OneNotices DEF Noticing

LEMMA OpenNextNotices ==
  ASSUME Inv, Inv', Dates, NEW p \in Editors, OpenNext(p)
  PROVE  Dates'
<1> DEFINE e == editor[p]
           r == Fresh(e)
<1>1. e.pc = "open" /\ e.pc \notin Over /\ UNCHANGED <<file, now, spent>>
  BY DEF OpenNext, At, world, Over
<1>2. ASSUME NEW pc \in {"lock", "read"},
             editor' = [editor EXCEPT ![p].pc = pc, ![p].ring = r]
      PROVE  Dates'
  <2>1. e.ring \in Seq(Buffer)
    BY Numbers
  <2>2. r[1] = NewBuffer /\ SameBuffers(r, e.ring)
    <3> HIDE DEF e
    <3> QED
      BY <2>1, FreshRing
  <2>3. NewBuffer.stat = NoStat
    BY DEF NewBuffer
  <2> HIDE DEF r
  <2>4. /\ editor'[p].pc = pc /\ editor'[p].ring = r
        /\ \A q \in Editors \ {p} : editor'[q] = editor[q]
    BY <1>2, Recorded
  <2> QED
    BY <1>1, <2>2, <2>3, <2>4, SameBuffersDrawn, OpeningNotices
<1>3. CASE editor' = [editor EXCEPT ![p].args = Tail(@)]
  <2>1. /\ editor'[p].pc = "open" /\ editor'[p].ring = e.ring
        /\ \A q \in Editors \ {p} : editor'[q] = editor[q]
    BY <1>1, <1>3, Recorded
  <2> QED
    BY <1>1, <2>1, SameRingDrawn, Pieces, QuietNotices DEF Checking
<1>4. CASE Goto(p, "quit")
  <2>1. OnlyOf(p)
    BY <1>1, <1>4, GotoShows, Pieces, SameFiles
  <2> QED
    BY <1>4, <2>1, GotoShows, OverNotices DEF Over
<1> HIDE DEF r
<1> QED
  BY <1>2, <1>3, <1>4 DEF OpenNext, r

LEMMA MakeLockNotices ==
  ASSUME Inv, Inv', Dates, NEW p \in Editors, MakeLock(p)
  PROVE  Dates'
<1> DEFINE e == editor[p]
<1>1. /\ e.pc = "lock" /\ e.pc \notin Over \cup Bufferless /\ UNCHANGED <<file, now, spent>>
  BY DEF MakeLock, At, Over, Bufferless
<1>2. PICK k : editor' = [editor EXCEPT ![p].pc = "read", ![p].ring[1].lock = k]
  BY DEF MakeLock
<1>3. e.ring # <<>> /\ e.ring \in Seq(Buffer) /\ e.ring[1] \in Buffer /\ e.ring[1].stat = NoStat
  BY <1>1, Facts DEF Dates, Noticing
<1> DEFINE c == [e.ring[1] EXCEPT !.lock = k]
<1>4. /\ editor'[p].pc = "read" /\ editor'[p].ring = [e.ring EXCEPT ![1] = c]
      /\ \A q \in Editors \ {p} : editor'[q] = editor[q]
  BY <1>2, Recorded
<1>5. Alike(c, e.ring[1]) /\ c.stat = NoStat
  BY <1>3 DEF Alike, Buffer
<1>6. 1 \in DOMAIN e.ring
  BY <1>3, Ends
<1> HIDE DEF c, e
<1>7. editor'[p].ring[1] = c
  BY <1>4, <1>6
<1>8. \A i \in DOMAIN editor'[p].ring : Drawn(editor'[p].ring[i], e.ring)
  BY <1>3, <1>4, <1>5, FirstAlike
<1> QED
  BY <1>1, <1>4, <1>5, <1>7, <1>8, OpeningNotices DEF e

LEMMA ReadNotices ==
  ASSUME Inv, Inv', Dates, NEW p \in Editors, Read(p)
  PROVE  Dates'
<1> DEFINE e == editor[p]
           n == Head(e.args)
           t == file[n].text
           pc == IF Exists(n) THEN "stat file" ELSE "opened"
           c == [Cur(p) EXCEPT !.name = n, !.text = t, !.base = t, !.origin = t]
<1>1. /\ e.pc = "read" /\ e.pc \notin Over \cup Bufferless /\ UNCHANGED <<file, now, spent>>
      /\ editor' = [editor EXCEPT ![p] = WithCur([e EXCEPT !.pc = pc], c)]
  BY DEF Read, At, world, Over, Bufferless
<1>2. /\ e.ring # <<>> /\ Cur(p) = e.ring[1] /\ Cur(p) \in Buffer /\ Cur(p).stat = NoStat
      /\ file \in [Names -> File]
  BY <1>1, Facts, Numbers DEF Dates, Noticing
<1>3. n \in Names
  <2>1. e.args # <<>> /\ e.args \in Seq(Names)
    BY <1>1, Facts DEF Standing, Opening, IsEditor
  <2> QED
    BY <2>1, HeadTailProperties
<1>4. c \in Buffer /\ c.stat = NoStat
  <2>1. t \in Text
    BY <1>2, <1>3 DEF File
  <2> HIDE DEF n, t
  <2> QED
    BY <1>2, <1>3, <2>1 DEF Buffer, NameOrNot
<1> HIDE DEF c
<1>5. /\ editor'[p].pc = pc /\ editor'[p].ring = <<c>> \o Tail(e.ring)
      /\ \A q \in Editors \ {p} : editor'[q] = editor[q]
  <2> HIDE DEF pc
  <2> QED
    BY <1>1, Recorded DEF WithCur
<1>6. OnlyOf(p)
  BY <1>1, <1>5, Pieces, SameFiles
<1>7. Drawn(c, e.ring)
  BY <1>4 DEF Drawn
<1>8. pc \notin Checking \cup {"off", "lock", "read"}
  BY DEF Checking
<1> HIDE DEF pc
<1> QED
  BY <1>1, <1>2, <1>4, <1>5, <1>6, <1>7, <1>8, CurNotices

LEMMA StatFileNotices ==
  ASSUME Inv, Inv', Dates, NEW p \in Editors, StatFile(p)
  PROVE  Dates'
<1> DEFINE e == editor[p]
           c == Restatted(Cur(p), file, Cur(p).name)
<1>1. /\ e.pc = "stat file" /\ e.pc \notin Over \cup Bufferless /\ UNCHANGED <<file, now, spent>>
      /\ editor' = [editor EXCEPT ![p] = WithCur([e EXCEPT !.pc = "opened"], c)]
  BY DEF StatFile, At, world, Over, Bufferless
<1>2. /\ e.ring # <<>> /\ Cur(p) = e.ring[1] /\ Cur(p) \in Buffer /\ Cur(p).name \in Names
      /\ file \in [Names -> File] /\ Dated(file, now, spent.pieces)
  BY <1>1, Facts, Numbers DEF Dates, Standing
<1>3. c \in Buffer /\ Noticed(c, file, now)
  BY <1>2, RestattedIs, RestattedNoticed
<1> HIDE DEF c
<1>4. /\ editor'[p].pc = "opened" /\ editor'[p].ring = <<c>> \o Tail(e.ring)
      /\ \A q \in Editors \ {p} : editor'[q] = editor[q]
  BY <1>1, Recorded DEF WithCur
<1>5. OnlyOf(p)
  BY <1>1, <1>4, Pieces, SameFiles
<1> QED
  BY <1>1, <1>2, <1>3, <1>4, <1>5, CurNotices DEF Checking

LEMMA RestorePositionNotices ==
  ASSUME Inv, Inv', Dates, NEW p \in Editors, RestorePosition(p)
  PROVE  Dates'
<1> DEFINE e == editor[p]
           a == Tail(e.args)
           next == [e EXCEPT !.pc = "open", !.args = a]
           f == IF Option("POSITIONLOG") THEN Reloaded(next) ELSE next
<1>1. /\ e.pc = "opened" /\ e.pc \notin Over /\ UNCHANGED <<file, now, spent>>
      /\ editor' = [editor EXCEPT ![p] = f]
  BY DEF RestorePosition, At, world, Over
<1>2. DOMAIN next = Fields /\ next.pc = "open" /\ next.ring = e.ring
  BY Recorded DEF Fields
<1> HIDE DEF next
<1>3. f.pc = "open" /\ f.ring = e.ring
  BY <1>2 DEF Reloaded, LoadPosHistory, Fields
<1> HIDE DEF f
<1>4. /\ editor'[p].pc = "open" /\ editor'[p].ring = e.ring
      /\ \A q \in Editors \ {p} : editor'[q] = editor[q]
  BY <1>1, <1>3, Recorded
<1> QED
  BY <1>1, <1>4, SameRingDrawn, Pieces, QuietNotices DEF Checking

LEMMA ReadyNotices ==
  ASSUME Inv, Inv', Dates, NEW p \in Editors, Ready(p)
  PROVE  Dates'
<1> DEFINE e == editor[p]
           r == IF e.ring = <<>> THEN <<NewBuffer>> ELSE IF e.up THEN e.ring ELSE Rotated(e.ring)
<1>1. /\ e.pc = "open" /\ e.pc \notin Over /\ UNCHANGED <<file, now, spent>>
      /\ editor' = [editor EXCEPT ![p].pc = "idle", ![p].up = TRUE, ![p].ring = r]
  BY DEF Ready, At, world, Over, Rotated
<1>2. \A i \in DOMAIN r : Drawn(r[i], e.ring)
  <2>1. CASE e.ring = <<>>
    <3> DEFINE t == <<NewBuffer>>
    <3>1. DOMAIN t = {1} /\ t[1] = NewBuffer /\ NewBuffer.stat = NoStat /\ r = t
      BY <2>1 DEF NewBuffer
    <3> HIDE DEF t, r
    <3> QED
      BY <3>1 DEF Drawn
  <2>2. CASE e.ring # <<>>
    <3>1. e.ring \in Seq(Buffer)
      BY Numbers
    <3>2. r = e.ring \/ SameBuffers(r, e.ring)
      <4> HIDE DEF e
      <4> QED
        BY <2>2, <3>1, RotatedSame
    <3> HIDE DEF r
    <3> QED
      BY <3>2, SameRingDrawn, SameBuffersDrawn
  <2> QED
    BY <2>1, <2>2
<1> HIDE DEF r
<1>3. /\ editor'[p].pc = "idle" /\ editor'[p].ring = r
      /\ \A q \in Editors \ {p} : editor'[q] = editor[q]
  BY <1>1, Recorded
<1> QED
  BY <1>1, <1>2, <1>3, Pieces, QuietNotices DEF Checking

LEMMA OpenAnotherNotices ==
  ASSUME Inv, Inv', Dates, NEW p \in Editors, OpenAnother(p)
  PROVE  Dates'
<1>1. editor[p].pc = "idle" /\ editor[p].pc \notin Over /\ UNCHANGED <<file, now, spent>>
  BY DEF OpenAnother, At, world, Over
<1>2. PICK a : editor' = [editor EXCEPT ![p].pc = "open", ![p].args = a]
  BY DEF OpenAnother
<1>3. /\ editor'[p].pc = "open" /\ editor'[p].ring = editor[p].ring
      /\ \A q \in Editors \ {p} : editor'[q] = editor[q]
  BY <1>2, Recorded
<1> QED
  BY <1>1, <1>3, SameRingDrawn, Pieces, QuietNotices DEF Checking

LEMMA TypeNotices ==
  ASSUME Inv, Inv', Dates, NEW p \in Editors, Type(p)
  PROVE  Dates'
<1> DEFINE e == editor[p]
           b == Cur(p)
           t == Append(b.text, spent.pieces + 1)
           c == [b EXCEPT !.text = t, !.mod = TRUE]
<1>1. /\ e.pc = "idle" /\ e.pc \notin Over \cup Bufferless /\ UNCHANGED <<file, now>>
      /\ editor' = [editor EXCEPT ![p] = WithCur(e, c)]
      /\ spent' = [spent EXCEPT !.pieces = @ + 1]
  BY DEF Type, At, Over, Bufferless
<1>2. /\ e.ring # <<>> /\ b = e.ring[1] /\ b \in Buffer /\ e.ring \in Seq(Buffer)
      /\ 1 \in DOMAIN e.ring
  BY <1>1, Facts
<1>3. spent.pieces <= spent'.pieces
  BY <1>1 DEF Inv, TypeOK, WorldOK
<1>4. t \in Text
  BY <1>2, Numbers DEF Buffer, Text
<1> HIDE DEF t
<1>5. c \in Buffer /\ Alike(c, e.ring[1])
  BY <1>2, <1>4 DEF Buffer, Alike
<1>6. Drawn(c, e.ring)
  BY <1>2, <1>5 DEF Drawn
<1> HIDE DEF c, b
<1>7. /\ editor'[p].pc = "idle" /\ editor'[p].ring = <<c>> \o Tail(e.ring)
      /\ \A q \in Editors \ {p} : editor'[q] = editor[q]
  BY <1>1, Recorded DEF WithCur
<1>8. OnlyOf(p)
  BY <1>1, <1>3, <1>7, SameFiles
<1> QED
  BY <1>1, <1>2, <1>5, <1>6, <1>7, <1>8, CurNotices DEF Checking

LEMMA SwitchNotices ==
  ASSUME Inv, Inv', Dates, NEW p \in Editors, Switch(p)
  PROVE  Dates'
<1> DEFINE r == editor[p].ring
<1>1. /\ editor[p].pc = "idle" /\ editor[p].pc \notin Over \cup Bufferless
      /\ UNCHANGED <<file, now, spent>>
  BY DEF Switch, At, world, Over, Bufferless
<1>2. r \in Seq(Buffer) /\ r # <<>>
  BY <1>1, Facts
<1>3. ASSUME NEW t, SameBuffers(t, r), editor' = [editor EXCEPT ![p].ring = t]
      PROVE  Dates'
  <2>1. /\ editor'[p].pc = "idle" /\ editor'[p].ring = t
        /\ \A q \in Editors \ {p} : editor'[q] = editor[q]
    BY <1>1, <1>3, Recorded
  <2> QED
    BY <1>1, <1>3, <2>1, SameBuffersDrawn, Pieces, QuietNotices DEF Checking
<1>4. SameBuffers(Rotated(r), r) /\ SameBuffers(<<Last(r)>> \o Front(r), r)
  BY <1>2, RotatedSame
<1>5. \/ editor' = [editor EXCEPT ![p].ring = Rotated(r)]
      \/ editor' = [editor EXCEPT ![p].ring = <<Last(r)>> \o Front(r)]
  BY DEF Switch
<1> QED
  BY <1>3, <1>4, <1>5

LEMMA SearchNotices ==
  ASSUME Inv, Inv', Dates, NEW p \in Editors, Search(p)
  PROVE  Dates'
<1>1. /\ editor[p].pc = "idle" /\ editor[p].pc \notin Over /\ UNCHANGED <<file, now>>
      /\ spent' = [spent EXCEPT !.searches = @ + 1]
  BY DEF Search, At, world, Over
<1>2. PICK l : editor' = [editor EXCEPT ![p].searches = l, ![p].searched = TRUE]
  BY DEF Search
<1>3. /\ editor'[p].pc = "idle" /\ editor'[p].ring = editor[p].ring
      /\ \A q \in Editors \ {p} : editor'[q] = editor[q]
  BY <1>1, <1>2, Recorded
<1>4. spent.pieces <= spent'.pieces
  BY <1>1 DEF Inv, TypeOK, WorldOK
<1> QED
  BY <1>1, <1>3, <1>4, SameRingDrawn, QuietNotices DEF Checking

(* A save begins.                                                          *)
LEMMA StartSaveNotices ==
  ASSUME Inv, Inv', Dates, NEW p \in Editors, editor[p].pc = "idle", UNCHANGED <<file, stored, world>>,
         NEW exiting, NEW prompt, NEW mark, StartSave(p, exiting, prompt, mark)
  PROVE  Dates'
<1> DEFINE s == [NoSave EXCEPT !.exiting = exiting, !.prompt = prompt, !.mark = mark]
<1>1. /\ spent' = [spent EXCEPT !.saves = @ + 1]
      /\ editor' = [editor EXCEPT ![p].pc = "prompt", ![p].save = s]
  BY DEF StartSave
<1> HIDE DEF s
<1>2. /\ editor'[p].pc = "prompt" /\ editor'[p].ring = editor[p].ring
      /\ \A q \in Editors \ {p} : editor'[q] = editor[q]
  BY <1>1, Recorded
<1>3. spent.pieces <= spent'.pieces
  BY <1>1 DEF Inv, TypeOK, WorldOK
<1>4. editor[p].pc \notin Over /\ now' = now
  BY DEF Over, world
<1> QED
  BY <1>2, <1>3, <1>4, SameRingDrawn, QuietNotices DEF Checking

LEMMA DoExitNotices ==
  ASSUME Inv, Inv', Dates, NEW p \in Editors, DoWriteout(p) \/ DoSavefile(p) \/ DoExit(p)
  PROVE  Dates'
<1>1. /\ editor[p].pc = "idle" /\ UNCHANGED <<file, stored, world>> /\ now' = now
      /\ editor[p].pc \notin Over \cup Bufferless
  BY DEF DoWriteout, DoSavefile, DoExit, At, world, Over, Bufferless
<1>2. CASE Goto(p, "closing") /\ UNCHANGED spent
  <2>1. OnlyOf(p)
    BY <1>1, <1>2, GotoShows, Pieces, SameFiles
  <2> QED
    BY <1>1, <1>2, <2>1, GotoNotices DEF Checking
<1>3. CASE Dropped(p) /\ UNCHANGED spent
  BY <1>1, <1>3, Pieces, DroppedNotices
<1>4. CASE \E mark : StartSave(p, TRUE, TRUE, mark) \/ StartSave(p, FALSE, TRUE, mark)
                       \/ StartSave(p, FALSE, FALSE, mark)
  BY <1>1, <1>4, StartSaveNotices
<1> QED
  BY <1>2, <1>3, <1>4 DEF DoWriteout, DoSavefile, DoExit

(* The current buffer goes.                                                *)
LEMMA RestDrawn ==
  ASSUME NEW r \in Seq(Buffer), r # <<>>
  PROVE  \A i \in DOMAIN Tail(r) : Drawn(Tail(r)[i], r)
<1> DEFINE n == Len(r)
<1>1. /\ n \in Nat \ {0} /\ DOMAIN r = 1 .. n /\ DOMAIN Tail(r) = 1 .. n - 1
      /\ \A i \in 1 .. n - 1 : Tail(r)[i] = r[i + 1]
  BY Ends, FirstGone
<1> HIDE DEF n
<1>2. \A i \in DOMAIN Tail(r) : i + 1 \in DOMAIN r /\ Tail(r)[i] = r[i + 1]
  BY <1>1
<1> QED
  BY <1>2 DEF Drawn, Alike

LEMMA WithoutFirstNotices ==
  ASSUME Inv, Inv', Dates, NEW p \in Editors, editor[p].pc \in {"closing", "write log"},
         NEW g, DOMAIN g = Fields, g.ring = editor[p].ring,
         editor' = [editor EXCEPT ![p] = WithoutFirst(g)], UNCHANGED <<file, now, spent>>
  PROVE  Dates'
<1> DEFINE e == editor[p]
           f == WithoutFirst(g)
<1>1. e.ring # <<>> /\ e.ring \in Seq(Buffer) /\ e.pc \notin Over
  BY Facts DEF Bufferless, Over
<1>2. f.pc \in {"finish", "idle"} /\ (f.ring = e.ring \/ f.ring = Tail(e.ring))
  <2>1. CASE Len(g.ring) = 1
    BY <2>1 DEF WithoutFirst, Fields
  <2>2. CASE Len(g.ring) # 1
    BY <2>2 DEF WithoutFirst, Fields
  <2> QED
    BY <2>1, <2>2
<1>3. \A i \in DOMAIN Tail(e.ring) : Drawn(Tail(e.ring)[i], e.ring)
  BY <1>1, RestDrawn
<1> HIDE DEF f
<1>4. editor'[p] = f /\ \A q \in Editors \ {p} : editor'[q] = editor[q]
  BY Recorded DEF f
<1>5. \A i \in DOMAIN f.ring : Drawn(f.ring[i], e.ring)
  BY <1>2, <1>3, SameRingDrawn
<1>6. f.pc \notin Checking \cup {"off", "lock", "read"}
  BY <1>2 DEF Checking
<1> QED
  BY <1>1, <1>4, <1>5, <1>6, Pieces, QuietNotices

LEMMA CloseNotices ==
  ASSUME Inv, Inv', Dates, NEW p \in Editors, Close(p)
  PROVE  Dates'
<1> DEFINE e == editor[p]
           n == Cur(p).name
           g == [e EXCEPT !.pc = "open log"]
           f == UpdatePosHistory(g, n)
<1>1. e.pc = "closing" /\ e.pc \notin Over /\ UNCHANGED <<file, now, spent>>
  BY DEF Close, At, Over
<1>2. DOMAIN e = Fields /\ IsEditor(e)
  BY Recorded, Facts DEF Fields
<1>3. CASE editor' = [editor EXCEPT ![p] = WithoutFirst(@)]
  <2>1. editor' = [editor EXCEPT ![p] = WithoutFirst(e)]
    BY <1>3, Recorded
  <2> QED
    BY <1>1, <1>2, <2>1, WithoutFirstNotices
<1>4. CASE editor' = [editor EXCEPT ![p] = UpdatePosHistory([@ EXCEPT !.pc = "open log"], n)]
  <2>1. editor'[p] = f /\ \A q \in Editors \ {p} : editor'[q] = editor[q]
    BY <1>4, Recorded
  <2>2. "open log" \in Pc
    BY DEF Pc, Closed
  <2> HIDE DEF e, f
  <2>3. IsEditor(g) /\ g.pc = "open log" /\ g.ring = e.ring
    BY <1>2, <2>2, PcChanges
  <2> HIDE DEF g
  <2>4. f.pc = "open log" /\ f.ring = e.ring
    BY <2>3, ReloadedIs DEF f, Same
  <2> QED
    BY <1>1, <2>1, <2>4, SameRingDrawn, Pieces, QuietNotices DEF e, Checking
<1> QED
  BY <1>3, <1>4 DEF Close

LEMMA OpenLogNotices ==
  ASSUME Inv, Inv', Dates, NEW p \in Editors, OpenLog(p)
  PROVE  Dates'
<1>1. /\ editor[p].pc \notin Over /\ UNCHANGED <<file, now, spent>> /\ Goto(p, "write log")
  BY DEF OpenLog, At, Over
<1>2. OnlyOf(p)
  BY <1>1, GotoShows, Pieces, SameFiles
<1> QED
  BY <1>1, <1>2, GotoNotices DEF Checking

LEMMA WriteLogNotices ==
  ASSUME Inv, Inv', Dates, NEW p \in Editors, WriteLog(p)
  PROVE  Dates'
<1> DEFINE g == [editor[p] EXCEPT !.stamp = now]
<1>1. /\ editor[p].pc = "write log" /\ UNCHANGED <<file, now, spent>>
      /\ editor' = [editor EXCEPT ![p] = WithoutFirst(g)]
  BY DEF WriteLog, At
<1>2. DOMAIN g = Fields /\ g.ring = editor[p].ring
  BY Recorded DEF Fields
<1> HIDE DEF g
<1> QED
  BY <1>1, <1>2, WithoutFirstNotices

LEMMA FinishNotices ==
  ASSUME Inv, Inv', Dates, NEW p \in Editors, Finish(p)
  PROVE  Dates'
<1>1. /\ UNCHANGED <<file, now, spent>>
      /\ editor' = [editor EXCEPT ![p].pc = "gone", ![p].ring = <<>>]
  BY DEF Finish, world
<1>2. editor'[p].pc = "gone" /\ \A q \in Editors \ {p} : editor'[q] = editor[q]
  BY <1>1, Recorded
<1>3. OnlyOf(p)
  BY <1>1, <1>2, Pieces, SameFiles
<1> QED
  BY <1>2, <1>3, OverNotices DEF Over
-----------------------------------------------------------------------------
(* When editors end, and the world outside them.                           *)

LEMMA LeftOnly ==
  ASSUME Inv, Inv', Dates, NEW p \in Editors, LeftAsItIs(p), UNCHANGED <<now, spent>>,
         \A q \in Editors \ {p} : editor'[q] = editor[q]
  PROVE  OnlyOf(p)
<1>1. CASE file' = file
  BY <1>1, Pieces, SameFiles
<1>2. CASE At(p, "write") /\ file' = Written(p, Torn)
  <2>1. Target(p) \in Names
    BY <1>2, SavingFacts DEF At, Late
  <2> QED
    BY <1>2, <2>1, Pieces, WrittenAges, OneFile
<1> QED
  BY <1>1, <1>2 DEF LeftAsItIs

LEMMA EndingNotices ==
  ASSUME Inv, Inv', Dates, NEW p \in Editors, Ending(p)
  PROVE  Dates'
<1>1. CASE Hangup(p)
  <2>1. LeftAsItIs(p) /\ UNCHANGED <<now, spent>>
    BY <1>1 DEF Hangup, world
  <2>2. PICK todo, missed, r, owed :
          editor' = [editor EXCEPT ![p].pc = "dying", ![p].todo = todo, ![p].missed = missed,
                                   ![p].ring = r, ![p].owed = owed]
    BY <1>1 DEF Hangup
  <2>3. editor'[p].pc = "dying" /\ \A q \in Editors \ {p} : editor'[q] = editor[q]
    BY <2>2, Recorded
  <2> QED
    BY <2>1, <2>3, LeftOnly, OverNotices DEF Over
<1>2. CASE Kill(p)
  <2>1. LeftAsItIs(p) /\ UNCHANGED <<now, spent>> /\ Goto(p, "killed")
    BY <1>2 DEF Kill, world
  <2> QED
    BY <2>1, GotoShows, LeftOnly, OverNotices DEF Over
<1>3. ASSUME editor'[p].pc \in {"dying", "rescue", "dead", "cut"}, UNCHANGED <<file, now, spent>>,
             \A q \in Editors \ {p} : editor'[q] = editor[q]
      PROVE  Dates'
  BY <1>3, Pieces, SameFiles, OverNotices DEF Over
<1>4. ASSUME NEW k, editor[p].pc \in {"dying", "rescue"},
             editor' = [editor EXCEPT ![p] = k], k.pc \in {"dying", "rescue"}
      PROVE  editor'[p].pc \in {"dying", "rescue"} /\ \A q \in Editors \ {p} : editor'[q] = editor[q]
  BY <1>4, Recorded
<1>5. Done(editor[p]).pc = "dying"
  BY Recorded DEF Done
<1>6. CASE DieOn(p)
  <2> DEFINE k == [editor[p] EXCEPT !.pc = "rescue", !.slot = Len(rescue[RescueKey(p)]) + 1]
  <2>1. k.pc = "rescue"
    BY Recorded
  <2>2. editor' = [editor EXCEPT ![p] = k] \/ editor' = [editor EXCEPT ![p] = Done(editor[p])]
    BY <1>6, Recorded DEF DieOn
  <2> HIDE DEF k
  <2>3. UNCHANGED <<file, now, spent>> /\ editor[p].pc = "dying"
    BY <1>6 DEF DieOn, At
  <2> QED
    BY <1>3, <1>4, <1>5, <2>1, <2>2, <2>3
<1>7. CASE Rescue(p)
  <2>1. PICK missed : editor' = [editor EXCEPT ![p] = [Done(editor[p]) EXCEPT !.missed = missed]]
    BY <1>7 DEF Rescue
  <2> DEFINE k == [Done(editor[p]) EXCEPT !.missed = missed]
  <2>2. k.pc = "dying"
    BY Recorded DEF Done
  <2>3. UNCHANGED <<file, now, spent>> /\ editor[p].pc = "rescue"
    BY <1>7 DEF Rescue, At, world
  <2>4. editor' = [editor EXCEPT ![p] = k]
    BY <2>1
  <2> HIDE DEF k
  <2> QED
    BY <1>3, <1>4, <2>2, <2>3, <2>4
<1>8. CASE Dead(p) \/ GiveUp(p)
  <2>1. PICK pc \in {"dead", "cut"} : Goto(p, pc) /\ UNCHANGED <<file, now, spent>>
    BY <1>8 DEF Dead, GiveUp, world
  <2> QED
    BY <1>3, <2>1, GotoShows
<1> QED
  BY <1>1, <1>2, <1>6, <1>7, <1>8 DEF Ending

(* The files get newer, or the clock goes on; the editors stay, or end.    *)
LEMMA OutsideNotices ==
  ASSUME Inv, Inv', Dates, now <= now', Ages(file, file', now), Dated(file', now', spent'.pieces),
         \A q \in Editors : editor'[q] = editor[q] \/ editor'[q].pc = "killed"
  PROVE  Dates'
<1>1. /\ file \in [Names -> File] /\ file' \in [Names -> File] /\ now \in Nat /\ now' \in Nat
      /\ spent.pieces \in Nat /\ Dated(file, now, spent.pieces)
  BY Numbers DEF Dates, Inv, TypeOK, WorldOK
<1>2. ASSUME NEW q \in Editors
      PROVE  Noticing(editor'[q], file', now')
  <2> DEFINE e == editor[q]
  <2>1. CASE editor'[q].pc = "killed"
    BY <2>1 DEF Noticing, Over
  <2>2. CASE editor'[q] = e
    <3>1. IsEditor(e) /\ Standing(e) /\ Noticing(e, file, now) /\ e.ring \in Seq(Buffer)
      BY Numbers DEF Inv, TypeOK, Dates
    <3> HIDE DEF e
    <3>2. ASSUME e.pc \notin Over
          PROVE  AllNoticed(e.ring, file', now') /\ Checked(e, file')
      <4>1. AllNoticed(e.ring, file, now) /\ Checked(e, file)
        BY <3>1, <3>2 DEF Noticing
      <4>2. \A i \in DOMAIN e.ring : e.ring[i] \in Buffer
        BY <3>1
      <4>3. AllNoticed(e.ring, file', now')
        BY <1>1, <4>1, <4>2, NoticedKept DEF AllNoticed
      <4>4. Checked(e, file')
        BY <1>1, <3>1, <4>1, CheckedKept
      <4> QED
        BY <4>3, <4>4
    <3> QED
      BY <2>2, <3>1, <3>2 DEF Noticing
  <2> QED
    BY <2>1, <2>2
<1> QED
  BY <1>2 DEF Dates

LEMMA PowerLossNotices ==
  ASSUME Inv, Inv', Dates, PowerLoss
  PROVE  Dates'
<1>1. /\ file' \in AfterLoss(file) /\ UNCHANGED <<now, spent>>
      /\ editor' = [p \in Editors |-> IF Alive(p) THEN [editor[p] EXCEPT !.pc = "killed"]
                                      ELSE editor[p]]
  BY DEF PowerLoss, world
<1>2. ASSUME NEW n \in Names
      PROVE  file'[n].mtime = file[n].mtime /\ file'[n].id = file[n].id
  <2>1. file'[n] \in Remains(file[n]) /\ file[n] \in File
    BY <1>1, Numbers DEF AfterLoss
  <2> QED
    BY <2>1 DEF Remains, File
<1>3. Dated(file', now', spent'.pieces)
  BY <1>1, <1>2 DEF Dates, Dated
<1>4. ASSUME NEW q \in Editors
      PROVE  Noticing(editor'[q], file', now')
  <2>1. Noticing(editor[q], file, now)
    BY DEF Dates
  <2>2. CASE Alive(q)
    <3>1. editor'[q].pc = "killed"
      BY <1>1, <2>2, Recorded
    <3> QED
      BY <3>1 DEF Noticing, Over
  <2>3. CASE ~Alive(q)
    <3>1. editor'[q] = editor[q] /\ editor[q].pc \in Over
      BY <1>1, <2>3 DEF Alive, Ended, Over
    <3> QED
      BY <2>1, <3>1 DEF Noticing, Over
  <2> QED
    BY <2>2, <2>3
<1> QED
  BY <1>3, <1>4 DEF Dates

LEMMA TickNotices ==
  ASSUME Inv, Inv', Dates, Tick
  PROVE  Dates'
<1>1. now' = now + 1 /\ UNCHANGED <<file, editor, spent>>
  BY DEF Tick
<1>2. /\ now \in Nat /\ \A n \in Names : file[n].mtime \in Nat /\ file[n].id \in Nat
      /\ Dated(file, now, spent.pieces)
  BY DEF Dates, Inv, TypeOK, WorldOK, File
<1>3. now <= now' /\ Ages(file, file', now) /\ Dated(file', now', spent'.pieces)
  BY <1>1, <1>2 DEF Ages, Dated
<1> QED
  BY <1>1, <1>3, OutsideNotices

LEMMA ForeignWriteNotices ==
  ASSUME Inv, Inv', Dates, NEW n \in Names, ForeignWrite(n)
  PROVE  Dates'
<1> DEFINE piece == spent.pieces + 1
<1>1. UNCHANGED <<now, editor>> /\ spent' = [spent EXCEPT !.pieces = piece]
  BY DEF ForeignWrite, world
<1>2. PICK id \in {file[n].id, piece} \ {0} :
        file' = [file EXCEPT ![n] = [text |-> <<piece>>, mtime |-> now, id |-> id,
                   synced |-> IF id = file[n].id THEN file[n].synced ELSE <<>>]]
  BY DEF ForeignWrite
<1>3. /\ now \in Nat /\ spent.pieces \in Nat /\ file \in [Names -> File]
      /\ \A m \in Names : file[m].mtime \in Nat /\ file[m].id \in Nat
      /\ Dated(file, now, spent.pieces)
  BY DEF Dates, Inv, TypeOK, WorldOK, File
<1>4. spent'.pieces = piece
  BY <1>1 DEF Inv, TypeOK, WorldOK
<1> DEFINE t == <<piece>>
           s == IF id = file[n].id THEN file[n].synced ELSE <<>>
<1>5. /\ file'[n].mtime = now /\ file'[n].id = id
      /\ \A m \in Names \ {n} : file'[m] = file[m]
  <2>1. file' = [file EXCEPT ![n] = [text |-> t, mtime |-> now, id |-> id, synced |-> s]]
    BY <1>2
  <2> HIDE DEF t, s
  <2> QED
    BY <1>3, <2>1
<1>6. file[n].id <= id /\ id <= piece
  BY <1>2, <1>3 DEF Dated
<1>7. Ages(file, file', now)
  BY <1>3, <1>5, <1>6 DEF Ages
<1>8. Dated(file', now', spent'.pieces)
  <2> SUFFICES ASSUME NEW m \in Names
               PROVE  file'[m].mtime <= now /\ file'[m].id <= piece
    BY <1>1, <1>4 DEF Dated
  <2>1. CASE m = n
    BY <1>3, <1>5, <1>6, <2>1
  <2>2. CASE m # n
    BY <1>3, <1>5, <2>2 DEF Dated
  <2> QED
    BY <2>1, <2>2
<1>9. now <= now'
  BY <1>1, <1>3
<1> QED
  BY <1>1, <1>7, <1>8, <1>9, OutsideNotices

LEMMA InitDates ==
  Init => Dates
<1> SUFFICES ASSUME Init
             PROVE  Dates
  OBVIOUS
<1>1. \A p \in Editors : editor[p].pc = "off" /\ editor[p].ring = <<>>
  BY DEF Init
<1>2. \A p \in Editors : Noticing(editor[p], file, now)
  BY <1>1 DEF Noticing, Over
<1>3. now = 1 /\ spent.pieces = 1 /\ \A n \in Names : file[n].mtime \in {0, 1} /\ file[n].id \in {0, 1}
  BY DEF Init, Absent
<1>4. Dated(file, now, spent.pieces)
  BY <1>3 DEF Dated
<1> QED
  BY <1>2, <1>4 DEF Dates

LEMMA StepDates ==
  Inv /\ Dates /\ [Next]_vars => Dates'
<1> SUFFICES ASSUME Inv, Dates, [Next]_vars
             PROVE  Dates'
  OBVIOUS
<1>1. Inv'
  BY StepInv
<1>2. ASSUME NEW p \in Editors, Editing(p)
      PROVE  Dates'
  BY <1>1, <1>2, SaveNotices, StartNotices, OpenNextNotices, MakeLockNotices, ReadNotices,
     StatFileNotices, RestorePositionNotices, ReadyNotices, OpenAnotherNotices, TypeNotices,
     SwitchNotices, SearchNotices, DoExitNotices, CloseNotices, OpenLogNotices, WriteLogNotices,
     FinishNotices DEF Editing
<1>3. CASE UNCHANGED vars
  BY <1>3 DEF vars, Dates
<1> QED
  BY <1>1, <1>2, <1>3, EndingNotices, PowerLossNotices, TickNotices, ForeignWriteNotices DEF Next
-----------------------------------------------------------------------------
(* What is destroyed is known: what was seen at the check was not later    *)
(* than what the buffer knows, and that is not later than what is there.   *)
LEMMA OpenedWasRead ==
  ASSUME Inv, Dates, NEW p \in Editors, editor[p].pc \in Checking \ {"stat"},
         Save(p).method = "OVERWRITE", ~Save(p).asked,
         Target(p) = Cur(p).name, Exists(Target(p)), Seen(Target(p)) = Save(p).seen
  PROVE  \/ file[Target(p)].text = Cur(p).origin \/ Cur(p).late
         \/ Cur(p).hasty /\ StatIn(file, Target(p)) = Cur(p).stat
<1> DEFINE e == editor[p]
           n == e.save.name
           b == e.ring[1]
           st == StatIn(file, n)
<1>1. /\ Save(p) = e.save /\ Target(p) = n /\ Cur(p) = b /\ b \in Buffer /\ n \in Names
      /\ e.pc \in Checking \ {"stat"} /\ 1 \in DOMAIN e.ring
  <2>2. /\ Cur(p) = b /\ b \in Buffer /\ DOMAIN e.ring = 1 .. Len(e.ring)
        /\ Len(e.ring) \in Nat \ {0}
    BY Facts DEF Bufferless, Checking
  <2>3. 1 \in DOMAIN e.ring
    BY <2>2
  <2>4. e.pc \in Early \cup Late /\ e.pc # "prompt"
    BY DEF Checking, Early, Late
  <2> QED
    BY <2>2, <2>3, <2>4, SavingFacts DEF Target, Save
<1>2. e.save.seen.stat = st /\ st.id # 0
  BY <1>1 DEF Seen, StatIn, Exists
<1>3. AllNoticed(e.ring, file, now) /\ Checked(e, file)
  <2>1. e.pc \notin Over
    BY DEF Checking, Over
  <2> QED
    BY <2>1 DEF Dates, Noticing
<1>4. Unasked(e)
  BY <1>1, <1>2 DEF Unasked
<1>5. Older(st, b.stat)
  BY <1>1, <1>2, <1>3, <1>4 DEF Checked
<1>6. Noticed(b, file, now)
  BY <1>1, <1>3 DEF AllNoticed
<1>7. b.stat.of = n /\ b.name = n
  BY <1>1, <1>5 DEF Older, StatIn
<1>8. Older(b.stat, st)
  BY <1>1, <1>6, <1>7 DEF Noticed
<1>9. b.stat = st
  <2>1. b.stat \in Stamps /\ st \in Stamps
    BY <1>1, Numbers, StatTyped DEF Buffer
  <2> HIDE DEF b, st
  <2> QED
    BY <1>5, <1>8, <2>1 DEF Older, Stamps
<1>10. file[n].text = b.origin \/ b.late \/ b.hasty
  BY <1>1, <1>6, <1>7, <1>9 DEF Noticed
<1> QED
  BY <1>1, <1>9, <1>10

(* Whatever editors and other programs do to a file in turn: opening it    *)
(* for writing without a question destroys only what the buffer was read   *)
(* from or last written as, or what was written after the check; except    *)
(* when the file was written between being read and being statted, or in   *)
(* the second of the stat, or when it did not exist when it was opened     *)
(* (write_it_out(), write_file(), open_buffer()).                          *)
THEOREM NanoFilesOverwritesOnlyWhatWasRead ==
  Spec => OverwritesOnlyWhatWasRead
<1>1. Init => Inv /\ Dates
  BY InitInv, InitDates
<1>2. Inv /\ Dates /\ [Next]_vars => Inv' /\ Dates'
  BY StepInv, StepDates
<1>3. Inv /\ Dates =>
        \A p \in Editors :
          LET n == Target(p)
              b == Cur(p)
          IN  /\ At(p, "open file") /\ editor'[p].pc = "write"
              /\ Save(p).method = "OVERWRITE" /\ ~Save(p).asked
              /\ n = b.name /\ Exists(n) /\ Seen(n) = Save(p).seen
              => \/ file[n].text = b.origin \/ b.late
                 \/ b.hasty /\ StatIn(file, n) = b.stat
  BY OpenedWasRead DEF At, Checking
<1> QED
  BY <1>1, <1>2, <1>3, PTL DEF Spec, OverwritesOnlyWhatWasRead
=============================================================================
