------------------------------ MODULE UndoList ------------------------------
(***************************************************************************)
(* What undoing and redoing promise: the document goes back, and forth     *)
(* again, through the very states it has been in.                          *)
(***************************************************************************)
EXTENDS Integers, Sequences

VARIABLES doc,         \* the document
          past,        \* the states to go back to, the latest one last
          future       \* the states to go forth to, the nearest one first

(* One or more new states; where there was a future, there is none now.    *)
Edit == /\ Len(past') > Len(past)
        /\ SubSeq(past', 1, Len(past) + 1) = Append(past, doc)
        /\ future' = <<>>

(* A change that will be undone together with the latest one.              *)
Amend == past # <<>> /\ past' = past /\ future' = <<>>

(* A change that came to nothing still ends the future.                    *)
Forget == doc' = doc /\ past' = past /\ future' = <<>>

Undo == /\ past # <<>>
        /\ Append(past', doc') = past
        /\ future' = <<doc>> \o future

Redo == /\ future # <<>>
        /\ past' = Append(past, doc)
        /\ <<doc'>> \o future' = future

Next == Edit \/ Amend \/ Forget \/ Undo \/ Redo

Spec == past = <<>> /\ future = <<>> /\ [][Next]_<<doc, past, future>>
=============================================================================
