------------------------------- MODULE EventLog -------------------------------
(***************************************************************************)
(* What the window manager's event queue promises: the events not yet      *)
(* fetched, oldest first.  A program that fetches the events of its window *)
(* gets the oldest of them in the order they came and leaves all others    *)
(* where they are; when there is no room the oldest event is forgotten.    *)
(***************************************************************************)
EXTENDS Integers, Sequences, FiniteSets

CONSTANTS Window,     \* window identifiers
          Payload,    \* what an event says
          Capacity,   \* how many events are kept
          MaxFetch    \* most events a program asks for at once

VARIABLES pending,    \* the events not yet fetched
          fetched     \* what the last call handed out

lvars == <<pending, fetched>>

Event == [wid : Window, what : Payload]

(* The events of s at the positions in P, in their order. *)
At(s, P) == [k \in 1 .. Cardinality(P) |->
                s[CHOOSE i \in P : Cardinality({j \in P : j <= i}) = k]]

(* The positions of the oldest max events of window w. *)
Oldest(w, max) ==
    LET mine == {i \in DOMAIN pending : pending[i].wid = w}
    IN  {i \in mine : Cardinality({j \in mine : j <= i}) <= max}

Init == pending = <<>> /\ fetched = <<>>

Post(e) ==
    /\ pending' = Append(IF Len(pending) = Capacity THEN Tail(pending) ELSE pending, e)
    /\ fetched' = <<>>

Fetch(w, max) ==
    LET P == Oldest(w, max)
    IN  /\ fetched' = At(pending, P)
        /\ pending' = At(pending, DOMAIN pending \ P)

Next ==
    \/ \E e \in Event : Post(e)
    \/ \E w \in Window, max \in 0 .. MaxFetch : Fetch(w, max)

Spec == Init /\ [][Next]_lvars
=============================================================================
