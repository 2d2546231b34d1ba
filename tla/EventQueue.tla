------------------------------ MODULE EventQueue ------------------------------
(***************************************************************************)
(* The ring of input events, kernel/src/window_manager/events.rs.  Mouse   *)
(* and keyboard handlers add events; programs fetch those of their window, *)
(* which compacts the ring in place.  Both run with interrupts masked and  *)
(* are one step each.  The repeat count of a key event is left out.        *)
(***************************************************************************)
EXTENDS Integers, Sequences

CONSTANTS QUEUE_SIZE,   \* slots of the ring (256)
          Window,       \* window identifiers
          Payload,      \* what an event says besides its window
          MaxFetch      \* most events a program asks for (bound of the model)

ASSUME EventQueueAssumption ==
    /\ QUEUE_SIZE \in Nat \ {0}
    /\ MaxFetch \in Nat

Event == [wid : Window, what : Payload]

NoEvent == [wid |-> 0, what |-> 0]

Place == 0 .. QUEUE_SIZE - 1

VARIABLES queue,        \* [Place -> Event \cup {NoEvent}]
          head,         \* the slot the next event goes to
          tail,         \* the slot of the oldest event
          count,        \* events in the ring
          fetched       \* what the last fetch returned

qvars == <<queue, head, tail, count, fetched>>

QTypeOK ==
    /\ queue \in [Place -> Event \cup {NoEvent}]
    /\ head \in Place
    /\ tail \in Place
    /\ count \in 0 .. QUEUE_SIZE
    /\ fetched \in Seq(Event)

QInit ==
    /\ queue = [s \in Place |-> NoEvent]
    /\ head = 0
    /\ tail = 0
    /\ count = 0
    /\ fetched = <<>>

Wrap(s) == s % QUEUE_SIZE

(* add_event: a full ring forgets its oldest event first. *)
AddEvent(e) ==
    LET full == count >= QUEUE_SIZE
    IN  /\ tail' = IF full THEN Wrap(tail + 1) ELSE tail
        /\ queue' = [queue EXCEPT ![head] = e]
        /\ head' = Wrap(head + 1)
        /\ count' = IF full THEN count ELSE count + 1
        /\ fetched' = <<>>

(* Variant of Round: what stays in the ring is not copied down. *)
RoundInPlace(s, k, w, max) ==
    LET evt == s.ring[Wrap(tail + k - 1)]
    IN  IF evt.wid = w /\ Len(s.result) < max
        THEN [s EXCEPT !.result = Append(@, evt)]
        ELSE [s EXCEPT !.write_ptr = Wrap(@ + 1), !.kept = @ + 1]

(* A round of the loop of get_and_remove_events: the k-th event is read,   *)
(* and taken if it is for window w and fewer than max have been taken,     *)
(* else moved down to write_ptr.                                           *)
Round(s, k, w, max) ==
    LET evt == s.ring[Wrap(tail + k - 1)]
    IN  IF evt.wid = w /\ Len(s.result) < max
        THEN [s EXCEPT !.result = Append(@, evt)]
        ELSE [s EXCEPT !.ring[s.write_ptr] = evt,
                       !.write_ptr = Wrap(@ + 1),
                       !.kept = @ + 1]

Begin == [ring |-> queue, write_ptr |-> tail, kept |-> 0, result |-> <<>>]

Pass(w, max) ==
    LET step[k \in 0 .. count] == IF k = 0 THEN Begin ELSE Round(step[k - 1], k, w, max)
    IN  step[count]

(* get_and_remove_events.  Its early return from an empty ring changes     *)
(* nothing, and neither does the loop then: head is at tail.               *)
GetAndRemoveEvents(w, max) ==
    LET done == Pass(w, max)
    IN  /\ queue' = done.ring
        /\ head' = done.write_ptr
        /\ count' = done.kept
        /\ fetched' = done.result
        /\ UNCHANGED tail

QNext ==
    \/ \E e \in Event : AddEvent(e)
    \/ \E w \in Window, max \in 0 .. MaxFetch : GetAndRemoveEvents(w, max)

QSpec == QInit /\ [][QNext]_qvars

-----------------------------------------------------------------------------
(* Properties.                                                             *)

Pending == [k \in 1 .. count |-> queue[Wrap(tail + k - 1)]]

(* The ring behaves as the abstract log: per window first-in first-out,    *)
(* nothing fetched twice, nobody else's events lost or reordered by a      *)
(* fetch, and only the oldest event forgotten when a program does not keep *)
(* up.                                                                     *)
Log == INSTANCE EventLog WITH pending <- Pending, Capacity <- QUEUE_SIZE

ImplementsLog == Log!Spec
=============================================================================
