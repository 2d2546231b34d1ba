----------------------------- MODULE ByteStream -----------------------------
(***************************************************************************)
(* What a pipe promises its users: a first-in first-out stream of bytes of *)
(* bounded capacity.  A write takes the longest prefix that fits and says  *)
(* how long it was, a read hands out the oldest bytes, and once the stream *)
(* is closed it accepts nothing more but can still be drained.             *)
(***************************************************************************)
EXTENDS Naturals, Sequences

CONSTANTS Byte,        \* the values a byte can take
          Capacity,    \* how many bytes the stream holds
          MaxRequest   \* longest buffer a caller passes

VARIABLES queue,       \* bytes written and not yet read, oldest first
          open,        \* FALSE once the stream is closed
          result       \* what the last call returned: its count and its bytes

svars == <<queue, open, result>>

Requests == UNION {[1 .. n -> Byte] : n \in 0 .. MaxRequest}

Least(a, b) == IF a <= b THEN a ELSE b

Init ==
    /\ queue = <<>>
    /\ open = TRUE
    /\ result = [n |-> 0, bytes |-> <<>>]

(* Accept the part of data for which there is room. *)
Put(data) ==
    LET n == IF open THEN Least(Len(data), Capacity - Len(queue)) ELSE 0
    IN  /\ queue' = queue \o SubSeq(data, 1, n)
        /\ result' = [n |-> n, bytes |-> <<>>]
        /\ UNCHANGED open

(* Hand out up to k of the oldest bytes. *)
Take(k) ==
    LET n == Least(k, Len(queue))
    IN  /\ queue' = SubSeq(queue, n + 1, Len(queue))
        /\ result' = [n |-> n, bytes |-> SubSeq(queue, 1, n)]
        /\ UNCHANGED open

Shut ==
    /\ open' = FALSE
    /\ UNCHANGED <<queue, result>>

Next ==
    \/ \E data \in Requests : Put(data)
    \/ \E k \in 0 .. MaxRequest : Take(k)
    \/ Shut

Spec == Init /\ [][Next]_svars
=============================================================================
