-------------------------------- MODULE Pipe --------------------------------
(***************************************************************************)
(* The ring buffer behind a kernel pipe (kernel/src/fs/pipe.rs).  Every    *)
(* call holds the buffer's mutex and runs with interrupts masked, so each  *)
(* is one step.  c_lflag is 0 from Termios::new and nothing assigns it, so *)
(* the canonical branch of PipeBuffer::read is never taken and is left     *)
(* out.                                                                    *)
(***************************************************************************)
EXTENDS Naturals, Sequences

CONSTANTS Byte,        \* the values a byte can take
          PIPE_SIZE,   \* 4096 in the code
          MaxRequest   \* longest buffer a caller passes (bound of the model)

ASSUME PipeAssumption == /\ PIPE_SIZE \in Nat \ {0}
                         /\ MaxRequest \in Nat
                         /\ 0 \in Byte

VARIABLES buffer,      \* [0 .. PIPE_SIZE - 1 -> Byte]
          head,        \* where the next byte is written
          tail,        \* where the next byte is read
          count,       \* bytes in the buffer
          closed,      \* set when an end loses its last reference
          result       \* what the last call returned: its count and its bytes

pvars == <<buffer, head, tail, count, closed, result>>

Cells == 0 .. PIPE_SIZE - 1

Requests == UNION {[1 .. n -> Byte] : n \in 0 .. MaxRequest}

Least(a, b) == IF a <= b THEN a ELSE b

TypeOK ==
    /\ buffer \in [Cells -> Byte]
    /\ head \in Cells
    /\ tail \in Cells
    /\ count \in 0 .. PIPE_SIZE
    /\ closed \in BOOLEAN
    /\ result \in [n : 0 .. MaxRequest, bytes : Requests]

(* The bytes waiting to be read, oldest first. *)
Waiting == [i \in 1 .. count |-> buffer[(tail + i - 1) % PIPE_SIZE]]

Init ==
    /\ buffer = [i \in Cells |-> 0]
    /\ head = 0
    /\ tail = 0
    /\ count = 0
    /\ closed = FALSE
    /\ result = [n |-> 0, bytes |-> <<>>]

(* The buffer after n bytes of data are stored from head on. *)
Stored(data, n) ==
    [c \in Cells |->
        LET k == (c + PIPE_SIZE - head) % PIPE_SIZE
        IN  IF k < n THEN data[k + 1] ELSE buffer[c]]

(* Variant of Written: the closed flag is not looked at. *)
WrittenAfterClose(data) == Least(Len(data), PIPE_SIZE - count)

(* Bytes a write of data takes: none once closed, else what fits. *)
Written(data) == IF closed THEN 0 ELSE Least(Len(data), PIPE_SIZE - count)

Write(data) ==
    LET n == Written(data)
    IN  /\ buffer' = Stored(data, n)
        /\ head' = (head + n) % PIPE_SIZE
        /\ count' = count + n
        /\ result' = [n |-> n, bytes |-> <<>>]
        /\ UNCHANGED <<tail, closed>>

(* Variant of Read: the tail moves by what was asked for, not what was there. *)
ReadPastEnd(k) ==
    LET n == Least(k, count)
    IN  /\ tail' = (tail + k) % PIPE_SIZE
        /\ count' = count - n
        /\ result' = [n |-> n, bytes |-> [i \in 1 .. n |->
                                            buffer[(tail + i - 1) % PIPE_SIZE]]]
        /\ UNCHANGED <<buffer, head, closed>>

(* A reader with room for k bytes.  Zero bytes are returned both by an     *)
(* empty pipe that is still written to and by one that is closed.          *)
Read(k) ==
    LET n == Least(k, count)
    IN  /\ tail' = (tail + n) % PIPE_SIZE
        /\ count' = count - n
        /\ result' = [n |-> n, bytes |-> [i \in 1 .. n |->
                                            buffer[(tail + i - 1) % PIPE_SIZE]]]
        /\ UNCHANGED <<buffer, head, closed>>

Close ==
    /\ closed' = TRUE
    /\ UNCHANGED <<buffer, head, tail, count, result>>

Next ==
    \/ \E data \in Requests : Write(data)
    \/ \E k \in 0 .. MaxRequest : Read(k)
    \/ Close

Spec == Init /\ [][Next]_pvars

-----------------------------------------------------------------------------
(* head, tail and count are kept separately by write and read; they must   *)
(* describe the same window of the ring after any mix of full, empty and   *)
(* partial transfers, or a reader gets bytes nobody wrote.                 *)
RingConsistent == head = (tail + count) % PIPE_SIZE

(* The ring buffer is a bounded byte stream: no byte is lost, duplicated   *)
(* or reordered across the wrap-around, a full pipe takes a prefix and     *)
(* reports its length, and closing keeps the bytes already accepted.       *)
Stream == INSTANCE ByteStream
            WITH queue <- Waiting, open <- ~closed, Capacity <- PIPE_SIZE

ImplementsStream == Stream!Spec
=============================================================================
