----------------------------- MODULE NanoChunks -----------------------------
(***************************************************************************)
(* Soft wrapping: how a line that is wider than the edit window is cut     *)
(* into chunks, one row of the screen each, and how one moves up and down  *)
(* over chunks.  A chunk is known by the column of its left edge; without  *)
(* SOFTWRAP a line is one chunk with left edge 0.                          *)
(*                                                                         *)
(* get_softwrap_breakpoint() keeps the place in the text where it stopped  *)
(* in static variables.  A call with kickoff starts from the beginning of  *)
(* the line, another one from that place, which may be beyond the left     *)
(* edge that is passed: here the place is the argument "from".             *)
(***************************************************************************)
EXTENDS NanoBuffer

CONSTANTS EditWinCols, EditWinRows        \* the size of the edit window

ASSUME EditWinAssumption ==
  EditWinCols \in Nat \ {0, 1} /\ EditWinRows \in Nat \ {0}

(* The place after the last blank on the row, 0 when there is none.        *)
AfterBlank(s, first, stop, right) ==
  Max({0} \cup {n \in first + 1 .. stop : IsBlank(s[n]) /\ Wideness(s, n - 1) < right})

(* Where to break a line that goes beyond the column "right" at "stop".    *)
BreakBefore(s, right, first, stop, blank) ==
  IF blank > 0 /\ Wideness(s, blank) <= right
  THEN [at |-> Wideness(s, blank), end |-> FALSE, from |-> blank]
  ELSE [at |-> IF stop = first \/ s[stop] = "\t" \/ (blank > 0 /\ s[blank] = "\t")
               THEN right ELSE Wideness(s, stop - 1),
        end |-> FALSE, from |-> stop]

BreakpointOf(s, right, first, stop, atBlanks) ==
  IF Wideness(s, stop) <= right
  THEN [at |-> Wideness(s, stop), end |-> Wideness(s, stop) < right, from |-> stop]
  ELSE BreakBefore(s, right, first, stop,
                   IF atBlanks THEN AfterBlank(s, first, stop, right) ELSE 0)

(* The end of the chunk that starts at column "left": its column, whether  *)
(* it is the end of the line, and where in the text the search stopped.    *)
SoftwrapBreakpoint(s, left, from, atBlanks) ==
  LET first == FirstBeyond(s, from, left - 1)
      right == left + EditWinCols
  IN BreakpointOf(s, right, first, FirstBeyond(s, first, right), atBlanks)

RECURSIVE EdgesFrom(_, _, _, _)
EdgesFrom(s, left, from, atBlanks) ==
  LET Beyond(next) == IF next.end THEN <<>> ELSE EdgesFrom(s, next.at, next.from, atBlanks)
  IN <<left>> \o Beyond(SoftwrapBreakpoint(s, left, from, atBlanks))

(* The left edges of the chunks of line y.                                 *)
Edges(b, y) ==
  IF IsSet(b, "SOFTWRAP") THEN EdgesFrom(b.text[y], 0, 0, IsSet(b, "AT_BLANKS"))
  ELSE <<0>>

(* get_chunk_and_edge(): the chunk, counted from 0, that a column is on.   *)
ChunkAmong(edges, column) ==
  Max({k \in DOMAIN edges : k = 1 \/ edges[k] <= column}) - 1
ChunkFor(b, column, y) == ChunkAmong(Edges(b, y), column)
LeftEdgeFor(b, column, y) ==
  LET EdgeAmong(edges) == edges[ChunkAmong(edges, column) + 1] IN EdgeAmong(Edges(b, y))

RECURSIVE Forward(_, _, _, _, _)
Forward(b, n, y, left, from) ==
  LET Onward(next) ==
        CASE n = 0 \/ (next.end /\ y = Bottom(b)) -> [y |-> y, left |-> left, short |-> n]
          [] n > 0 /\ ~next.end -> Forward(b, n - 1, y, next.at, next.from)
          [] n > 0 /\ next.end /\ y < Bottom(b) -> Forward(b, n - 1, y + 1, 0, 0)
  IN Onward(SoftwrapBreakpoint(b.text[y], left, from, IsSet(b, "AT_BLANKS")))

(* go_forward_chunks(): the place n chunks further and by how many chunks  *)
(* the end of the buffer falls short of it.                                *)
GoForwardChunks(b, n, y, left) ==
  IF IsSet(b, "SOFTWRAP") THEN Forward(b, n, y, left, 0)
  ELSE LET target == Min({y + n, Bottom(b)})
       IN [y |-> target, left |-> left, short |-> y + n - target]

RECURSIVE Backward(_, _, _, _)
Backward(b, n, y, left) ==
  LET From(chunk) ==
        IF n = 0 THEN [y |-> y, left |-> left, short |-> 0]
        ELSE IF chunk >= n THEN GoForwardChunks(b, chunk - n, y, 0)
        ELSE IF y = 1 THEN [y |-> 1, left |-> 0, short |-> n]
        ELSE Backward(b, n - chunk - 1, y - 1, Last(Edges(b, y - 1)))
  IN From(ChunkFor(b, left, y))

(* go_back_chunks(), likewise.                                             *)
GoBackChunks(b, n, y, left) ==
  IF IsSet(b, "SOFTWRAP") THEN Backward(b, n, y, left)
  ELSE LET target == Max({y - n, 1})
       IN [y |-> target, left |-> left, short |-> n - (y - target)]
=============================================================================
