------------------------------ MODULE SseStream ------------------------------
(***************************************************************************)
(* An answer's stream: the oracle writes events and heartbeats            *)
(* (apps/app/src/utils/sse.utils.ts), the network hands them over in reads *)
(* of any length, and the client's parseSSEStream                          *)
(* (packages/oracles-client-sdk/src/utils/sse-parser.ts) takes the reads   *)
(* apart again.  A line is two pieces, so that a read can end inside one.  *)
(***************************************************************************)
EXTENDS Naturals, FiniteSets, SequencesExt

CONSTANT
  MaxWrites     \* bound: events and heartbeats written

VARIABLES
  written,      \* events written
  writes,       \* events and heartbeats written
  wire,         \* pieces that were not read yet
  buffer,       \* pieces of the last, incomplete line
  got,          \* what the parser has yielded
  closed,       \* the oracle has ended the response
  broken        \* history: events of which a read ended behind their event: line

vars == <<written, writes, wire, buffer, got, closed, broken>>

Piece(kind, event, ends) == [kind |-> kind, event |-> event, ends |-> ends]

(* formatSSE: an event's line, its data's line and an empty one.            *)
FormatSSE(e) ==
  << Piece("event", e, FALSE), Piece("event", e, TRUE),
     Piece("data", e, FALSE), Piece("data", e, TRUE), Piece("blank", e, TRUE) >>

Heartbeat == << Piece("comment", 0, TRUE), Piece("blank", 0, TRUE) >>

Init ==
  /\ written = 0 /\ writes = 0
  /\ wire = <<>> /\ buffer = <<>> /\ got = <<>>
  /\ closed = FALSE /\ broken = {}

Write ==
  /\ ~closed /\ writes < MaxWrites
  /\ writes' = writes + 1
  /\ \/ written' = written + 1 /\ wire' = wire \o FormatSSE(written + 1)
     \/ wire' = wire \o Heartbeat /\ UNCHANGED written
  /\ UNCHANGED <<buffer, got, closed, broken>>

End ==
  /\ ~closed
  /\ closed' = TRUE
  /\ UNCHANGED <<written, writes, wire, buffer, got, broken>>

(***************************************************************************)
(* One read.  The complete lines of the buffer and the read are looked at; *)
(* the rest stays in the buffer.  The event and the data that were seen    *)
(* belong to this read: the next one starts with neither.                  *)
(***************************************************************************)
Blank == [event |-> 0, data |-> 0]
Begun(seen, p) == seen.half = [p EXCEPT !.ends = FALSE]

Look(seen, p) ==
  CASE ~p.ends -> [seen EXCEPT !.half = p]
    [] p.kind \in DOMAIN Blank /\ Begun(seen, p) -> [seen EXCEPT !.line[p.kind] = p.event]
    [] p.kind \notin DOMAIN Blank /\ seen.line.event # 0 /\ seen.line.data # 0 ->
         [seen EXCEPT !.line = Blank, !.out = Append(@, seen.line)]
    [] OTHER -> seen

Whole(text) == {i \in DOMAIN text : text[i].ends}
LastEnd(text) == IF Whole(text) = {} THEN 0 ELSE Max(Whole(text))

Parsed(text) ==
  FoldLeft(Look, [half |-> Piece("none", 0, FALSE), line |-> Blank, out |-> got],
           SubSeq(text, 1, LastEnd(text))).out

Rest(text) == SubSeq(text, LastEnd(text) + 1, Len(text))

(* A read that ends at the n-th piece has the event: line of an event, and  *)
(* not all that belongs to it.                                              *)
Breaks(n) == wire[n].event # 0 /\ wire[n] \in Range(SubSeq(FormatSSE(wire[n].event), 2, 4))

Read ==
  \E n \in DOMAIN wire :
    LET text == buffer \o SubSeq(wire, 1, n) IN
    /\ got' = Parsed(text)
    /\ buffer' = Rest(text)
    /\ wire' = SubSeq(wire, n + 1, Len(wire))
    /\ broken' = IF Breaks(n) THEN broken \cup {wire[n].event} ELSE broken
    /\ UNCHANGED <<written, writes, closed>>

Next == Write \/ End \/ Read

Spec == Init /\ [][Next]_vars

------------------------------------------------------------------------------
TypeOK ==
  /\ written \in 0..MaxWrites /\ writes \in 0..MaxWrites
  /\ \A i \in DOMAIN buffer : ~buffer[i].ends
  /\ closed \in BOOLEAN

(***************************************************************************)
(* What the parser yields are the events as they were written, each with   *)
(* its own data, in order, and none is missing up to what was read but     *)
(* those a read broke behind their event: line: a line that is cut is put  *)
(* together again, an event is not.                                        *)
(***************************************************************************)
Unread == {wire[i].event : i \in DOMAIN wire} \ {0}
Arrived == SelectSeq([e \in 1..(written - Cardinality(Unread)) |-> e], LAMBDA e : e \notin broken)
EveryEvent == got = [i \in DOMAIN Arrived |-> [event |-> Arrived[i], data |-> Arrived[i]]]

==============================================================================
