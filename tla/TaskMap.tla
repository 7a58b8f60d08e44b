------------------------------ MODULE TaskMap ------------------------------
(* What the index of a user's tasks promises: a map from task ids to        *)
(* entries.  An operation under way may change the entry of its task, at    *)
(* once or, when it fails, perhaps not; nothing else changes an entry.      *)
CONSTANTS Tasks, Values, None

VARIABLES
    entries,        \* the map
    asked           \* operations under way

Requests == [op : {"create", "update", "delete"}, task : Tasks, value : Values \cup {None}]

Init ==
    /\ entries = [t \in Tasks |-> None]
    /\ asked = {}

Ask(r) ==
    /\ asked' = asked \cup {r}
    /\ UNCHANGED entries

Answer(r) ==
    /\ r \in asked
    /\ asked' = asked \ {r}
    /\ UNCHANGED entries

(* A creation fills an empty place, the others change what is there. *)
Apply(r) ==
    /\ r \in asked
    /\ r.op = "create" <=> entries[r.task] = None
    /\ entries' = [entries EXCEPT ![r.task] = r.value]
    /\ UNCHANGED asked

Next == \E r \in Requests : Ask(r) \/ Answer(r) \/ Apply(r)

Spec == Init /\ [][Next]_<<entries, asked>>
=============================================================================
