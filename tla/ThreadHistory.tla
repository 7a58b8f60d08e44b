---------------------------- MODULE ThreadHistory ----------------------------
(***************************************************************************)
(* What a conversation promises its user: the messages of a thread are a   *)
(* list that only grows at its end, or whose older part is replaced by one *)
(* summary.  No message is lost, moved or mixed into another thread.       *)
(***************************************************************************)
EXTENDS Integers, Sequences, Functions

CONSTANT Threads, Summary(_)

VARIABLE history    \* thread -> its messages, the oldest first

Init == history = [t \in Threads |-> << >>]

Begins(s, t) == Len(s) < Len(t) /\ s = SubSeq(t, 1, Len(s))
Ends(s, t) == Len(s) < Len(t) /\ s = SubSeq(t, Len(t) - Len(s) + 1, Len(t))

Others(t) == \A u \in Threads \ {t} : history'[u] = history[u]

Extend(t) ==
    /\ Begins(history[t], history'[t])
    /\ Range(history'[t]) \intersect UNION {Range(history[u]) : u \in Threads \ {t}} = {}
    /\ Others(t)

Summarise(t) ==
    /\ history'[t] # << >> /\ Summary(Head(history'[t]))
    /\ Ends(Tail(history'[t]), history[t])
    /\ Others(t)

Next == history' # history /\ \E t \in Threads : Extend(t) \/ Summarise(t)

Spec == Init /\ [][Next]_history
=============================================================================
