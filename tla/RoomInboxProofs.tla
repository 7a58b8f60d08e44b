--------------------------- MODULE RoomInboxProofs ---------------------------
(* Proofs about RoomInbox: the messages of a room's threads agree on their     *)
(* root, the oracle takes part in a thread only when it was called there, each *)
(* message is part of one question, and a room is greeted once, for any        *)
(* number of users, messages, faults and restarts.                            *)
EXTENDS RoomInbox, WellFoundedInduction, TLAPS

-----------------------------------------------------------------------------
(* Sequences                                                                 *)

LEMMA Members ==
  ASSUME NEW S, NEW s \in Seq(S)
  PROVE  (\A e \in Range(s) : e \in S) /\ (s # << >> => Range(s) # {})
<1>1. s # << >> => s[1] \in Range(s)
  BY DEF Range
<1>2. \A e \in Range(s) : e \in S
  BY DEF Range
<1> QED
  BY <1>1, <1>2

LEMMA Appended ==
  ASSUME NEW S, NEW s \in Seq(S), NEW e \in S
  PROVE  Append(s, e) \in Seq(S) /\ Append(s, e) # << >> /\ Range(Append(s, e)) = Range(s) \cup {e}
<1>1. /\ Append(s, e) \in Seq(S) /\ Len(Append(s, e)) = Len(s) + 1
      /\ \A i \in 1..Len(s) : Append(s, e)[i] = s[i]
      /\ Append(s, e)[Len(s) + 1] = e
  OBVIOUS
<1>2. DOMAIN Append(s, e) = 1..(Len(s) + 1) /\ DOMAIN s = 1..Len(s) /\ Len(s) \in Nat
  BY <1>1
<1> DEFINE t == Append(s, e)
<1> HIDE DEF t
<1>3. \A x : x \in Range(t) <=> x \in Range(s) \/ x = e
  <2>1. \A i \in 1..(Len(s) + 1) : i = Len(s) + 1 \/ i \in 1..Len(s)
    BY <1>2
  <2>2. ASSUME NEW x \in Range(t)
        PROVE  x \in Range(s) \/ x = e
    <3>1. PICK i \in 1..(Len(s) + 1) : x = t[i]
      BY <1>2 DEF Range, t
    <3> QED
      BY <1>1, <1>2, <2>1, <3>1 DEF Range, t
  <2>3. ASSUME NEW x \in Range(s)
        PROVE  x \in Range(t)
    <3>1. PICK i \in 1..Len(s) : x = s[i]
      BY <1>2 DEF Range
    <3>2. i \in 1..(Len(s) + 1) /\ t[i] = x
      BY <1>1, <1>2, <3>1 DEF t
    <3> QED
      BY <1>2, <3>2 DEF Range, t
  <2>4. e \in Range(t)
    <3>1. Len(s) + 1 \in 1..(Len(s) + 1) /\ t[Len(s) + 1] = e
      BY <1>1, <1>2 DEF t
    <3> QED
      BY <1>2, <3>1 DEF Range, t
  <2> QED
    BY <2>2, <2>3, <2>4
<1>4. t \in Seq(S) /\ t # << >>
  <2>1. Len(s) + 1 # 0 /\ Len(<< >>) = 0
    BY <1>2
  <2>2. Len(t) = Len(s) + 1 /\ t \in Seq(S)
    BY <1>1 DEF t
  <2> QED
    BY <2>1, <2>2
<1> QED
  BY <1>3, <1>4 DEF t

-----------------------------------------------------------------------------
(* Recursion on the numbers up to n                                          *)

(* A set of numbers that is not empty has a least element.                   *)
LEMMA Least ==
  ASSUME NEW S \in SUBSET Nat, S # {}
  PROVE  \E n \in S : \A m \in S : n <= m
  <1>1. PICK n \in S : \A m \in S : ~ (<<m, n>> \in OpToRel(<, Nat))
    BY NatLessThanWellFounded, WFMin, Zenon
  <1>2. \A x, y \in Nat : x < y => <<x, y>> \in OpToRel(<, Nat)
    BY Zenon DEF OpToRel
  <1>3. \A m \in S : ~(m < n)
    BY <1>1, <1>2, Zenon
  <1>4. n \in Nat /\ \A m \in S : m \in Nat
    OBVIOUS
  <1>5. \A m \in S : n <= m
    BY <1>3, <1>4
  <1> QED BY <1>5

(* What holds of a number whenever it holds of all lesser ones holds of all. *)
LEMMA Induction ==
  ASSUME NEW n \in Nat, NEW S, \A j \in 1..n : (\A i \in 1..(j - 1) : i \in S) => j \in S
  PROVE  \A j \in 1..n : j \in S
<1> DEFINE Other == {j \in 1..n : j \notin S}
<1>1. SUFFICES ASSUME Other # {} PROVE FALSE
  OBVIOUS
<1>2. Other \in SUBSET Nat
  OBVIOUS
<1>3. PICK k \in Other : \A m \in Other : k <= m
  <2> HIDE DEF Other
  <2> QED
    BY <1>1, <1>2, Least
<1>4. \A i \in 1..(k - 1) : i \in 1..n /\ i \in S
  BY <1>3
<1> QED
  BY <1>4

(* A step gives the value of a function from its argument and the function,  *)
(* and looks only at the function's values of what is less.                 *)
LooksBelow(n, V, step) ==
  /\ step \in [(1..n) \X [1..n -> V] -> V]
  /\ \A j \in 1..n : \A f, g \in [1..n -> V] :
       (\A i \in 1..(j - 1) : f[i] = g[i]) => step[<<j, f>>] = step[<<j, g>>]

Follows(n, V, step, f) == f \in [1..n -> V] /\ \A j \in 1..n : f[j] = step[<<j, f>>]

(* There is a function that follows such a step: were there a least n without *)
(* one that follows it up to n, the one that does up to n - 1 could be mended  *)
(* at n.                                                                    *)
LEMMA Defined ==
  ASSUME NEW n \in Nat, NEW V, V # {}, NEW step, LooksBelow(n, V, step)
  PROVE  \E f : Follows(n, V, step, f)
<1> USE DEF LooksBelow
<1> DEFINE Upto(k, f) == \A j \in 1..k : f[j] = step[<<j, f>>]
           Short == {k \in 0..n : \A f \in [1..n -> V] : ~Upto(k, f)}
<1>1. SUFFICES ASSUME \A f \in [1..n -> V] : ~Upto(n, f)
               PROVE  FALSE
  BY Zenon DEF Follows
<1>2. PICK k \in Short : \A m \in Short : k <= m
  <2> HIDE DEF Upto
  <2>1. n \in Short
    BY <1>1
  <2>2. Short \in SUBSET Nat
    OBVIOUS
  <2> HIDE DEF Short
  <2> QED
    BY <2>1, <2>2, Least
<1>3. PICK v \in V : TRUE
  OBVIOUS
<1>4. k # 0
  <2>1. [j \in 1..n |-> v] \in [1..n -> V]
    BY <1>3
  <2>2. \A f : Upto(0, f)
    <3>1. \A j \in 1..0 : FALSE
      OBVIOUS
    <3> QED
      BY <3>1, Zenon
  <2> HIDE DEF Upto
  <2> QED
    BY ZenonT(30), <2>1, <2>2
<1>5. k \in 1..n /\ k - 1 \in 0..n /\ k - 1 \notin Short
  <2> HIDE DEF Upto
  <2>1. k \in 0..n
    OBVIOUS
  <2> HIDE DEF Short
  <2> QED
    BY <1>2, <1>4, <2>1
<1>6. PICK f \in [1..n -> V] : Upto(k - 1, f)
  <2> HIDE DEF Upto
  <2>1. ~ \A f \in [1..n -> V] : ~Upto(k - 1, f)
    BY <1>5
  <2> QED
    BY <2>1, Zenon
<1> DEFINE g == [f EXCEPT ![k] = step[<<k, f>>]]
<1>7. step[<<k, f>>] \in V
  BY <1>5
<1>8. g \in [1..n -> V] /\ g[k] = step[<<k, f>>] /\ \A i \in 1..n : i # k => g[i] = f[i]
  BY <1>5, <1>7
<1> HIDE DEF g, Short
<1>9. \A j \in 1..k : step[<<j, g>>] = step[<<j, f>>]
  <2> TAKE j \in 1..k
  <2>1. j \in 1..n /\ \A i \in 1..(j - 1) : i \in 1..n /\ i # k
    BY <1>5
  <2>2. \A i \in 1..(j - 1) : g[i] = f[i]
    BY <2>1, <1>8
  <2> QED
    BY <2>1, <2>2, <1>8
<1>10. Upto(k, g)
  <2> SUFFICES ASSUME NEW j \in 1..k PROVE g[j] = step[<<j, g>>]
    OBVIOUS
  <2>1. CASE j = k
    BY <2>1, <1>8, <1>9
  <2>2. CASE j # k
    <3>1. j \in 1..(k - 1) /\ j \in 1..n
      BY <2>2, <1>5
    <3>2. f[j] = step[<<j, f>>]
      BY <3>1, <1>6
    <3>3. g[j] = f[j]
      BY <3>1, <1>8, <2>2
    <3> QED
      BY <3>2, <3>3, <1>9
  <2> QED
    BY <2>1, <2>2
<1>11. \A h \in [1..n -> V] : ~Upto(k, h)
  <2> HIDE DEF Upto
  <2> QED
    BY DEF Short
<1> QED
  BY <1>8, <1>10, <1>11


-----------------------------------------------------------------------------
(* Threads of the room                                                       *)

Posts == [by : Users \cup {Bot}, thread : Nat, reply : Nat, mention : BOOLEAN]

(* Threads and replies are of earlier events.                                *)
Earlier(l) ==
  l \in Seq(Posts) /\ \A e \in 1..Len(l) : l[e].thread \in 0..(e - 1) /\ l[e].reply \in 0..(e - 1)

RootRule(l, r) ==
  [e \in DOMAIN l |-> IF l[e].thread # None THEN l[e].thread
                      ELSE IF l[e].reply = None THEN e ELSE r[l[e].reply]]

LEMMA RuleGives ==
  ASSUME NEW l, Earlier(l), NEW r, r = CHOOSE x : x = RootRule(l, x)
  PROVE  \A e \in 1..Len(l) :
           /\ r[e] \in 1..Len(l)
           /\ r[e] = IF l[e].thread # None THEN l[e].thread
                     ELSE IF l[e].reply = None THEN e ELSE r[l[e].reply]
<1> DEFINE n == Len(l)
           V == 1..n
           value(e, f) == IF l[e].thread # None THEN l[e].thread
                          ELSE IF l[e].reply = None THEN e ELSE f[l[e].reply]
           step == [p \in (1..n) \X [1..n -> V] |-> value(p[1], p[2])]
<1>1. n \in Nat /\ DOMAIN l = 1..n
  BY DEF Earlier
<1>2. \A e \in 1..n : /\ l[e].thread \in 0..(e - 1) /\ l[e].reply \in 0..(e - 1)
                      /\ l[e].thread # None => l[e].thread \in V
                      /\ l[e].reply # None => l[e].reply \in 1..(e - 1) /\ l[e].reply \in V
  BY <1>1 DEF Earlier, None
<1>3. \A x : RootRule(l, x) = [e \in 1..n |-> value(e, x)]
  BY <1>1 DEF RootRule
<1> HIDE DEF n
<1>4. \A e \in 1..n, f \in [1..n -> V] : value(e, f) \in V
  BY <1>1, <1>2
<1>5. step \in [(1..n) \X [1..n -> V] -> V]
      /\ \A e \in 1..n, f \in [1..n -> V] : step[<<e, f>>] = value(e, f)
  <2> HIDE DEF value
  <2> QED
    BY <1>4
<1>6. \A e \in 1..n : \A f, g \in [1..n -> V] :
        (\A i \in 1..(e - 1) : f[i] = g[i]) => value(e, f) = value(e, g)
  BY <1>2
<1> HIDE DEF V, value, step
<1>7. SUFFICES ASSUME V # {}
               PROVE  \A e \in 1..n : r[e] \in V /\ r[e] = value(e, r)
  BY Zenon DEF V, value, n
<1>8. LooksBelow(n, V, step)
  BY <1>5, <1>6 DEF LooksBelow
<1>9. PICK f : Follows(n, V, step, f)
  BY <1>1, <1>7, <1>8, Defined
<1>10. f = RootRule(l, f)
  <2>1. f = [e \in 1..n |-> f[e]] /\ \A e \in 1..n : f[e] = value(e, f)
    BY <1>5, <1>9 DEF Follows
  <2>2. [e \in 1..n |-> f[e]] = [e \in 1..n |-> value(e, f)]
    BY <2>1, Zenon
  <2> QED
    BY <1>3, <2>1, <2>2, Zenon
<1>11. r = RootRule(l, r)
  BY <1>10, Zenon
<1>12. \A e \in 1..n : r[e] = value(e, r)
  <2>1. r = [e \in 1..n |-> value(e, r)]
    BY <1>3, <1>11, Zenon
  <2>2. \A e \in 1..n : [i \in 1..n |-> value(i, r)][e] = value(e, r)
    OBVIOUS
  <2> QED
    BY <2>1, <2>2, Zenon
<1> DEFINE S == {e \in 1..n : r[e] \in V}
<1>13. ASSUME NEW e \in 1..n, \A i \in 1..(e - 1) : i \in S
       PROVE  e \in S
  <2>1. value(e, r) \in V
    BY <1>2, <1>13 DEF value, V
  <2> QED
    BY <1>12, <2>1
<1> HIDE DEF S
<1>14. \A e \in 1..n : e \in S
  BY <1>1, <1>13, Induction
<1> QED
  BY <1>12, <1>14 DEF S

(* What a function of the log's events is where it follows a rule that looks   *)
(* back only.                                                                *)
LogOK == Earlier(log) /\ Len(log) <= MaxEvents

LEMMA RootIs ==
  ASSUME LogOK
  PROVE  \A e \in Posted :
           /\ Root[e] \in Posted
           /\ Root[e] = IF log[e].thread # None THEN log[e].thread
                        ELSE IF log[e].reply = None THEN e ELSE Root[log[e].reply]
<1>1. Root = CHOOSE x : x = RootRule(log, x)
  BY Zenon DEF Root, RootRule, Posted
<1>2. Posted = 1..Len(log)
  BY DEF LogOK, Earlier, Posted
<1> HIDE DEF Root
<1> QED
  BY <1>1, <1>2, RuleGives DEF LogOK

LEMMA RootIsThen ==
  ASSUME LogOK'
  PROVE  \A e \in Posted' :
           /\ Root'[e] \in Posted'
           /\ Root'[e] = IF log'[e].thread # None THEN log'[e].thread
                         ELSE IF log'[e].reply = None THEN e ELSE Root'[log'[e].reply]
<1>1. Root' = CHOOSE x : x = RootRule(log', x)
  BY Zenon DEF Root, RootRule, Posted
<1>2. Posted' = 1..Len(log')
  BY DEF LogOK, Earlier, Posted
<1> HIDE DEF Root
<1> QED
  BY <1>1, <1>2, RuleGives DEF LogOK

(* What is posted later changes no root.                                     *)
LEMMA RootStays ==
  ASSUME LogOK, LogOK', Len(log) <= Len(log'), \A e \in Posted : log'[e] = log[e]
  PROVE  Posted \subseteq Posted' /\ \A e \in Posted : Root'[e] = Root[e]
<1> DEFINE n == Len(log)
           S == {e \in 1..n : Root'[e] = Root[e]}
<1>1. n \in Nat /\ Posted = 1..n /\ Posted' = 1..Len(log') /\ Len(log') \in Nat
  BY DEF LogOK, Earlier, Posted
<1>2. Posted \subseteq Posted'
  BY <1>1
<1>3. \A e \in Posted : log[e].thread \in 0..(e - 1) /\ log[e].reply \in 0..(e - 1)
  BY <1>1 DEF LogOK, Earlier
<1>4. ASSUME NEW e \in 1..n, \A i \in 1..(e - 1) : i \in S
      PROVE  e \in S
  <2>1. log'[e] = log[e] /\ e \in Posted /\ e \in Posted'
    BY <1>1, <1>2
  <2>2. /\ Root[e] = IF log[e].thread # None THEN log[e].thread
                     ELSE IF log[e].reply = None THEN e ELSE Root[log[e].reply]
        /\ Root'[e] = IF log[e].thread # None THEN log[e].thread
                      ELSE IF log[e].reply = None THEN e ELSE Root'[log[e].reply]
    BY <2>1, RootIs, RootIsThen
  <2>3. log[e].reply # None => log[e].reply \in S
    BY <1>1, <1>3, <1>4 DEF None
  <2> HIDE DEF Root
  <2> QED
    BY <2>2, <2>3
<1> HIDE DEF n, S
<1>5. \A e \in 1..n : e \in S
  BY <1>1, <1>4, Induction
<1> QED
  BY <1>1, <1>2, <1>5 DEF S

(* The events that are walked down to one whose root is known.               *)
LEMMA WalkIs ==
  ASSUME LogOK
  PROVE  \A a \in Posted : /\ Walk[a] \in SUBSET Posted
                           /\ Walk[a] = IF Known(a) THEN {a} ELSE {a} \cup Walk[log[a].reply]
<1> DEFINE n == Len(log)
           V == SUBSET (1..n)
           value(a, f) == IF Known(a) THEN {a} ELSE {a} \cup f[log[a].reply]
           step == [p \in (1..n) \X [1..n -> V] |-> value(p[1], p[2])]
           rule(x) == [a \in 1..n |-> value(a, x)]
<1>1. n \in Nat /\ Posted = 1..n
  BY DEF LogOK, Earlier, Posted
<1>2. \A a \in 1..n : ~Known(a) => log[a].reply \in 1..(a - 1) /\ log[a].reply \in 1..n
  BY <1>1 DEF LogOK, Earlier, None, Known
<1>3. Walk = CHOOSE x : x = rule(x)
  BY <1>1, Zenon DEF Walk
<1> HIDE DEF Walk, n, Known
<1>4. \A a \in 1..n, f \in [1..n -> V] : value(a, f) \in V
  BY <1>1, <1>2
<1>5. step \in [(1..n) \X [1..n -> V] -> V]
      /\ \A a \in 1..n, f \in [1..n -> V] : step[<<a, f>>] = value(a, f)
  <2> HIDE DEF value
  <2> QED
    BY <1>4
<1>6. \A a \in 1..n : \A f, g \in [1..n -> V] :
        (\A i \in 1..(a - 1) : f[i] = g[i]) => value(a, f) = value(a, g)
  BY <1>2
<1>7. V # {}
  OBVIOUS
<1>8. \A x : rule(x) = [a \in 1..n |-> value(a, x)]
  BY Zenon
<1> HIDE DEF V, value, step, rule
<1>9. LooksBelow(n, V, step)
  BY <1>5, <1>6 DEF LooksBelow
<1>10. PICK f : Follows(n, V, step, f)
  BY <1>1, <1>7, <1>9, Defined
<1>11. f = rule(f)
  <2>1. f = [a \in 1..n |-> f[a]] /\ \A a \in 1..n : f[a] = value(a, f)
    BY <1>5, <1>10 DEF Follows
  <2>2. [a \in 1..n |-> f[a]] = [a \in 1..n |-> value(a, f)]
    BY <2>1, Zenon
  <2> QED
    BY <1>8, <2>1, <2>2, Zenon
<1>12. Walk = rule(Walk)
  BY <1>3, <1>11, Zenon
<1>13. \A a \in 1..n : Walk[a] = value(a, Walk)
  <2>1. \A a \in 1..n : rule(Walk)[a] = value(a, Walk)
    BY <1>8
  <2> QED
    BY <1>12, <2>1, Zenon
<1> DEFINE S == {a \in 1..n : Walk[a] \in V}
<1>14. ASSUME NEW a \in 1..n, \A i \in 1..(a - 1) : i \in S
       PROVE  a \in S
  <2>1. value(a, Walk) \in V
    BY <1>2, <1>14 DEF value, V
  <2> QED
    BY <1>13, <2>1
<1> HIDE DEF S
<1>15. \A a \in 1..n : a \in S
  BY <1>1, <1>14, Induction
<1> QED
  BY <1>1, <1>13, <1>15 DEF S, V, value

(* The first event of a walk is the only one of it whose root is known, and    *)
(* all of them have that event's root.                                       *)
Walked(p, S, f) ==
  /\ S \subseteq Posted /\ p \in S /\ f \in S /\ Known(f)
  /\ \A b \in S : f <= b /\ (b # f => ~Known(b)) /\ Root[b] = Root[p]

LEMMA WalkEnds ==
  ASSUME LogOK, NEW p \in Posted
  PROVE  \E f \in Posted : Walked(p, Walk[p], f)
<1> DEFINE n == Len(log)
           S == {a \in 1..n : \E f \in Posted : Walked(a, Walk[a], f)}
<1>1. n \in Nat /\ Posted = 1..n
  BY DEF LogOK, Earlier, Posted
<1>2. ASSUME NEW a \in 1..n, \A i \in 1..(a - 1) : i \in S
      PROVE  a \in S
  <2>1. Walk[a] = IF Known(a) THEN {a} ELSE {a} \cup Walk[log[a].reply]
    BY <1>1, WalkIs
  <2> HIDE DEF Walk, Root
  <2>2. CASE Known(a)
    <3>1. Walked(a, {a}, a)
      BY <1>1, <2>2 DEF Walked
    <3> QED
      BY <1>1, <2>1, <2>2, <3>1
  <2>3. CASE ~Known(a)
    <3> DEFINE b == log[a].reply
    <3>1. b \in 1..(a - 1) /\ b \in Posted /\ log[a].thread = None /\ b # None
      BY <1>1, <2>3 DEF LogOK, Earlier, None, Known
    <3>2. Root[a] = Root[b]
      BY <1>1, <3>1, RootIs
    <3> HIDE DEF b
    <3>3. PICK f \in Posted : Walked(b, Walk[b], f)
      <4>1. b \in S
        BY <1>2, <3>1
      <4> QED
        BY <4>1
    <3>4. Walk[a] = {a} \cup Walk[b]
      BY <2>1, <2>3 DEF b
    <3>5. f <= b
      BY <3>3 DEF Walked
    <3>6. Walked(a, Walk[a], f)
      BY <1>1, <2>3, <3>1, <3>2, <3>3, <3>4, <3>5 DEF Walked
    <3> QED
      BY <3>6
  <2> QED
    BY <2>2, <2>3
<1> HIDE DEF S
<1>3. \A a \in 1..n : a \in S
  <2> HIDE DEF n
  <2> QED
    BY <1>1, <1>2, Induction
<1> QED
  BY <1>1, <1>3 DEF S

-----------------------------------------------------------------------------
(* What holds of the room, its threads and the questions asked                *)

Places == {"none", "root", "room", "guard", "session", "buffered", "over"}
Questions == [thread : Events, events : Seq(Events), group : BOOLEAN, done : BOOLEAN]

RoomTyped ==
  /\ direct \in BOOLEAN /\ roomType \in {"none", "direct", "group"}
  /\ rootOf \in [Events -> Posted \cup {None}]
  /\ \A e \in Events : rootOf[e] # None => e \in Posted
  /\ at \in [Events -> Places] /\ \A e \in Events : at[e] # "none" => e \in Posted
  /\ asDirect \in SUBSET Events /\ active \in SUBSET Events
  /\ buffer \in [Events -> Seq(Events)]
  /\ \A b \in batches : b \in Questions /\ b.events # << >> /\ b.thread \in Posted
  /\ welcomed \in BOOLEAN /\ greeting \in Nat /\ greetings \in Nat /\ misread \in BOOLEAN
  /\ faults \in 0..MaxFaults /\ restarts \in 0..faults

(* The root of an event is known when its handler has passed it.             *)
RootKnown == \A e \in Events : at[e] \in {"room", "guard", "session"} => rootOf[e] # None

(* An event is buffered in its thread, and in one place.                     *)
InBuffer(t) == \A e \in Range(buffer[t]) : at[e] = "buffered" /\ rootOf[e] = t
InBatch(b) ==
  /\ \A e \in Range(b.events) : at[e] = "buffered"
  /\ \A t \in Events : Range(b.events) \cap Range(buffer[t]) = {}
  /\ \A c \in batches : Range(b.events) \cap Range(c.events) # {} => b = c
Held(e) == (\E t \in Events : e \in Range(buffer[t])) \/ \E b \in batches : e \in Range(b.events)
InPlace ==
  /\ \A t \in Events : InBuffer(t)
  /\ \A b \in batches : InBatch(b)
  /\ restarts = 0 => \A e \in Events : at[e] = "buffered" => Held(e)

(* The oracle speaks in a thread that it has been asked in, and first because  *)
(* it was called.                                                            *)
Calling(d) == log[d].mention \/ RepliesToBot(d) \/ d \in asDirect
Begun(t) == \E b \in batches : b.thread = t
BegunWell(t) == \E b \in batches : b.thread = t /\ \E d \in Range(b.events) : Calling(d)
WhenCalled ==
  /\ \A t \in Events : Begun(t) => BegunWell(t)
  /\ \A t \in Events : buffer[t] # << >> => Begun(t) \/ \E d \in Range(buffer[t]) : Calling(d)
  /\ \A e \in Events : at[e] = "session" => Begun(rootOf[e]) \/ Calling(e)
  /\ \A t \in active : Begun(t)
  /\ \A e \in Posted : log[e].by = Bot =>
       log[e].thread = log[e].reply /\ (log[e].thread # None => Begun(log[e].thread))

Welcome ==
  /\ greetings + greeting + (IF welcomed THEN 0 ELSE 1) <= restarts + 1
  /\ greeting > 0 => welcomed

RoomInv == LogOK /\ RoomTyped /\ RootKnown /\ InPlace /\ WhenCalled /\ Welcome /\ RootsAgree

-----------------------------------------------------------------------------
(* What a step keeps when it leaves alone what a part of it is about          *)

(* The room only grows.                                                      *)
Grows == LogOK' /\ Len(log) <= Len(log') /\ \A e \in Posted : log'[e] = log[e]

LEMMA Sizes ==
  /\ MaxEvents \in Nat /\ MaxFaults \in Nat /\ Bot \notin Users
  /\ \A e \in Events : e \in Nat /\ e # None
  BY InboxAssumption DEF InboxAssumption, Events, None

LEMMA PostedIs ==
  ASSUME LogOK
  PROVE  Posted = 1..Len(log) /\ Len(log) \in Nat /\ Posted \subseteq Events
  BY Sizes DEF LogOK, Earlier, Posted, Events

LEMMA SameLog ==
  ASSUME LogOK, UNCHANGED log
  PROVE  Grows /\ Posted' = Posted /\ \A e \in Posted : Root'[e] = Root[e]
<1>1. LogOK' /\ Posted' = Posted /\ Len(log) \in Nat
  BY PostedIs DEF LogOK, Earlier, Posted
<1>2. Grows
  BY <1>1 DEF Grows
<1> HIDE DEF Grows
<1>3. \A e \in Posted : Root'[e] = Root[e]
  BY <1>2, RootStays DEF Grows
<1> QED
  BY <1>1, <1>2, <1>3

LEMMA PostGrows ==
  ASSUME LogOK, NEW by \in Users \cup {Bot}, NEW thread \in Nat, NEW reply \in Nat, NEW mention \in BOOLEAN,
         thread <= Len(log), reply <= Len(log), Post(by, thread, reply, mention)
  PROVE  LET new == Len(log') IN
         /\ Grows /\ new \in Events /\ new \notin Posted /\ Posted' = Posted \cup {new}
         /\ log'[new] = [by |-> by, thread |-> thread, reply |-> reply, mention |-> mention]
<1> DEFINE x == [by |-> by, thread |-> thread, reply |-> reply, mention |-> mention]
           n == Len(log)
<1>1. /\ log \in Seq(Posts) /\ n \in Nat /\ n < MaxEvents /\ log' = Append(log, x) /\ Posted = 1..n
      /\ \A e \in 1..n : log[e].thread \in 0..(e - 1) /\ log[e].reply \in 0..(e - 1)
  BY PostedIs DEF LogOK, Earlier, Post
<1>2. x \in Posts /\ x.thread = thread /\ x.reply = reply
  BY DEF Posts
<1> HIDE DEF x
<1>3. /\ log' \in Seq(Posts) /\ Len(log') = n + 1 /\ log'[n + 1] = x
      /\ \A e \in 1..n : log'[e] = log[e]
  <2> HIDE DEF Posts
  <2> QED
    BY <1>1, <1>2
<1>4. Posted' = 1..(n + 1)
  BY <1>3 DEF Posted, Posts
<1> HIDE DEF n
<1>5. \A e \in 1..(n + 1) : log'[e].thread \in 0..(e - 1) /\ log'[e].reply \in 0..(e - 1)
  <2> TAKE e \in 1..(n + 1)
  <2>1. CASE e = n + 1
    <3>1. thread \in 0..n /\ reply \in 0..n
      BY <1>1 DEF n
    <3> QED
      BY <1>1, <1>2, <1>3, <2>1, <3>1
  <2>2. CASE e # n + 1
    <3>1. e \in 1..n
      BY <1>1, <2>2
    <3> QED
      BY <1>1, <1>3, <3>1
  <2> QED
    BY <2>1, <2>2
<1>6. LogOK'
  BY <1>1, <1>3, <1>5, Sizes DEF LogOK, Earlier
<1>7. n + 1 \in Events /\ n + 1 \notin Posted /\ Posted' = Posted \cup {n + 1}
  BY <1>1, <1>4, Sizes DEF Events
<1>8. Grows
  <2>1. Len(log) <= Len(log')
    BY <1>1, <1>3 DEF n
  <2> QED
    BY <1>1, <1>3, <1>6, <2>1 DEF Grows
<1> QED
  BY <1>3, <1>7, <1>8 DEF x

(* Roots stay when the cache does, or gets right ones.                       *)
LEMMA RootsStay ==
  ASSUME RoomInv, Grows, (misread' = misread) \/ misread',
         ~misread' => \A e \in Posted : rootOf'[e] \in {None, rootOf[e], Root[e]},
         ~misread' => \A e \in Posted' \ Posted : rootOf'[e] = None
  PROVE  RootsAgree'
<1>1. CASE misread'
  BY <1>1 DEF RootsAgree
<1>2. CASE ~misread'
  <2>1. RootsAgree /\ LogOK /\ ~misread
    BY <1>2 DEF RoomInv
  <2>2. Posted \subseteq Posted' /\ \A e \in Posted : Root'[e] = Root[e]
    BY <2>1, RootStays DEF Grows
  <2>3. \A e \in Posted : rootOf[e] \in {None, Root[e]}
    BY <2>1 DEF RootsAgree
  <2> HIDE DEF Root
  <2>4. \A e \in Posted' : rootOf'[e] \in {None, Root'[e]}
    BY <1>2, <2>2, <2>3
  <2> QED
    BY <2>4 DEF RootsAgree
<1> QED
  BY <1>1, <1>2

(* Buffers and questions stay what they are.                                 *)
LEMMA InPlaceStays ==
  ASSUME RoomInv, UNCHANGED <<buffer, batches, restarts>>,
         \A e \in Events : at'[e] = "buffered" <=> at[e] = "buffered",
         \A e \in Events : at[e] = "buffered" /\ rootOf[e] # None => rootOf'[e] = rootOf[e]
  PROVE  InPlace'
<1>1. InPlace /\ RoomTyped
  BY DEF RoomInv
<1>2. \A t \in Events : InBuffer(t)'
  <2> SUFFICES ASSUME NEW t \in Events, NEW e \in Range(buffer[t])
               PROVE  at'[e] = "buffered" /\ rootOf'[e] = t
    BY DEF InBuffer
  <2>1. at[e] = "buffered" /\ rootOf[e] = t /\ t # None
    BY <1>1, Sizes DEF InPlace, InBuffer
  <2>2. e \in Events
    <3>1. buffer[t] \in Seq(Events)
      BY <1>1 DEF RoomTyped
    <3> HIDE DEF Events
    <3> QED
      BY <3>1 DEF Range
  <2> QED
    BY <2>1, <2>2
<1>3. \A b \in batches' : InBatch(b)'
  <2> SUFFICES ASSUME NEW b \in batches
               PROVE  InBatch(b)'
    OBVIOUS
  <2>1. InBatch(b)
    BY <1>1 DEF InPlace
  <2>2. \A e \in Range(b.events) : e \in Events
    <3>1. b.events \in Seq(Events)
      BY <1>1 DEF RoomTyped, Questions
    <3> HIDE DEF Events
    <3> QED
      BY <3>1 DEF Range
  <2> QED
    BY <2>1, <2>2 DEF InBatch
<1>4. restarts' = 0 => \A e \in Events : at'[e] = "buffered" => Held(e)'
  BY <1>1 DEF InPlace, Held
<1> QED
  BY <1>2, <1>3, <1>4 DEF InPlace

Same(b, c) == b.thread = c.thread /\ b.events = c.events

(* Calls stay calls.                                                         *)
LEMMA CallingStays ==
  ASSUME RoomInv, Grows, asDirect \subseteq asDirect', NEW d \in Posted, Calling(d)
  PROVE  Calling(d)'
<1>1. LogOK /\ log'[d] = log[d]
  BY DEF RoomInv, Grows
<1>2. log[d].reply # None => log[d].reply \in Posted
  BY <1>1, PostedIs DEF LogOK, Earlier, None
<1>3. RepliesToBot(d) => RepliesToBot(d)'
  BY <1>1, <1>2 DEF RepliesToBot, Grows
<1> QED
  BY <1>1, <1>3 DEF Calling

(* What is asked, and by whom the oracle was called, stays.                   *)
LEMMA WhenCalledStays ==
  ASSUME RoomInv, Grows, asDirect \subseteq asDirect',
         \A b \in batches : \E c \in batches' : Same(b, c),
         \A c \in batches' : \E b \in batches : Same(b, c),
         \A t \in Events : buffer'[t] = buffer[t] \/ buffer'[t] = << >>,
         \A e \in Events : at'[e] = "session" =>
           (at[e] = "session" /\ rootOf'[e] = rootOf[e]) \/ Begun(rootOf'[e]) \/ Calling(e)',
         \A t \in active' : Begun(t),
         \A e \in Posted' \ Posted : log'[e].by = Bot =>
           log'[e].thread = log'[e].reply /\ (log'[e].thread # None => Begun(log'[e].thread))
  PROVE  WhenCalled'
<1>1. WhenCalled /\ RoomTyped /\ InPlace
  BY DEF RoomInv
<1>2. \A t : Begun(t) <=> \E c \in batches' : c.thread = t
  BY DEF Begun, Same
<1>3. ASSUME NEW t \in Events, Begun(t)'
      PROVE  BegunWell(t)'
  <2>1. BegunWell(t)
    BY <1>1, <1>2, <1>3 DEF WhenCalled, Begun
  <2>2. PICK b \in batches : b.thread = t /\ \E d \in Range(b.events) : Calling(d)
    BY <2>1 DEF BegunWell
  <2>3. PICK d \in Range(b.events) : Calling(d)
    BY <2>2
  <2>4. d \in Posted
    <3>1. b.events \in Seq(Events) /\ at[d] = "buffered"
      BY <1>1 DEF RoomTyped, Questions, InPlace, InBatch
    <3>2. d \in Events
      <4> HIDE DEF Events
      <4> QED
        BY <3>1 DEF Range
    <3> QED
      BY <1>1, <3>1, <3>2 DEF RoomTyped
  <2>5. Calling(d)'
    BY <2>3, <2>4, CallingStays
  <2>6. PICK c \in batches' : Same(b, c)
    OBVIOUS
  <2> QED
    BY <2>2, <2>3, <2>5, <2>6 DEF BegunWell, Same
<1>4. ASSUME NEW t \in Events, buffer'[t] # << >>
      PROVE  Begun(t)' \/ \E d \in Range(buffer'[t]) : Calling(d)'
  <2>1. buffer'[t] = buffer[t] /\ buffer[t] # << >>
    BY <1>4
  <2>2. CASE Begun(t)
    BY <1>2, <2>2 DEF Begun
  <2>3. ASSUME NEW d \in Range(buffer[t]), Calling(d)
        PROVE  Calling(d)'
    <3>1. buffer[t] \in Seq(Events) /\ at[d] = "buffered"
      BY <1>1 DEF RoomTyped, InPlace, InBuffer
    <3>2. d \in Events
      <4> HIDE DEF Events
      <4> QED
        BY <3>1 DEF Range
    <3>3. d \in Posted
      BY <1>1, <3>1, <3>2 DEF RoomTyped
    <3> QED
      BY <2>3, <3>3, CallingStays
  <2> QED
    BY <1>1, <2>1, <2>2, <2>3 DEF WhenCalled
<1>5. ASSUME NEW e \in Events, at'[e] = "session"
      PROVE  Begun(rootOf[e])' \/ Calling(e)'
  <2>1. CASE at[e] = "session" /\ rootOf'[e] = rootOf[e]
    <3>1. Begun(rootOf[e]) \/ Calling(e)
      BY <1>1, <2>1 DEF WhenCalled
    <3>2. e \in Posted
      BY <1>1, <2>1 DEF RoomTyped
    <3>3. Calling(e) => Calling(e)'
      BY <3>2, CallingStays
    <3>4. Begun(rootOf[e]) => Begun(rootOf[e])'
      BY <1>2, <2>1 DEF Begun
    <3> QED
      BY <3>1, <3>3, <3>4
  <2>2. CASE Begun(rootOf'[e]) \/ Calling(e)'
    <3>1. Begun(rootOf'[e]) => Begun(rootOf[e])'
      BY <1>2 DEF Begun
    <3> QED
      BY <2>2, <3>1
  <2> QED
    BY <1>5, <2>1, <2>2
<1>6. \A t \in active' : \E c \in batches' : c.thread = t
  BY <1>2
<1>7. ASSUME NEW e \in Posted', log'[e].by = Bot
      PROVE  /\ log'[e].thread = log'[e].reply
             /\ log'[e].thread # None => \E c \in batches' : c.thread = log'[e].thread
  <2>1. CASE e \in Posted
    <3>1. log'[e] = log[e]
      BY <2>1 DEF Grows
    <3> QED
      BY <1>1, <1>2, <1>7, <2>1, <3>1 DEF WhenCalled
  <2>2. CASE e \notin Posted
    BY <1>2, <1>7, <2>2
  <2> QED
    BY <2>1, <2>2
<1> QED
  BY <1>3, <1>4, <1>5, <1>6, <1>7 DEF WhenCalled, Begun

-----------------------------------------------------------------------------
(* The steps                                                                 *)

(* A fault counts.                                                           *)
LEMMA Faulty ==
  ASSUME RoomTyped, Fault \/ UNCHANGED faults
  PROVE  faults' \in 0..MaxFaults /\ restarts \in 0..faults'
  BY Sizes DEF RoomTyped, Fault

(* A handler goes on, the rest of the room stays.                            *)
LEMMA SayStep ==
  ASSUME RoomInv, NEW u \in Users, NEW mention \in BOOLEAN, Say(u, mention)
  PROVE  RoomInv'
<1>1. /\ LogOK /\ RoomTyped /\ Posted = 1..Len(log) /\ Len(log) \in Nat
      /\ \A e \in Posted : log[e].thread \in Nat /\ log[e].reply \in Nat
  BY PostedIs DEF RoomInv, LogOK, Earlier
<1>2. \A t \in Posted : LastIn(t) \in Posted
  <2> TAKE t \in Posted
  <2> DEFINE S == {e \in Posted : t \in {e, log[e].thread}}
             n == Len(log)
             D == {n - e : e \in S}
  <2>1. D \in SUBSET Nat /\ n - t \in D
    BY <1>1
  <2>2. PICK m \in D : \A k \in D : m <= k
    <3> HIDE DEF D
    <3> QED
      BY <2>1, Least
  <2>3. PICK e \in S : m = n - e
    BY <2>2
  <2>4. \A d \in S : d <= e
    <3> TAKE d \in S
    <3>1. n - d \in D /\ d \in Nat /\ e \in Nat
      BY <1>1
    <3>2. n - e <= n - d
      BY <2>2, <2>3, <3>1
    <3> QED
      BY <1>1, <3>1, <3>2
  <2>5. \E x \in Posted : /\ t \in {x, log[x].thread}
                          /\ \A d \in Posted : t \in {d, log[d].thread} => d <= x
    BY <2>4
  <2> QED
    BY <2>5 DEF LastIn
<1>3. \E thread \in Nat, reply \in Nat : thread <= Len(log) /\ reply <= Len(log) /\ Post(u, thread, reply, mention)
  <2>1. CASE Post(u, None, None, mention)
    BY <1>1, <2>1 DEF None
  <2>2. ASSUME NEW r \in Posted, Post(u, None, r, mention)
        PROVE  \E thread \in Nat, reply \in Nat :
                 thread <= Len(log) /\ reply <= Len(log) /\ Post(u, thread, reply, mention)
    BY <1>1, <2>2 DEF None
  <2>3. ASSUME NEW t \in Starts, Post(u, t, LastIn(t), mention)
        PROVE  \E thread \in Nat, reply \in Nat :
                 thread <= Len(log) /\ reply <= Len(log) /\ Post(u, thread, reply, mention)
    <3>1. t \in Posted
      BY DEF Starts
    <3>2. t \in Nat /\ t <= Len(log) /\ LastIn(t) \in Nat /\ LastIn(t) <= Len(log)
      BY <1>1, <1>2, <3>1
    <3> QED
      BY <2>3, <3>2
  <2> QED
    BY <2>1, <2>2, <2>3 DEF Say
<1> DEFINE new == Len(log')
<1>4. PICK thread \in Nat, reply \in Nat :
        thread <= Len(log) /\ reply <= Len(log) /\ Post(u, thread, reply, mention)
  BY <1>3
<1>5. /\ Grows /\ new \in Events /\ new \notin Posted /\ Posted' = Posted \cup {new}
      /\ log'[new].by = u
  <2>1. u \in Users \cup {Bot}
    OBVIOUS
  <2>2. LogOK
    BY <1>1
  <2>3. /\ Grows /\ new \in Events /\ new \notin Posted /\ Posted' = Posted \cup {new}
        /\ log'[new] = [by |-> u, thread |-> thread, reply |-> reply, mention |-> mention]
    BY <1>4, <2>1, <2>2, PostGrows, ZenonT(30)
  <2> QED
    BY <2>3
<1>6. /\ at' = [at EXCEPT ![new] = "root"]
      /\ UNCHANGED <<direct, roomType, rootOf, active, asDirect, buffer, batches, welcomed, greeting,
                     greetings, misread, restarts, faults>>
  BY DEF Say, Goto, caches, welcome
<1> HIDE DEF new
<1>7. \A e \in Events : at'[e] = IF e = new THEN "root" ELSE at[e]
  BY <1>1, <1>6 DEF RoomTyped
<1>8. at[new] = "none" /\ rootOf[new] = None
  BY <1>1, <1>5 DEF RoomTyped
<1>9. RoomTyped'
  <2>1. at' \in [Events -> Places]
    BY <1>1, <1>6 DEF RoomTyped, Places
  <2> QED
    BY <1>1, <1>5, <1>6, <1>7, <2>1 DEF RoomTyped
<1>10. RootKnown'
  BY <1>6, <1>7 DEF RoomInv, RootKnown
<1>11. InPlace'
  BY <1>6, <1>7, <1>8, InPlaceStays
<1>12. WhenCalled'
  <2>1. u # Bot
    BY Sizes
  <2>2. \A t \in active : Begun(t)
    BY DEF RoomInv, WhenCalled
  <2>3. \A b \in batches : Same(b, b)
    BY DEF Same
  <2> QED
    BY <1>5, <1>6, <1>7, <2>1, <2>2, <2>3, WhenCalledStays
<1>13. Welcome'
  BY <1>6 DEF RoomInv, Welcome
<1>14. RootsAgree'
  BY <1>5, <1>6, <1>8, RootsStay
<1> QED
  BY <1>5, <1>9, <1>10, <1>11, <1>12, <1>13, <1>14 DEF RoomInv, Grows

(* A step that leaves the log, the roots, the buffers and the questions.      *)
LEMMA QuietStep ==
  ASSUME RoomInv, UNCHANGED <<log, rootOf, buffer, batches, misread, restarts>>,
         RoomTyped', Welcome', asDirect \subseteq asDirect',
         \A e \in Events : at'[e] = "buffered" <=> at[e] = "buffered",
         \A e \in Events : at'[e] \in {"room", "guard", "session"} => at[e] \in {"room", "guard", "session"},
         \A e \in Events : at'[e] = "session" => at[e] = "session" \/ Begun(rootOf[e]) \/ Calling(e)',
         \A t \in active' : Begun(t)
  PROVE  RoomInv'
<1>1. LogOK
  BY DEF RoomInv
<1>2. Grows /\ Posted' = Posted
  BY <1>1, SameLog
<1>3. RootsAgree'
  BY <1>2, RootsStay
<1>4. InPlace'
  BY InPlaceStays
<1>5. WhenCalled'
  <2>1. \A b \in batches : Same(b, b)
    BY DEF Same
  <2> QED
    BY <1>2, <2>1, WhenCalledStays
<1>6. RootKnown'
  BY DEF RoomInv, RootKnown
<1> QED
  BY <1>2, <1>3, <1>4, <1>5, <1>6 DEF RoomInv, Grows

LEMMA OthersJoinStep ==
  ASSUME RoomInv, OthersJoin
  PROVE  RoomInv'
<1>1. /\ direct' = FALSE /\ faults' \in 0..MaxFaults /\ restarts \in 0..faults'
      /\ UNCHANGED <<log, roomType, rootOf, active, at, asDirect, buffer, batches, welcomed, greeting,
                     greetings, misread, restarts>>
  BY Faulty DEF OthersJoin, caches, handling, welcome, RoomInv
<1>2. RoomTyped'
  BY <1>1 DEF RoomInv, RoomTyped, Posted
<1>3. Welcome'
  BY <1>1 DEF RoomInv, Welcome
<1>4. \A t \in active : Begun(t)
  BY DEF RoomInv, WhenCalled
<1> QED
  BY <1>1, <1>2, <1>3, <1>4, QuietStep

LEMMA LeaveStep ==
  ASSUME RoomInv, NEW e \in Posted, Leave(e)
  PROVE  RoomInv'
<1>1. /\ at' = [at EXCEPT ![e] = "over"] /\ at[e] \in {"room", "session"} /\ faults' \in 0..MaxFaults /\ restarts \in 0..faults'
      /\ UNCHANGED <<log, direct, roomType, rootOf, active, asDirect, buffer, batches, welcomed, greeting,
                     greetings, misread, restarts>>
  BY Faulty DEF Leave, Goto, caches, welcome, RoomInv
<1>2. at' \in [Events -> Places] /\ \A x \in Events : at'[x] = IF x = e THEN "over" ELSE at[x]
  BY <1>1 DEF RoomInv, RoomTyped, Places
<1>3. RoomTyped'
  BY <1>1, <1>2 DEF RoomInv, RoomTyped, Posted
<1>4. Welcome'
  BY <1>1 DEF RoomInv, Welcome
<1>5. \A t \in active : Begun(t)
  BY DEF RoomInv, WhenCalled
<1> QED
  BY <1>1, <1>2, <1>3, <1>4, <1>5, QuietStep

(* The room is looked up, perhaps in vain.                                   *)
LEMMA RoomInfo ==
  ASSUME RoomInv, NEW kind, GetRoomInfo(kind)
  PROVE  /\ kind \in {"direct", "group"} \/ kind = roomType
         /\ roomType' \in {"none", "direct", "group"} /\ faults' \in 0..MaxFaults /\ restarts \in 0..faults'
<1>1. faults' \in 0..MaxFaults /\ restarts \in 0..faults'
  BY Faulty DEF GetRoomInfo, RoomInv
<1> QED
  BY <1>1 DEF GetRoomInfo, Kind, RoomInv, RoomTyped

LEMMA LookAtRoomStep ==
  ASSUME RoomInv, NEW e \in Posted, LookAtRoom(e)
  PROVE  RoomInv'
<1>1. PICK kind \in {"direct", "group"} :
        /\ GetRoomInfo(kind)
        /\ at' = [at EXCEPT ![e] = IF kind = "direct" THEN "session" ELSE "guard"]
        /\ asDirect' = IF kind = "direct" THEN asDirect \cup {e} ELSE asDirect
  BY DEF LookAtRoom, Goto
<1>2. /\ at[e] = "room"
      /\ UNCHANGED <<log, direct, rootOf, active, buffer, batches, welcomed, greeting,
                     greetings, misread, restarts>>
  BY DEF LookAtRoom, welcome
<1>3. e \in Events
  BY PostedIs DEF RoomInv
<1>4. at' \in [Events -> Places]
      /\ \A x \in Events : at'[x] = IF x # e THEN at[x] ELSE IF kind = "direct" THEN "session" ELSE "guard"
  BY <1>1, <1>3 DEF RoomInv, RoomTyped, Places
<1>5. asDirect' \in SUBSET Events /\ asDirect \subseteq asDirect' /\ (kind = "direct" => e \in asDirect')
  BY <1>1, <1>3 DEF RoomInv, RoomTyped
<1>6. RoomTyped'
  <2>1. roomType' \in {"none", "direct", "group"} /\ faults' \in 0..MaxFaults /\ restarts \in 0..faults'
    BY <1>1, RoomInfo
  <2> QED
    BY <1>2, <1>4, <1>5, <2>1 DEF RoomInv, RoomTyped, Posted
<1>7. Welcome'
  BY <1>2 DEF RoomInv, Welcome
<1>8. \A t \in active : Begun(t)
  BY DEF RoomInv, WhenCalled
<1>9. kind = "direct" => Calling(e)'
  BY <1>5 DEF Calling
<1>10. \A x \in Events : at'[x] = "session" => at[x] = "session" \/ Begun(rootOf[x]) \/ Calling(x)'
  BY <1>4, <1>9
<1> QED
  BY <1>2, <1>4, <1>5, <1>6, <1>7, <1>8, <1>10, QuietStep

(* Where the oracle is active or spoke it has been asked.                     *)
LEMMA SpokenIsBegun ==
  ASSUME RoomInv, NEW e \in Posted, rootOf[e] # None, BotSpoke(e)
  PROVE  Begun(rootOf[e])
<1>1. PICK d \in Posted : log[d].by = Bot /\ rootOf[e] = IF log[d].thread # None THEN log[d].thread ELSE log[d].reply
  BY DEF BotSpoke
<1>2. log[d].thread = log[d].reply /\ (log[d].thread # None => Begun(log[d].thread))
  BY <1>1 DEF RoomInv, WhenCalled
<1> QED
  BY <1>1, <1>2

LEMMA ShouldAgentRespondStep ==
  ASSUME RoomInv, NEW e \in Posted, ShouldAgentRespond(e)
  PROVE  RoomInv'
<1>1. /\ at[e] = "guard" /\ faults' \in 0..MaxFaults /\ restarts \in 0..faults'
      /\ UNCHANGED <<log, direct, roomType, rootOf, asDirect, buffer, batches, welcomed, greeting,
                     greetings, misread, restarts>>
  BY Faulty DEF ShouldAgentRespond, welcome, RoomInv
<1>2. PICK place \in {"session", "over"} : at' = [at EXCEPT ![e] = place] /\ (place = "session" => Called(e))
  BY DEF ShouldAgentRespond, Goto
<1>3. e \in Events /\ rootOf[e] # None /\ rootOf[e] \in Events
  <2>1. e \in Events /\ Posted \subseteq Events
    BY PostedIs DEF RoomInv
  <2>2. rootOf[e] # None
    BY <1>1, <2>1 DEF RoomInv, RootKnown
  <2> QED
    BY <2>1, <2>2 DEF RoomInv, RoomTyped
<1>4. at' \in [Events -> Places] /\ \A x \in Events : at'[x] = IF x # e THEN at[x] ELSE place
  BY <1>2, <1>3 DEF RoomInv, RoomTyped, Places
<1>5. active' = active \/ (active' = active \cup {rootOf[e]} /\ BotSpoke(e))
  BY DEF ShouldAgentRespond
<1>6. active' \in SUBSET Events /\ \A t \in active' : Begun(t)
  BY <1>3, <1>5, SpokenIsBegun DEF RoomInv, RoomTyped, WhenCalled
<1>7. RoomTyped'
  BY <1>1, <1>4, <1>6 DEF RoomInv, RoomTyped, Posted
<1>8. Welcome'
  BY <1>1 DEF RoomInv, Welcome
<1>9. place = "session" => Begun(rootOf[e]) \/ Calling(e)'
  <2>1. Called(e) => Begun(rootOf[e]) \/ Calling(e)
    BY <1>3, SpokenIsBegun DEF Called, Calling, RoomInv, WhenCalled
  <2>2. Calling(e) => Calling(e)'
    BY <1>1 DEF Calling, RepliesToBot
  <2> QED
    BY <1>2, <2>1, <2>2
<1>10. \A x \in Events : at'[x] = "session" => at[x] = "session" \/ Begun(rootOf[x]) \/ Calling(x)'
  BY <1>4, <1>9
<1> QED
  BY <1>1, <1>2, <1>4, <1>6, <1>7, <1>8, <1>10, QuietStep

LEMMA BotJoinedStep ==
  ASSUME RoomInv, BotJoined
  PROVE  RoomInv'
<1>1. /\ ~welcomed /\ welcomed' = TRUE /\ greeting' = greeting + 1
      /\ UNCHANGED <<log, direct, roomType, rootOf, active, at, asDirect, buffer, batches,
                     greetings, misread, restarts, faults>>
  BY DEF BotJoined, caches, handling
<1>2. RoomTyped'
  BY <1>1 DEF RoomInv, RoomTyped, Posted
<1>3. Welcome'
  BY <1>1 DEF RoomInv, RoomTyped, Welcome
<1>4. \A t \in active : Begun(t)
  BY DEF RoomInv, WhenCalled
<1> QED
  BY <1>1, <1>2, <1>3, <1>4, QuietStep

LEMMA ExpireStep ==
  ASSUME RoomInv, Expire
  PROVE  RoomInv'
<1>1. /\ roomType' \in {"none", roomType} /\ active' \subseteq active /\ faults' \in 0..MaxFaults /\ restarts \in 0..faults'
      /\ UNCHANGED <<log, direct, rootOf, at, asDirect, buffer, batches, welcomed, greeting,
                     greetings, misread, restarts>>
  BY Faulty DEF Expire, handling, welcome, RoomInv
<1>2. RoomTyped'
  BY <1>1 DEF RoomInv, RoomTyped, Posted
<1>3. Welcome'
  BY <1>1 DEF RoomInv, Welcome
<1>4. \A t \in active' : Begun(t)
  BY <1>1 DEF RoomInv, WhenCalled
<1> QED
  BY <1>1, <1>2, <1>3, <1>4, QuietStep

(* What a handler that looks for a thread's root finds.                       *)
LEMMA RootFound ==
  ASSUME RoomInv, NEW e \in Posted, GetThreadRoot(e)
  PROVE  \E root \in Posted, path \in SUBSET Posted :
           /\ rootOf' = [x \in Events |-> IF x \in path \cup {e} THEN root ELSE rootOf[x]]
           /\ at' = [at EXCEPT ![e] = "room"]
           /\ \A x \in path : rootOf[x] \in {None, root}
           /\ (misread' = misread) \/ misread'
           /\ ~misread' => \A x \in path \cup {e} : Root[x] = root
<1>1. LogOK /\ RoomTyped /\ RootsAgree /\ Posted = 1..Len(log) /\ Len(log) \in Nat /\ Posted \subseteq Events
  BY PostedIs DEF RoomInv
<1>2. \A a \in Posted : log[a].thread \in 0..(a - 1) /\ log[a].reply \in 0..(a - 1)
  BY <1>1 DEF LogOK, Earlier
<1>3. \A a \in Posted :
        /\ Root[a] \in Posted
        /\ Root[a] = IF log[a].thread # None THEN log[a].thread
                     ELSE IF log[a].reply = None THEN a ELSE Root[log[a].reply]
  BY <1>1, RootIs
<1> HIDE DEF Root, Walk
<1>4. CASE log[e].thread # None \/ log[e].reply = None
  <2>1. Found(e, {}, Root[e]) /\ misread' = misread
    BY <1>4, Zenon DEF GetThreadRoot
  <2>2. rootOf' = [x \in Events |-> IF x \in {} \cup {e} THEN Root[e] ELSE rootOf[x]]
        /\ at' = [at EXCEPT ![e] = "room"]
    BY <2>1 DEF Found, Goto
  <2>3. {} \in SUBSET Posted /\ \A x \in {} \cup {e} : Root[x] = Root[e]
    OBVIOUS
  <2> QED
    BY <1>3, <2>1, <2>2, <2>3
<1>5. CASE log[e].thread = None /\ log[e].reply # None
  <2> DEFINE p == log[e].reply
             path == Walk[p]
  <2>1. p \in Posted /\ Root[e] = Root[p]
    BY <1>1, <1>2, <1>3, <1>5 DEF None
  <2>2. PICK f \in Posted : Walked(p, path, f)
    BY <1>1, <2>1, WalkEnds
  <2>3. \/ Found(e, path, RootAt(Top(path))) /\ misread' = misread
        \/ \E a \in {b \in path : rootOf[b] = None} :
              misread' = TRUE /\ Found(e, {b \in path : b >= a}, a)
    BY <1>5, Zenon DEF GetThreadRoot
  <2> HIDE DEF path, p
  <2>4. /\ path \subseteq Posted /\ p \in path /\ f \in path /\ Known(f)
        /\ \A b \in path : f <= b /\ (b # f => ~Known(b)) /\ Root[b] = Root[p]
    BY <2>2 DEF Walked
  <2>5. Top(path) = f
    <3>1. \A a \in path : (\A b \in path : a <= b) => a = f
      BY <1>1, <2>4
    <3> QED
      BY <2>4, <3>1 DEF Top
  <2>6. \A x \in path : x # f => rootOf[x] = None
    BY <2>4 DEF Known
  <2>7. CASE Found(e, path, RootAt(Top(path))) /\ misread' = misread
    <3> DEFINE root == RootAt(f)
    <3>1. root \in Posted
      BY <1>1, <1>2 DEF RootAt, RoomTyped, None
    <3>2. rootOf[f] \in {None, root}
      BY DEF RootAt
    <3>3. ~misread => Root[f] = root
      BY <1>1, <1>3, <2>4 DEF RootsAgree, RootAt, Known
    <3>4. Found(e, path, root)
      BY <2>5, <2>7
    <3> HIDE DEF root
    <3>5. rootOf' = [x \in Events |-> IF x \in path \cup {e} THEN root ELSE rootOf[x]]
          /\ at' = [at EXCEPT ![e] = "room"]
      BY <3>4 DEF Found, Goto
    <3>6. \A x \in path : rootOf[x] \in {None, root}
      BY <2>6, <3>2
    <3>7. ~misread' => \A x \in path \cup {e} : Root[x] = root
      BY <2>1, <2>4, <2>7, <3>3
    <3> QED
      BY <2>4, <2>7, <3>1, <3>5, <3>6, <3>7
  <2>8. ASSUME NEW a \in {b \in path : rootOf[b] = None}, misread' = TRUE, Found(e, {b \in path : b >= a}, a)
        PROVE  \E root \in Posted, those \in SUBSET Posted :
                 /\ rootOf' = [x \in Events |-> IF x \in those \cup {e} THEN root ELSE rootOf[x]]
                 /\ at' = [at EXCEPT ![e] = "room"]
                 /\ \A x \in those : rootOf[x] \in {None, root}
                 /\ (misread' = misread) \/ misread'
                 /\ ~misread' => \A x \in those \cup {e} : Root[x] = root
    <3> DEFINE those == {b \in path : b >= a}
    <3>1. those \in SUBSET Posted /\ a \in Posted
      BY <2>4, <2>8
    <3>2. \A x \in those : rootOf[x] \in {None, a}
      <4> SUFFICES ASSUME NEW x \in those, x = f
                   PROVE  rootOf[x] = None
        BY <2>6
      <4>1. f <= a /\ f >= a /\ f \in Nat /\ a \in Nat
        BY <1>1, <2>4, <3>1
      <4>2. f = a
        BY <4>1
      <4> QED
        BY <4>2
    <3>3. Found(e, those, a)
      BY <2>8
    <3> HIDE DEF those
    <3>4. rootOf' = [x \in Events |-> IF x \in those \cup {e} THEN a ELSE rootOf[x]]
          /\ at' = [at EXCEPT ![e] = "room"]
      BY <3>3 DEF Found, Goto
    <3> QED
      BY <2>8, <3>1, <3>2, <3>4
  <2> QED
    BY <2>3, <2>7, <2>8
<1> QED
  BY <1>4, <1>5

LEMMA GetThreadRootStep ==
  ASSUME RoomInv, NEW e \in Posted, GetThreadRoot(e)
  PROVE  RoomInv'
<1>1. /\ at[e] = "root" /\ faults' \in 0..MaxFaults /\ restarts \in 0..faults'
      /\ UNCHANGED <<log, direct, roomType, active, asDirect, buffer, batches, welcomed, greeting,
                     greetings, restarts>>
  <2>1. at[e] = "root" /\ UNCHANGED <<log, direct, roomType, active, asDirect, buffer, batches, welcomed, greeting,
                     greetings, restarts>>
    BY DEF GetThreadRoot, welcome
  <2>2. Fault \/ UNCHANGED faults
    <3> HIDE DEF Fault, Found, Walk, Root, Known, RootAt, Top
    <3> QED
      BY Zenon DEF GetThreadRoot
  <2> QED
    BY <2>1, <2>2, Faulty DEF RoomInv
<1>2. PICK root \in Posted, path \in SUBSET Posted :
        /\ rootOf' = [x \in Events |-> IF x \in path \cup {e} THEN root ELSE rootOf[x]]
        /\ at' = [at EXCEPT ![e] = "room"]
        /\ \A x \in path : rootOf[x] \in {None, root}
        /\ (misread' = misread) \/ misread'
        /\ ~misread' => \A x \in path \cup {e} : Root[x] = root
  BY RootFound
<1>3. LogOK /\ RoomTyped /\ Posted \subseteq Events /\ \A x \in Posted : x # None
  BY PostedIs, Sizes DEF RoomInv
<1>4. Grows /\ Posted' = Posted
  BY <1>1, <1>3, SameLog
<1>5. at' \in [Events -> Places] /\ \A x \in Events : at'[x] = IF x = e THEN "room" ELSE at[x]
  BY <1>2, <1>3 DEF RoomTyped, Places
<1>6. \A x \in Events : rootOf'[x] = IF x \in path \cup {e} THEN root ELSE rootOf[x]
  BY <1>2
<1>7. \A x \in Events : x # e /\ rootOf[x] # None => rootOf'[x] = rootOf[x]
  BY <1>2, <1>6
<1>8. RoomTyped'
  <2>1. rootOf' \in [Events -> Posted' \cup {None}]
    BY <1>2, <1>3, <1>4 DEF RoomTyped
  <2>2. \A x \in Events : rootOf'[x] # None => x \in Posted'
    BY <1>3, <1>4, <1>6 DEF RoomTyped
  <2>3. \A x \in Events : at'[x] # "none" => x \in Posted'
    BY <1>3, <1>4, <1>5 DEF RoomTyped
  <2>4. misread' \in BOOLEAN
    <3>1. (misread' = misread) \/ (misread' = TRUE)
      <4> HIDE DEF Fault, Found, Walk, Root, Known, RootAt, Top
      <4> QED
        BY Zenon DEF GetThreadRoot
    <3> QED
      BY <1>3, <3>1 DEF RoomTyped
  <2> QED
    BY <1>1, <1>3, <1>4, <1>5, <2>1, <2>2, <2>3, <2>4 DEF RoomTyped
<1>9. RootKnown'
  BY <1>3, <1>5, <1>6, <1>7 DEF RoomInv, RootKnown
<1>10. InPlace'
  BY <1>1, <1>5, <1>7, InPlaceStays
<1>11. WhenCalled'
  <2>1. \A t \in active : Begun(t)
    BY DEF RoomInv, WhenCalled
  <2>2. \A b \in batches : Same(b, b)
    BY DEF Same
  <2>3. \A x \in Events : at'[x] = "session" => at[x] = "session" /\ rootOf'[x] = rootOf[x]
    BY <1>5, <1>7 DEF RoomInv, RootKnown
  <2> QED
    BY <1>1, <1>4, <2>1, <2>2, <2>3, WhenCalledStays
<1>12. Welcome'
  BY <1>1 DEF RoomInv, Welcome
<1>13. RootsAgree'
  <2>1. ~misread' => \A x \in Posted : rootOf'[x] \in {None, rootOf[x], Root[x]}
    <3> HIDE DEF Root
    <3> QED
      BY <1>2, <1>3, <1>6
  <2> QED
    BY <1>2, <1>4, <2>1, RootsStay
<1> QED
  BY <1>4, <1>8, <1>9, <1>10, <1>11, <1>12, <1>13 DEF RoomInv, Grows

(* The events of a buffer and of a question.                                 *)
LEMMA Handled ==
  ASSUME RoomInv
  PROVE  /\ \A t \in Events : /\ buffer[t] \in Seq(Events)
                              /\ \A e \in Range(buffer[t]) : e \in Events /\ e \in Posted
                              /\ buffer[t] # << >> => Range(buffer[t]) # {}
         /\ \A b \in batches : /\ b.events \in Seq(Events) /\ Range(b.events) # {}
                              /\ \A e \in Range(b.events) : e \in Events /\ e \in Posted
<1>1. RoomTyped /\ InPlace
  BY DEF RoomInv
<1>2. \A s \in Seq(Events) : s # << >> => Range(s) # {}
  BY Members
<1>3. ASSUME NEW t \in Events
      PROVE  /\ buffer[t] \in Seq(Events)
             /\ \A e \in Range(buffer[t]) : e \in Events /\ e \in Posted
  <2>1. buffer[t] \in Seq(Events) /\ \A e \in Range(buffer[t]) : at[e] = "buffered"
    BY <1>1 DEF RoomTyped, InPlace, InBuffer
  <2>2. \A e \in Range(buffer[t]) : e \in Events
    BY <2>1, Members
  <2> QED
    BY <1>1, <2>1, <2>2 DEF RoomTyped
<1>4. ASSUME NEW b \in batches
      PROVE  /\ b.events \in Seq(Events) /\ b.events # << >>
             /\ \A e \in Range(b.events) : e \in Events /\ e \in Posted
  <2>1. b.events \in Seq(Events) /\ b.events # << >> /\ \A e \in Range(b.events) : at[e] = "buffered"
    BY <1>1 DEF RoomTyped, Questions, InPlace, InBatch
  <2>2. \A e \in Range(b.events) : e \in Events
    BY <2>1, Members
  <2> QED
    BY <1>1, <2>1, <2>2 DEF RoomTyped
<1> QED
  BY <1>2, <1>3, <1>4

LEMMA BufferStep ==
  ASSUME RoomInv, NEW e \in Posted, Buffer(e)
  PROVE  RoomInv'
<1>1. /\ at[e] = "session"
      /\ buffer' = [buffer EXCEPT ![rootOf[e]] = Append(@, e)]
      /\ at' = [at EXCEPT ![e] = "buffered"]
      /\ UNCHANGED <<log, direct, roomType, rootOf, active, asDirect, batches, welcomed, greeting,
                     greetings, misread, restarts, faults>>
  BY DEF Buffer, Goto, caches, welcome
<1>2. LogOK /\ RoomTyped /\ InPlace /\ WhenCalled /\ e \in Events /\ Posted \subseteq Events
  BY PostedIs DEF RoomInv
<1> DEFINE t == rootOf[e]
<1>3. t \in Events
  BY <1>1, <1>2 DEF RoomInv, RootKnown, RoomTyped
<1>4. Grows /\ Posted' = Posted
  BY <1>1, <1>2, SameLog
<1>5. at' \in [Events -> Places] /\ \A x \in Events : at'[x] = IF x = e THEN "buffered" ELSE at[x]
  BY <1>1, <1>2 DEF RoomTyped, Places
<1> HIDE DEF t
<1>6. buffer' \in [Events -> Seq(Events)]
      /\ \A u \in Events : buffer'[u] = IF u = t THEN Append(buffer[t], e) ELSE buffer[u]
  <2> HIDE DEF Events
  <2>1. Append(buffer[t], e) \in Seq(Events)
    BY <1>2, <1>3 DEF RoomTyped
  <2>2. buffer' = [buffer EXCEPT ![t] = Append(buffer[t], e)]
    BY <1>1 DEF t
  <2> QED
    BY <1>2, <1>3, <2>1, <2>2 DEF RoomTyped
<1>7. Range(buffer'[t]) = Range(buffer[t]) \cup {e} /\ buffer'[t] # << >>
  <2>1. buffer[t] \in Seq(Events)
    BY <1>2, <1>3 DEF RoomTyped
  <2> HIDE DEF Events
  <2>2. buffer'[t] = Append(buffer[t], e)
    BY <1>3, <1>6
  <2> QED
    BY <1>2, <2>1, <2>2, Appended
<1>8. /\ \A u \in Events : \A x \in Range(buffer[u]) : x \in Events /\ x # e
      /\ \A b \in batches : \A x \in Range(b.events) : x \in Events /\ x # e
  BY <1>1, <1>2, Handled DEF InPlace, InBuffer, InBatch
<1>9. RoomTyped'
  BY <1>1, <1>2, <1>4, <1>5, <1>6 DEF RoomTyped
<1>10. RootKnown'
  BY <1>1, <1>5 DEF RoomInv, RootKnown
<1>11. InPlace'
  <2>1. ASSUME NEW u \in Events, NEW x \in Range(buffer'[u])
        PROVE  at'[x] = "buffered" /\ rootOf'[x] = u
    <3>1. CASE x = e
      <4>1. u = t
        BY <1>6, <1>8, <2>1, <3>1
      <4> QED
        BY <1>1, <1>2, <1>5, <3>1, <4>1 DEF t
    <3>2. CASE x # e
      <4>1. x \in Range(buffer[u])
        BY <1>6, <1>7, <2>1, <3>2
      <4> QED
        BY <1>1, <1>2, <1>5, <1>8, <3>2, <4>1 DEF InPlace, InBuffer
    <3> QED
      BY <3>1, <3>2
  <2>2. ASSUME NEW b \in batches
        PROVE  InBatch(b)'
    <3>1. InBatch(b)
      BY <1>2 DEF InPlace
    <3>2. \A x \in Range(b.events) : at'[x] = "buffered"
      BY <1>5, <1>8, <3>1 DEF InBatch
    <3>3. \A u \in Events : Range(b.events) \cap Range(buffer'[u]) = {}
      <4> TAKE u \in Events
      <4>1. Range(b.events) \cap Range(buffer[u]) = {} /\ e \notin Range(b.events)
        BY <1>8, <3>1 DEF InBatch
      <4> QED
        BY <1>6, <1>7, <4>1
    <3> QED
      BY <1>1, <3>1, <3>2, <3>3 DEF InBatch
  <2>3. ASSUME restarts' = 0, NEW x \in Events, at'[x] = "buffered"
        PROVE  Held(x)'
    <3>1. CASE x = e
      BY <1>3, <1>7, <3>1 DEF Held
    <3>2. CASE x # e
      <4>1. Held(x)
        BY <1>1, <1>2, <1>5, <2>3, <3>2 DEF InPlace
      <4>2. ASSUME NEW u \in Events, x \in Range(buffer[u])
            PROVE  x \in Range(buffer'[u])
        BY <1>6, <1>7, <4>2
      <4> QED
        BY <1>1, <4>1, <4>2 DEF Held
    <3> QED
      BY <3>1, <3>2
  <2> QED
    BY <1>1, <2>1, <2>2, <2>3 DEF InPlace, InBuffer
<1>12. WhenCalled'
  <2>1. \A d : Calling(d)' <=> Calling(d)
    BY <1>1 DEF Calling, RepliesToBot
  <2>2. \A u : Begun(u)' <=> Begun(u)
    BY <1>1 DEF Begun
  <2>3. \A u \in Events : Begun(u)' => BegunWell(u)'
    BY <1>1, <1>2, <2>1, <2>2 DEF WhenCalled, BegunWell
  <2>4. ASSUME NEW u \in Events, buffer'[u] # << >>
        PROVE  Begun(u)' \/ \E d \in Range(buffer'[u]) : Calling(d)'
    <3>1. CASE u = t
      <4>1. Begun(t) \/ Calling(e)
        BY <1>1, <1>2 DEF WhenCalled, t
      <4> QED
        BY <1>7, <2>1, <2>2, <3>1, <4>1
    <3>2. CASE u # t
      BY <1>2, <1>6, <2>1, <2>2, <2>4, <3>2 DEF WhenCalled
    <3> QED
      BY <3>1, <3>2
  <2>5. \A x \in Events : at'[x] = "session" => Begun(rootOf[x])' \/ Calling(x)'
    <3> SUFFICES ASSUME NEW x \in Events, at'[x] = "session"
                 PROVE  Begun(rootOf[x])' \/ Calling(x)'
      OBVIOUS
    <3>1. Begun(rootOf[x]) \/ Calling(x)
      BY <1>2, <1>5 DEF WhenCalled
    <3>2. Begun(rootOf[x]) => Begun(rootOf[x])'
      BY <1>1 DEF Begun
    <3> QED
      BY <2>1, <3>1, <3>2
  <2>6. \A u \in active' : Begun(u)'
    BY <1>1, <1>2, <2>2 DEF WhenCalled
  <2>7. \A x \in Posted' : log'[x].by = Bot =>
          log'[x].thread = log'[x].reply /\ (log'[x].thread # None => Begun(log[x].thread)')
    <3> SUFFICES ASSUME NEW x \in Posted, log[x].by = Bot
                 PROVE  log[x].thread = log[x].reply /\ (log[x].thread # None => Begun(log[x].thread)')
      BY <1>1, <1>4
    <3>1. Begun(log[x].thread) => Begun(log[x].thread)'
      BY <1>1 DEF Begun
    <3> QED
      BY <1>2, <3>1 DEF WhenCalled
  <2> QED
    BY <1>4, <2>3, <2>4, <2>5, <2>6, <2>7 DEF WhenCalled
<1>13. Welcome'
  BY <1>1 DEF RoomInv, Welcome
<1>14. RootsAgree'
  BY <1>1, <1>4, RootsStay
<1> QED
  BY <1>4, <1>9, <1>10, <1>11, <1>12, <1>13, <1>14 DEF RoomInv, Grows

LEMMA FlushStep ==
  ASSUME RoomInv, NEW t \in Events, Flush(t)
  PROVE  RoomInv'
<1>1. PICK kind \in {"direct", "group"} :
        /\ GetRoomInfo(kind)
        /\ batches' = batches \cup {[thread |-> t, events |-> buffer[t], group |-> kind = "group", done |-> FALSE]}
  BY DEF Flush
<1>2. /\ buffer[t] # << >>
      /\ buffer' = [buffer EXCEPT ![t] = << >>]
      /\ UNCHANGED <<log, direct, rootOf, active, at, asDirect, welcomed, greeting, greetings, misread, restarts>>
  BY DEF Flush, welcome
<1>3. LogOK /\ RoomTyped /\ InPlace /\ WhenCalled /\ Posted \subseteq Events
  BY PostedIs DEF RoomInv
<1>4. Grows /\ Posted' = Posted
  BY <1>2, <1>3, SameLog
<1>5. /\ buffer[t] \in Seq(Events) /\ Range(buffer[t]) # {}
      /\ \A e \in Range(buffer[t]) : e \in Events /\ e \in Posted /\ at[e] = "buffered" /\ rootOf[e] = t
  BY <1>2, <1>3, Handled DEF InPlace, InBuffer
<1> DEFINE group == kind = "group"
           q == [thread |-> t, events |-> buffer[t], group |-> group, done |-> FALSE]
<1>6. group \in BOOLEAN
  OBVIOUS
<1>7. batches' = batches \cup {q}
  BY <1>1
<1> HIDE DEF group
<1>8. q \in Questions /\ q.thread = t /\ q.events = buffer[t]
  <2> HIDE DEF Events
  <2> QED
    BY <1>5, <1>6 DEF Questions
<1> HIDE DEF q
<1>9. buffer' \in [Events -> Seq(Events)] /\ \A u \in Events : buffer'[u] = IF u = t THEN << >> ELSE buffer[u]
  <2> HIDE DEF Events
  <2> QED
    BY <1>2, <1>3 DEF RoomTyped
<1>10. Range(<< >>) = {}
  BY DEF Range
<1>11. t \in Posted
  <2>1. PICK e \in Range(buffer[t]) : TRUE
    BY <1>5
  <2>2. e \in Events /\ rootOf[e] = t /\ t # None
    BY <1>5, Sizes
  <2> QED
    BY <1>3, <2>2 DEF RoomTyped
<1>12. RoomTyped'
  <2>1. roomType' \in {"none", "direct", "group"} /\ faults' \in 0..MaxFaults /\ restarts \in 0..faults'
    BY <1>1, RoomInfo
  <2>2. \A b \in batches' : b \in Questions /\ b.events # << >> /\ b.thread \in Posted'
    BY <1>2, <1>3, <1>4, <1>7, <1>8, <1>11 DEF RoomTyped
  <2> QED
    BY <1>2, <1>3, <1>4, <1>9, <2>1, <2>2 DEF RoomTyped
<1>13. RootKnown'
  BY <1>2 DEF RoomInv, RootKnown
<1>14. InPlace'
  <2>1. \A u \in Events : InBuffer(u)'
    BY <1>2, <1>3, <1>9, <1>10 DEF InPlace, InBuffer
  <2>2. ASSUME NEW u \in Events, u # t
        PROVE  Range(buffer[t]) \cap Range(buffer[u]) = {}
    BY <1>3, <2>2 DEF InPlace, InBuffer
  <2>3. \A b \in batches : Range(b.events) \cap Range(buffer[t]) = {}
    BY <1>3 DEF InPlace, InBatch
  <2>4. ASSUME NEW b \in batches'
        PROVE  InBatch(b)'
    <3>1. \A e \in Range(b.events) : at'[e] = "buffered"
      BY <1>2, <1>3, <1>5, <1>7, <1>8 DEF InPlace, InBatch
    <3>2. \A u \in Events : Range(b.events) \cap Range(buffer'[u]) = {}
      BY <1>3, <1>7, <1>8, <1>9, <1>10, <2>2 DEF InPlace, InBatch
    <3>3. \A c \in batches' : Range(b.events) \cap Range(c.events) # {} => b = c
      BY <1>3, <1>7, <1>8, <2>3 DEF InPlace, InBatch
    <3> QED
      BY <3>1, <3>2, <3>3 DEF InBatch
  <2>5. ASSUME restarts' = 0, NEW e \in Events, at'[e] = "buffered"
        PROVE  Held(e)'
    <3>1. Held(e)
      BY <1>2, <1>3, <2>5 DEF InPlace
    <3> QED
      BY <1>7, <1>8, <1>9, <3>1 DEF Held
  <2> QED
    BY <2>1, <2>4, <2>5 DEF InPlace
<1>15. WhenCalled'
  <2>1. \A d : Calling(d)' <=> Calling(d)
    BY <1>2 DEF Calling, RepliesToBot
  <2>2. \A u : (\E c \in batches' : c.thread = u) <=> u = t \/ Begun(u)
    BY <1>7, <1>8 DEF Begun
  <2>3. ASSUME NEW u \in Events, Begun(u)'
        PROVE  BegunWell(u)'
    <3>1. CASE Begun(u)
      <4>1. BegunWell(u)
        BY <1>3, <3>1 DEF WhenCalled
      <4> QED
        BY <1>7, <2>1, <4>1 DEF BegunWell
    <3>2. CASE u = t /\ ~Begun(u)
      <4>1. \E d \in Range(buffer[t]) : Calling(d)
        BY <1>2, <1>3, <3>2 DEF WhenCalled
      <4> QED
        BY <1>7, <1>8, <2>1, <3>2, <4>1 DEF BegunWell
    <3> QED
      BY <2>2, <2>3, <3>1, <3>2 DEF Begun
  <2>4. \A u \in Events : buffer'[u] # << >> =>
          (\E c \in batches' : c.thread = u) \/ \E d \in Range(buffer'[u]) : Calling(d)'
    BY <1>3, <1>9, <2>1, <2>2 DEF WhenCalled
  <2>5. \A x \in Events : at'[x] = "session" => (\E c \in batches' : c.thread = rootOf'[x]) \/ Calling(x)'
    BY <1>2, <1>3, <2>1, <2>2 DEF WhenCalled
  <2>6. \A u \in active' : \E c \in batches' : c.thread = u
    BY <1>2, <1>3, <2>2 DEF WhenCalled
  <2>7. \A x \in Posted' : log'[x].by = Bot =>
          /\ log'[x].thread = log'[x].reply
          /\ log'[x].thread # None => \E c \in batches' : c.thread = log'[x].thread
    BY <1>2, <1>3, <1>4, <2>2 DEF WhenCalled
  <2> QED
    BY <2>3, <2>4, <2>5, <2>6, <2>7 DEF WhenCalled, Begun
<1>16. Welcome'
  BY <1>2 DEF RoomInv, Welcome
<1>17. RootsAgree'
  BY <1>2, <1>4, RootsStay
<1> QED
  BY <1>4, <1>12, <1>13, <1>14, <1>15, <1>16, <1>17 DEF RoomInv, Grows

-----------------------------------------------------------------------------
(* Questions that are answered or given up stay what they are.                *)

LEMMA FinishKeeps ==
  ASSUME RoomInv, NEW b \in batches, ~b.done, Finish(b)
  PROVE  /\ \A c \in batches' : c \in Questions /\ \E d \in batches : Same(d, c)
         /\ \A d \in batches : \E c \in batches' : Same(d, c)
         /\ \A c, d \in batches' : c.events = d.events => c = d
<1> DEFINE new == [b EXCEPT !.done = TRUE]
<1>1. b \in Questions
  BY DEF RoomInv, RoomTyped
<1>2. new \in Questions /\ Same(b, new)
  BY <1>1 DEF Questions, Same
<1>3. batches' = (batches \ {b}) \cup {new}
  BY DEF Finish
<1> HIDE DEF new
<1>4. \A c, d \in batches : c.events = d.events => c = d
  <2> SUFFICES ASSUME NEW c \in batches, NEW d \in batches, c.events = d.events
               PROVE  c = d
    OBVIOUS
  <2>1. Range(c.events) \cap Range(d.events) # {}
    BY Handled
  <2> QED
    BY <2>1 DEF RoomInv, InPlace, InBatch
<1>5. \A c \in batches : c \in Questions /\ Same(c, c)
  BY DEF RoomInv, RoomTyped, Same
<1> QED
  BY <1>2, <1>3, <1>4, <1>5 DEF Same

(* With other questions about the same events, all is in place.               *)
LEMMA InPlaceIs ==
  ASSUME RoomInv, UNCHANGED <<rootOf, buffer, restarts>>,
         \A e \in Events : at'[e] = "buffered" <=> at[e] = "buffered",
         \A c \in batches' : \E d \in batches : Same(d, c),
         \A d \in batches : \E c \in batches' : Same(d, c),
         \A c, d \in batches' : c.events = d.events => c = d
  PROVE  InPlace'
<1>1. InPlace
  BY DEF RoomInv
<1>2. \A t \in Events : InBuffer(t)'
  BY <1>1, Handled DEF InPlace, InBuffer
<1>3. ASSUME NEW c \in batches'
      PROVE  InBatch(c)'
  <2>1. PICK d \in batches : Same(d, c)
    OBVIOUS
  <2>2. InBatch(d) /\ d.events = c.events
    BY <1>1, <2>1 DEF InPlace, Same
  <2>3. \A e \in Range(c.events) : at'[e] = "buffered"
    BY <2>2, Handled DEF InBatch
  <2>4. ASSUME NEW a \in batches', Range(c.events) \cap Range(a.events) # {}
        PROVE  c = a
    <3>1. PICK o \in batches : Same(o, a)
      BY <2>4
    <3>2. d = o
      BY <2>2, <2>4, <3>1 DEF InBatch, Same
    <3> QED
      BY <2>2, <2>4, <3>1, <3>2 DEF Same
  <2> QED
    BY <2>2, <2>3, <2>4 DEF InBatch
<1>4. ASSUME restarts' = 0, NEW e \in Events, at'[e] = "buffered"
      PROVE  Held(e)'
  <2>1. Held(e)
    BY <1>1, <1>4 DEF InPlace
  <2>2. CASE \E t \in Events : e \in Range(buffer[t])
    BY <2>2 DEF Held
  <2>3. CASE \E d \in batches : e \in Range(d.events)
    <3>1. PICK d \in batches : e \in Range(d.events)
      BY <2>3
    <3>2. PICK c \in batches' : Same(d, c)
      OBVIOUS
    <3> QED
      BY <3>1, <3>2 DEF Held, Same
  <2> QED
    BY <2>1, <2>2, <2>3 DEF Held
<1> QED
  BY <1>2, <1>3, <1>4 DEF InPlace

LEMMA FailAnswerStep ==
  ASSUME RoomInv, NEW b \in batches, FailAnswer(b)
  PROVE  RoomInv'
<1>1. /\ ~b.done /\ Finish(b) /\ faults' \in 0..MaxFaults /\ restarts \in 0..faults'
      /\ UNCHANGED <<log, direct, roomType, rootOf, active, at, asDirect, buffer, welcomed, greeting,
                     greetings, misread, restarts>>
  BY Faulty DEF FailAnswer, caches, welcome, RoomInv
<1>2. /\ \A c \in batches' : c \in Questions /\ \E d \in batches : Same(d, c)
      /\ \A d \in batches : \E c \in batches' : Same(d, c)
      /\ \A c, d \in batches' : c.events = d.events => c = d
  BY <1>1, FinishKeeps
<1>3. LogOK
  BY DEF RoomInv
<1>4. Grows /\ Posted' = Posted
  BY <1>1, <1>3, SameLog
<1>5. RoomTyped'
  <2>1. \A c \in batches' : c \in Questions /\ c.events # << >> /\ c.thread \in Posted
    BY <1>2 DEF RoomInv, RoomTyped, Same
  <2> QED
    BY <1>1, <1>4, <2>1 DEF RoomInv, RoomTyped
<1>6. RootKnown'
  BY <1>1 DEF RoomInv, RootKnown
<1>7. InPlace'
  BY <1>1, <1>2, InPlaceIs
<1>8. WhenCalled'
  <2>1. \A t \in active : Begun(t)
    BY DEF RoomInv, WhenCalled
  <2> QED
    BY <1>1, <1>2, <1>4, <2>1, WhenCalledStays
<1>9. Welcome'
  BY <1>1 DEF RoomInv, Welcome
<1>10. RootsAgree'
  BY <1>1, <1>4, RootsStay
<1> QED
  BY <1>4, <1>5, <1>6, <1>7, <1>8, <1>9, <1>10 DEF RoomInv, Grows

(* The oracle writes: no handler takes its message for a question.            *)
LEMMA PostedByBot ==
  ASSUME RoomInv, NEW thread \in Nat, thread <= Len(log), Post(Bot, thread, thread, FALSE),
         Goto(Len(log'), "over")
  PROVE  /\ Grows /\ Posted \subseteq Posted' /\ Posted' \subseteq Events
         /\ \A e \in Posted' \ Posted : /\ rootOf[e] = None
                                       /\ log'[e].thread = thread /\ log'[e].reply = thread
         /\ at' \in [Events -> Places]
         /\ \A e \in Events : \/ at'[e] = at[e]
                              \/ e \in Posted' \ Posted /\ at[e] = "none" /\ at'[e] = "over"
<1> DEFINE new == Len(log')
<1>1. LogOK /\ RoomTyped /\ Posted \subseteq Events
  BY PostedIs DEF RoomInv
<1>2. /\ Grows /\ new \in Events /\ new \notin Posted /\ Posted' = Posted \cup {new}
      /\ log'[new] = [by |-> Bot, thread |-> thread, reply |-> thread, mention |-> FALSE]
  BY <1>1, PostGrows
<1>3. at' = [at EXCEPT ![new] = "over"]
  BY DEF Goto
<1> HIDE DEF new
<1>4. at' \in [Events -> Places] /\ \A e \in Events : at'[e] = IF e = new THEN "over" ELSE at[e]
  BY <1>1, <1>2, <1>3 DEF RoomTyped, Places
<1>5. at[new] = "none" /\ rootOf[new] = None
  BY <1>1, <1>2 DEF RoomTyped
<1> QED
  BY <1>1, <1>2, <1>4, <1>5

LEMMA AnswerStep ==
  ASSUME RoomInv, NEW b \in batches, Answer(b)
  PROVE  RoomInv'
<1>1. /\ ~b.done /\ Finish(b) /\ Post(Bot, b.thread, b.thread, FALSE) /\ Goto(Len(log'), "over")
      /\ active' = IF b.group THEN active \cup {b.thread} ELSE active
      /\ UNCHANGED <<direct, roomType, rootOf, asDirect, buffer, welcomed, greeting,
                     greetings, misread, restarts, faults>>
  BY DEF Answer, welcome
<1>2. /\ \A c \in batches' : c \in Questions /\ \E d \in batches : Same(d, c)
      /\ \A d \in batches : \E c \in batches' : Same(d, c)
      /\ \A c, d \in batches' : c.events = d.events => c = d
  BY <1>1, FinishKeeps
<1>3. b.thread \in Events /\ b.thread \in Nat /\ b.thread <= Len(log) /\ Begun(b.thread)
  <2>1. b.thread \in Posted
    BY DEF RoomInv, RoomTyped
  <2> QED
    BY <2>1, PostedIs DEF RoomInv, Begun
<1>4. /\ Grows /\ Posted \subseteq Posted' /\ Posted' \subseteq Events
      /\ \A e \in Posted' \ Posted : /\ rootOf[e] = None
                                    /\ log'[e].thread = b.thread /\ log'[e].reply = b.thread
      /\ at' \in [Events -> Places]
      /\ \A e \in Events : \/ at'[e] = at[e]
                           \/ e \in Posted' \ Posted /\ at[e] = "none" /\ at'[e] = "over"
  BY <1>1, <1>3, PostedByBot
<1>5. RoomTyped'
  <2>1. \A c \in batches' : c \in Questions /\ c.events # << >> /\ c.thread \in Posted'
    <3>1. \A d \in batches : d.events # << >> /\ d.thread \in Posted'
      BY <1>4 DEF RoomInv, RoomTyped
    <3> QED
      BY <1>2, <3>1 DEF Same
  <2>2. active' \in SUBSET Events
    BY <1>1, <1>3 DEF RoomInv, RoomTyped
  <2>3. \A e \in Events : at'[e] # "none" => e \in Posted'
    BY <1>4 DEF RoomInv, RoomTyped
  <2>4. rootOf' \in [Events -> Posted' \cup {None}] /\ \A e \in Events : rootOf'[e] # None => e \in Posted'
    BY <1>1, <1>4 DEF RoomInv, RoomTyped
  <2> QED
    BY <1>1, <1>4, <2>1, <2>2, <2>3, <2>4 DEF RoomInv, RoomTyped
<1>6. RootKnown'
  BY <1>1, <1>4 DEF RoomInv, RootKnown
<1>7. InPlace'
  BY <1>1, <1>2, <1>4, InPlaceIs
<1>8. WhenCalled'
  <2>1. \A t \in active' : Begun(t)
    BY <1>1, <1>3 DEF RoomInv, WhenCalled
  <2> QED
    BY <1>1, <1>2, <1>3, <1>4, <2>1, WhenCalledStays
<1>9. Welcome'
  BY <1>1 DEF RoomInv, Welcome
<1>10. RootsAgree'
  BY <1>1, <1>4, RootsStay
<1> QED
  BY <1>4, <1>5, <1>6, <1>7, <1>8, <1>9, <1>10 DEF RoomInv, Grows

LEMMA GreetStep ==
  ASSUME RoomInv, Greet
  PROVE  RoomInv'
<1>1. /\ greeting > 0 /\ greeting' = greeting - 1 /\ welcomed' = TRUE
      /\ UNCHANGED <<direct, roomType, rootOf, active, asDirect, buffer, batches, misread, restarts>>
  BY DEF Greet, caches
<1>2. CASE Post(Bot, None, None, FALSE) /\ Goto(Len(log'), "over") /\ greetings' = greetings + 1 /\ UNCHANGED faults
  <2>1. /\ Grows /\ Posted \subseteq Posted' /\ Posted' \subseteq Events
        /\ \A e \in Posted' \ Posted : /\ rootOf[e] = None
                                      /\ log'[e].thread = None /\ log'[e].reply = None
        /\ at' \in [Events -> Places]
        /\ \A e \in Events : \/ at'[e] = at[e]
                             \/ e \in Posted' \ Posted /\ at[e] = "none" /\ at'[e] = "over"
    <3>1. None \in Nat /\ None <= Len(log)
      BY PostedIs DEF None, RoomInv
    <3> QED
      BY <1>2, <3>1, PostedByBot
  <2>2. RoomTyped'
    <3>1. \A e \in Events : at'[e] # "none" => e \in Posted'
      BY <2>1 DEF RoomInv, RoomTyped
    <3>2. rootOf' \in [Events -> Posted' \cup {None}] /\ \A e \in Events : rootOf'[e] # None => e \in Posted'
      BY <1>1, <2>1 DEF RoomInv, RoomTyped
    <3>3. \A c \in batches' : c \in Questions /\ c.events # << >> /\ c.thread \in Posted'
      BY <1>1, <2>1 DEF RoomInv, RoomTyped
    <3>4. welcomed' \in BOOLEAN /\ greeting' \in Nat /\ greetings' \in Nat
      BY <1>1, <1>2 DEF RoomInv, RoomTyped
    <3> QED
      BY <1>1, <1>2, <2>1, <3>1, <3>2, <3>3, <3>4 DEF RoomInv, RoomTyped
  <2>3. RootKnown'
    BY <1>1, <2>1 DEF RoomInv, RootKnown
  <2>4. InPlace'
    BY <1>1, <2>1, InPlaceStays
  <2>5. WhenCalled'
    <3>1. \A t \in active : Begun(t)
      BY DEF RoomInv, WhenCalled
    <3>2. \A c \in batches : Same(c, c)
      BY DEF Same
    <3> QED
      BY <1>1, <2>1, <3>1, <3>2, WhenCalledStays
  <2>6. Welcome'
    BY <1>1, <1>2 DEF RoomInv, RoomTyped, Welcome
  <2>7. RootsAgree'
    BY <1>1, <2>1, RootsStay
  <2> QED
    BY <2>1, <2>2, <2>3, <2>4, <2>5, <2>6, <2>7 DEF RoomInv, Grows
<1>3. CASE Fault /\ UNCHANGED <<log, at, greetings>>
  <2>1. RoomTyped'
    <3>1. faults' \in 0..MaxFaults /\ restarts \in 0..faults' /\ welcomed' \in BOOLEAN /\ greeting' \in Nat
      BY <1>1, <1>3, Faulty DEF RoomInv, RoomTyped
    <3> QED
      BY <1>1, <1>3, <3>1 DEF RoomInv, RoomTyped, Posted
  <2>2. Welcome'
    BY <1>1, <1>3 DEF RoomInv, RoomTyped, Welcome
  <2>3. \A t \in active : Begun(t)
    BY DEF RoomInv, WhenCalled
  <2> QED
    BY <1>1, <1>3, <2>1, <2>2, <2>3, QuietStep
<1> QED
  BY <1>2, <1>3 DEF Greet

LEMMA RestartStep ==
  ASSUME RoomInv, Restart
  PROVE  RoomInv'
<1>1. /\ faults' = faults + 1 /\ faults' \in 0..MaxFaults /\ restarts' = restarts + 1
      /\ roomType' = "none" /\ rootOf' = [e \in Events |-> None] /\ active' = {}
      /\ buffer' = [t \in Events |-> << >>]
      /\ at' = [e \in Events |-> IF at[e] \in {"none", "buffered"} THEN at[e] ELSE "over"]
      /\ batches' = {[b EXCEPT !.done = TRUE] : b \in batches}
      /\ welcomed' = FALSE /\ greeting' = 0
      /\ UNCHANGED <<log, direct, asDirect, greetings, misread>>
  BY Faulty DEF Restart, Fault, RoomInv
<1>2. LogOK /\ RoomTyped /\ InPlace /\ Posted \subseteq Events
  BY PostedIs DEF RoomInv
<1>3. Grows /\ Posted' = Posted
  BY <1>1, <1>2, SameLog
<1>4. \A b \in batches : [b EXCEPT !.done = TRUE] \in Questions /\ Same(b, [b EXCEPT !.done = TRUE])
  <2> SUFFICES ASSUME NEW b \in batches
               PROVE  [b EXCEPT !.done = TRUE] \in Questions /\ Same(b, [b EXCEPT !.done = TRUE])
    OBVIOUS
  <2>1. b \in Questions
    BY <1>2 DEF RoomTyped
  <2> QED
    BY <2>1 DEF Questions, Same
<1>5. /\ \A c \in batches' : c \in Questions /\ \E b \in batches : c = [b EXCEPT !.done = TRUE] /\ Same(b, c)
      /\ \A b \in batches : \E c \in batches' : Same(b, c)
  BY <1>1, <1>4
<1>6. \A e \in Events : buffer'[e] = << >> /\ rootOf'[e] = None
        /\ at'[e] = IF at[e] \in {"none", "buffered"} THEN at[e] ELSE "over"
  BY <1>1
<1>7. RoomTyped'
  <2>1. \A c \in batches' : c \in Questions /\ c.events # << >> /\ c.thread \in Posted'
    BY <1>2, <1>3, <1>5 DEF RoomTyped, Same
  <2>2. at' \in [Events -> Places] /\ \A e \in Events : at'[e] # "none" => e \in Posted'
    <3>1. at' \in [Events -> Places]
      BY <1>1, <1>2 DEF RoomTyped, Places
    <3> QED
      BY <1>2, <1>3, <1>6, <3>1 DEF RoomTyped
  <2>3. rootOf' \in [Events -> Posted' \cup {None}] /\ \A e \in Events : rootOf'[e] # None => e \in Posted'
    BY <1>1, <1>6
  <2>4. buffer' \in [Events -> Seq(Events)]
    <3>1. << >> \in Seq(Events)
      OBVIOUS
    <3> HIDE DEF Events
    <3> QED
      BY <1>1, <3>1
  <2>5. restarts' \in 0..faults' /\ faults' \in 0..MaxFaults
    BY <1>1, <1>2 DEF RoomTyped
  <2>6. active' \in SUBSET Events
    BY <1>1
  <2> QED
    BY <1>1, <1>2, <2>1, <2>2, <2>3, <2>4, <2>5, <2>6 DEF RoomTyped
<1>8. RootKnown'
  BY <1>6 DEF RootKnown
<1>9. InPlace'
  <2>1. Range(<< >>) = {}
    BY DEF Range
  <2>2. \A t \in Events : Range(buffer'[t]) = {}
    BY <1>6, <2>1
  <2>3. ASSUME NEW c \in batches'
        PROVE  InBatch(c)'
    <3>1. PICK b \in batches : c = [b EXCEPT !.done = TRUE] /\ Same(b, c)
      BY <1>5
    <3>2. InBatch(b) /\ b.events = c.events /\ \A e \in Range(b.events) : e \in Events
      BY <1>2, <3>1, Handled DEF InPlace, Same
    <3>3. \A e \in Range(c.events) : at'[e] = "buffered"
      BY <1>6, <3>2 DEF InBatch
    <3>4. ASSUME NEW a \in batches', Range(c.events) \cap Range(a.events) # {}
          PROVE  c = a
      <4>1. PICK o \in batches : a = [o EXCEPT !.done = TRUE] /\ Same(o, a)
        BY <1>5
      <4>2. b = o
        BY <3>2, <3>4, <4>1 DEF InBatch, Same
      <4> QED
        BY <3>1, <4>1, <4>2
    <3> QED
      BY <2>2, <3>3, <3>4 DEF InBatch
  <2>4. restarts' # 0
    BY <1>1, <1>2 DEF RoomTyped
  <2> QED
    BY <2>2, <2>3, <2>4 DEF InPlace, InBuffer
<1>10. WhenCalled'
  <2>1. \A b \in batches : \E c \in batches' : Same(b, c)
    BY <1>5
  <2>2. \A c \in batches' : \E b \in batches : Same(b, c)
    BY <1>5
  <2> QED
    BY <1>1, <1>3, <1>6, <2>1, <2>2, WhenCalledStays
<1>11. Welcome'
  BY <1>1, <1>2 DEF RoomInv, RoomTyped, Welcome
<1>12. RootsAgree'
  <2>1. \A e \in Posted : rootOf'[e] = None
    BY <1>2, <1>6
  <2> HIDE DEF Root
  <2> QED
    BY <1>1, <1>3, <2>1, RootsStay
<1> QED
  BY <1>3, <1>7, <1>8, <1>9, <1>10, <1>11, <1>12 DEF RoomInv, Grows

-----------------------------------------------------------------------------
(* From the first state on                                                   *)

LEMMA RoomInit ==
  ASSUME Init
  PROVE  RoomInv
<1>1. /\ log = << >> /\ direct \in BOOLEAN
      /\ roomType = "none" /\ rootOf = [e \in Events |-> None] /\ active = {}
      /\ at = [e \in Events |-> "none"] /\ asDirect = {}
      /\ buffer = [t \in Events |-> << >>] /\ batches = {}
      /\ welcomed = FALSE /\ greeting = 0 /\ greetings = 0
      /\ misread = FALSE /\ restarts = 0 /\ faults = 0
  BY DEF Init
<1>2. /\ log \in Seq(Posts) /\ Len(log) = 0 /\ Posted = {} /\ 1..Len(log) = {}
  <2> HIDE DEF Posts
  <2>1. log \in Seq(Posts) /\ Len(log) = 0
    BY <1>1
  <2>2. 1..0 = {}
    OBVIOUS
  <2> QED
    BY <1>1, <2>1, <2>2 DEF Posted
<1>3. LogOK
  BY <1>2, Sizes DEF LogOK, Earlier
<1>4. \A e \in Events : buffer[e] = << >> /\ rootOf[e] = None /\ at[e] = "none"
  BY <1>1
<1>5. RoomTyped
  <2>1. buffer \in [Events -> Seq(Events)]
    <3>1. << >> \in Seq(Events)
      OBVIOUS
    <3> HIDE DEF Events
    <3> QED
      BY <1>1, <3>1
  <2>2. at \in [Events -> Places]
    BY <1>1 DEF Places
  <2>3. rootOf \in [Events -> Posted \cup {None}]
    BY <1>1
  <2>4. faults \in 0..MaxFaults /\ restarts \in 0..faults
    BY <1>1, Sizes
  <2>5. greeting \in Nat /\ greetings \in Nat
    BY <1>1
  <2> QED
    BY <1>1, <1>4, <2>1, <2>2, <2>3, <2>4, <2>5 DEF RoomTyped
<1>6. RootKnown
  BY <1>4 DEF RootKnown
<1>7. InPlace
  <2>1. Range(<< >>) = {}
    BY DEF Range
  <2> QED
    BY <1>1, <1>4, <2>1 DEF InPlace, InBuffer
<1>8. WhenCalled
  BY <1>1, <1>2, <1>4 DEF WhenCalled, Begun
<1>9. Welcome
  BY <1>1 DEF Welcome
<1>10. RootsAgree
  BY <1>2 DEF RootsAgree
<1> QED
  BY <1>3, <1>5, <1>6, <1>7, <1>8, <1>9, <1>10 DEF RoomInv

(* Every step of the room keeps what holds of it.                             *)
LEMMA RoomStep ==
  ASSUME RoomInv, Next
  PROVE  RoomInv'
<1>1. ASSUME NEW e \in Posted, Handle(e)
      PROVE  RoomInv'
  BY <1>1, GetThreadRootStep, LeaveStep, LookAtRoomStep, ShouldAgentRespondStep, BufferStep DEF Handle
<1>2. ASSUME NEW b \in batches, Answer(b) \/ FailAnswer(b)
      PROVE  RoomInv'
  BY <1>2, AnswerStep, FailAnswerStep
<1> QED
  BY <1>1, <1>2, SayStep, OthersJoinStep, FlushStep, BotJoinedStep, GreetStep, ExpireStep, RestartStep DEF Next

LEMMA RoomStays ==
  ASSUME RoomInv, UNCHANGED vars
  PROVE  RoomInv'
<1>1. UNCHANGED <<log, direct, roomType, rootOf, active, at, asDirect, buffer, batches, welcomed, greeting,
                  greetings, misread, restarts, faults>>
  BY DEF vars, caches, handling, welcome
<1>2. LogOK
  BY DEF RoomInv
<1>3. Posted' = Posted
  BY <1>1 DEF Posted
<1>4. RoomTyped'
  BY <1>1, <1>3 DEF RoomInv, RoomTyped
<1>5. Welcome'
  BY <1>1 DEF RoomInv, Welcome
<1>6. \A t \in active : Begun(t)
  BY DEF RoomInv, WhenCalled
<1> QED
  BY <1>1, <1>4, <1>5, <1>6, QuietStep

(* What is asked, and why.                                                   *)
LEMMA RoomSafe ==
  ASSUME RoomInv
  PROVE  TypeOK /\ RootsAgree /\ SpeaksWhenCalled /\ BatchedOnce /\ GreetedOnce
<1>1. LogOK /\ RoomTyped /\ InPlace /\ WhenCalled /\ Welcome /\ RootsAgree
      /\ Posted = 1..Len(log) /\ Posted \subseteq Events
  BY PostedIs DEF RoomInv
<1>2. TypeOK
  <2>1. \A e \in Posted : log[e].by \in Users \cup {Bot} /\ {log[e].thread, log[e].reply} \subseteq 0..e - 1
    <3>1. \A e \in 1..Len(log) : log[e] \in Posts
      <4> HIDE DEF Posts
      <4> QED
        BY <1>1 DEF LogOK, Earlier
    <3>2. \A e \in 1..Len(log) : log[e].by \in Users \cup {Bot}
      BY <3>1 DEF Posts
    <3>3. \A e \in 1..Len(log) : log[e].thread \in 0..e - 1 /\ log[e].reply \in 0..e - 1
      BY <1>1 DEF LogOK, Earlier
    <3> QED
      BY <1>1, <3>2, <3>3
  <2>2. at \in [Events -> {"none", "root", "room", "guard", "session", "buffered", "over"}]
    BY <1>1 DEF RoomTyped, Places
  <2>3. \A t \in Events : \A e \in Range(buffer[t]) : at[e] = "buffered" /\ rootOf[e] = t
    BY <1>1 DEF InPlace, InBuffer
  <2>4. rootOf \in [Events -> Events \cup {None}]
    BY <1>1 DEF RoomTyped
  <2>5. {restarts, faults} \subseteq 0..MaxFaults
    BY <1>1, Sizes DEF RoomTyped
  <2> QED
    BY <1>1, <2>1, <2>2, <2>3, <2>4, <2>5 DEF TypeOK, RoomTyped, LogOK
<1>3. \A t, d : d \in Asked(t) <=> (\E b \in batches : b.thread = t /\ d \in Range(b.events)) \/ d \in Range(buffer[t])
  BY DEF Asked
<1>4. SpeaksWhenCalled
  <2> SUFFICES ASSUME NEW t \in Events, Asked(t) # {}
               PROVE  \E d \in Asked(t) : log[d].mention \/ RepliesToBot(d) \/ d \in asDirect
    BY DEF SpeaksWhenCalled
  <2>1. CASE Begun(t)
    <3>1. BegunWell(t)
      BY <1>1, <2>1 DEF WhenCalled
    <3> QED
      BY <1>3, <3>1 DEF BegunWell, Calling
  <2>2. CASE ~Begun(t)
    <3>1. Range(buffer[t]) # {}
      BY <1>3, <2>2 DEF Begun
    <3>2. buffer[t] # << >>
      BY <3>1 DEF Range
    <3>3. \E d \in Range(buffer[t]) : Calling(d)
      BY <1>1, <2>2, <3>2 DEF WhenCalled
    <3> QED
      BY <1>3, <3>3 DEF Calling
  <2> QED
    BY <2>1, <2>2
<1>5. BatchedOnce
  <2>1. \A b, c \in batches : b.thread = c.thread /\ Range(b.events) \cap Range(c.events) # {} => b = c
    BY <1>1 DEF InPlace, InBatch
  <2>2. \A t \in Events : \A b \in batches : Range(b.events) \cap Range(buffer[t]) = {}
    BY <1>1 DEF InPlace, InBatch
  <2>3. ASSUME restarts = 0
        PROVE  {e \in Posted : at[e] = "buffered"} = UNION {Asked(t) : t \in Events}
    <3>1. ASSUME NEW e \in Posted, at[e] = "buffered"
          PROVE  \E t \in Events : e \in Asked(t)
      <4>1. Held(e)
        BY <1>1, <2>3, <3>1 DEF InPlace
      <4>2. \A b \in batches : b.thread \in Events
        BY <1>1 DEF RoomTyped
      <4> QED
        BY <1>3, <4>1, <4>2 DEF Held
    <3>2. ASSUME NEW t \in Events, NEW e \in Asked(t)
          PROVE  e \in Posted /\ at[e] = "buffered"
      BY <1>1, <1>3, <3>2, Handled DEF InPlace, InBuffer, InBatch
    <3> QED
      BY <3>1, <3>2
  <2> QED
    BY <2>1, <2>2, <2>3 DEF BatchedOnce
<1>6. GreetedOnce
  BY <1>1 DEF Welcome, GreetedOnce, RoomTyped
<1> QED
  BY <1>1, <1>2, <1>4, <1>5, <1>6

(* Group rooms (handleMessage, shouldAgentRespond, flushMatrixEvents): however *)
(* messages, joins, look-ups, answers, faults and restarts follow each other,  *)
(* the messages of a thread agree on its root, the agent answers when it is   *)
(* called, each message is in one batch, and a room is greeted once.          *)
THEOREM RoomHears == Spec => []RoomIsHeard
<1>1. ASSUME RoomInv, [Next]_vars
      PROVE  RoomInv'
  BY <1>1, RoomStep, RoomStays
<1>2. RoomInv => RoomIsHeard
  BY RoomSafe DEF RoomIsHeard
<1> QED
  BY RoomInit, <1>1, <1>2, PTL DEF Spec
===============================================================================
