---------------------------- MODULE MemoryProofs ----------------------------
(* Proofs about ChannelMemory: what the oracle observed in a room is kept in  *)
(* order, and its copy in the room only grows, for any number of messages and *)
(* facts, any thresholds, and any failing calls, restarts and crashes; about  *)
(* HomeServers: each caller waits in one batch, and what it gets is the       *)
(* server of the DID it asked for, for any callers, DIDs and size of the      *)
(* cache; and about Conversation: a message has one row, a posted answer is   *)
(* in the table, a stream can be aborted and what is read of a thread only    *)
(* grows (ThreadHistory), for any number of questions, any summary, and any   *)
(* aborts, failures and restarts.                                             *)
EXTENDS MCMemory, FiniteSetTheorems, TLAPS

-----------------------------------------------------------------------------
(* Sequences                                                                 *)

(* v is s and then u.                                                        *)
Joins(s, u, v) ==
  /\ Len(v) = Len(s) + Len(u) /\ Len(s) \in Nat /\ Len(u) \in Nat
  /\ \A i \in 1..Len(s) : v[i] = s[i]
  /\ \A i \in 1..Len(u) : v[Len(s) + i] = u[i]
  /\ \A i \in 1..(Len(s) + Len(u)) : i \in 1..Len(s) \/ i - Len(s) \in 1..Len(u)

LEMMA Joined ==
  ASSUME NEW S, NEW s \in Seq(S), NEW u \in Seq(S)
  PROVE  s \o u \in Seq(S) /\ Joins(s, u, s \o u)
  BY DEF Joins

LEMMA Added ==
  ASSUME NEW S, NEW s \in Seq(S), NEW x \in S
  PROVE  /\ Append(s, x) \in Seq(S) /\ Len(Append(s, x)) = Len(s) + 1 /\ Len(s) \in Nat
         /\ \A i \in 1..Len(s) : Append(s, x)[i] = s[i]
         /\ Append(s, x)[Len(s) + 1] = x
         /\ \A i \in 1..(Len(s) + 1) : i \in 1..Len(s) \/ i = Len(s) + 1
  OBVIOUS

LEMMA After ==
  ASSUME NEW S, NEW s \in Seq(S), NEW d \in Nat, d <= Len(s)
  PROVE  LET rest == SubSeq(s, d + 1, Len(s)) IN
         /\ rest \in Seq(S) /\ Len(rest) = Len(s) - d
         /\ \A j \in 1..(Len(s) - d) : rest[j] = s[d + j] /\ d + j \in 1..Len(s)
  OBVIOUS

LEMMA RangeEmpty == Range(<< >>) = {}
  BY DEF Range

LEMMA RangeType ==
  ASSUME NEW S, NEW s \in Seq(S)
  PROVE  /\ Range(s) \subseteq S
         /\ s # << >> => Range(s) # {}
  <1>1. DOMAIN s = 1..Len(s) /\ Len(s) \in Nat /\ \A i \in 1..Len(s) : s[i] \in S
    OBVIOUS
  <1>2. Range(s) \subseteq S
    BY <1>1 DEF Range
  <1>3. s # << >> => Range(s) # {}
    <2>1. s # << >> => 1 \in DOMAIN s
      BY <1>1
    <2> QED BY <2>1 DEF Range
  <1> QED BY <1>2, <1>3

LEMMA RangeAppend ==
  ASSUME NEW S, NEW s \in Seq(S), NEW x \in S
  PROVE  Range(Append(s, x)) = Range(s) \cup {x}
  <1> DEFINE t == Append(s, x)
  <1>1. /\ Len(t) = Len(s) + 1 /\ DOMAIN t = 1..(Len(s) + 1) /\ DOMAIN s = 1..Len(s)
        /\ \A i \in DOMAIN s : t[i] = s[i] /\ i \in DOMAIN t
        /\ t[Len(s) + 1] = x /\ Len(s) + 1 \in DOMAIN t
    OBVIOUS
  <1>2. \A i \in DOMAIN t : i \in DOMAIN s \/ i = Len(s) + 1
    BY <1>1
  <1> HIDE DEF t
  <1>3. Range(t) = Range(s) \cup {x}
    BY <1>1, <1>2 DEF Range
  <1> QED BY <1>3 DEF t

LEMMA RangeConcat ==
  ASSUME NEW S, NEW s \in Seq(S), NEW t \in Seq(S)
  PROVE  Range(s \o t) = Range(s) \cup Range(t)
  <1> DEFINE u == s \o t
  <1>1. /\ DOMAIN u = 1..(Len(s) + Len(t)) /\ DOMAIN s = 1..Len(s) /\ DOMAIN t = 1..Len(t)
        /\ Len(s) \in Nat /\ Len(t) \in Nat
        /\ \A i \in DOMAIN u : u[i] = IF i <= Len(s) THEN s[i] ELSE t[i - Len(s)]
    OBVIOUS
  <1>2. \A i \in DOMAIN s : i \in DOMAIN u /\ u[i] = s[i]
    BY <1>1
  <1>3. \A i \in DOMAIN t : Len(s) + i \in DOMAIN u /\ u[Len(s) + i] = t[i]
    BY <1>1
  <1>4. \A i \in DOMAIN u :
          \/ i \in DOMAIN s /\ u[i] = s[i]
          \/ i - Len(s) \in DOMAIN t /\ u[i] = t[i - Len(s)]
    BY <1>1
  <1> HIDE DEF u
  <1>5. Range(u) \subseteq Range(s) \cup Range(t)
    BY <1>4 DEF Range
  <1>6. Range(s) \subseteq Range(u)
    BY <1>2 DEF Range
  <1>7. Range(t) \subseteq Range(u)
    BY <1>3 DEF Range
  <1>8. Range(u) = Range(s) \cup Range(t)
    BY <1>5, <1>6, <1>7
  <1> QED BY <1>8 DEF u

LEMMA IncreasingAppend ==
  ASSUME NEW S \in SUBSET Nat, NEW s \in Seq(S), NEW x \in Nat,
         Increasing(s), \A m \in Range(s) : m < x
  PROVE  Increasing(Append(s, x))
  <1> DEFINE t == Append(s, x)
  <1>1. /\ Len(t) = Len(s) + 1 /\ DOMAIN t = 1..(Len(s) + 1) /\ DOMAIN s = 1..Len(s)
        /\ Len(s) \in Nat
        /\ \A i \in DOMAIN s : t[i] = s[i]
        /\ t[Len(s) + 1] = x
    OBVIOUS
  <1>2. \A i \in DOMAIN s : s[i] < x
    BY DEF Range
  <1> HIDE DEF t
  <1>3. ASSUME NEW i \in DOMAIN t, NEW j \in DOMAIN t, i < j
        PROVE  t[i] < t[j]
    <2>1. i \in DOMAIN s
      BY <1>1, <1>3
    <2>2. CASE j \in DOMAIN s
      BY <1>1, <1>3, <2>1, <2>2 DEF Increasing
    <2>3. CASE j = Len(s) + 1
      BY <1>1, <1>2, <2>1, <2>3
    <2> QED BY <1>1, <2>2, <2>3
  <1>4. Increasing(t)
    BY <1>3 DEF Increasing
  <1> QED BY <1>4 DEF t

LEMMA IncreasingConcat ==
  ASSUME NEW S \in SUBSET Nat, NEW s \in Seq(S), NEW t \in Seq(S),
         Increasing(s), Increasing(t), Before(s, t)
  PROVE  Increasing(s \o t)
  <1> DEFINE u == s \o t
  <1>1. /\ DOMAIN u = 1..(Len(s) + Len(t)) /\ DOMAIN s = 1..Len(s) /\ DOMAIN t = 1..Len(t)
        /\ Len(s) \in Nat /\ Len(t) \in Nat
        /\ \A i \in DOMAIN u : u[i] = IF i <= Len(s) THEN s[i] ELSE t[i - Len(s)]
    OBVIOUS
  <1> HIDE DEF u
  <1>2. ASSUME NEW i \in DOMAIN u, NEW j \in DOMAIN u, i < j
        PROVE  u[i] < u[j]
    <2>1. CASE j <= Len(s)
      BY <1>1, <1>2, <2>1 DEF Increasing
    <2>2. CASE i > Len(s)
      BY <1>1, <1>2, <2>2 DEF Increasing
    <2>3. CASE i <= Len(s) /\ j > Len(s)
      <3>1. i \in DOMAIN s /\ j - Len(s) \in DOMAIN t
        BY <1>1, <1>2, <2>3
      <3>2. s[i] \in Range(s) /\ t[j - Len(s)] \in Range(t)
        BY <3>1 DEF Range
      <3>3. s[i] < t[j - Len(s)]
        BY <3>2 DEF Before
      <3> QED BY <1>1, <1>2, <2>3, <3>3
    <2> QED BY <1>1, <1>2, <2>1, <2>2, <2>3
  <1>3. Increasing(u)
    BY <1>2 DEF Increasing
  <1> QED BY <1>3 DEF u

-----------------------------------------------------------------------------
(* What keeps the messages in line                                           *)

LEMMA EmptyInLine == Increasing(<< >>) /\ \A s : Before(<< >>, s) /\ Before(s, << >>)
  BY RangeEmpty DEF Increasing, Before

LEMMA LineLess ==
  ASSUME NEW C, NEW D \in SUBSET C, NEW d, NEW b, InLine(C, d, b)
  PROVE  InLine(D, d, b) /\ InLine(D, << >>, b) /\ InLine(D, d, << >>) /\ InLine(D, << >>, << >>)
  BY EmptyInLine DEF InLine

LEMMA LineDrain ==
  ASSUME NEW C, NEW b, InLine(C, << >>, b)
  PROVE  InLine(C, b, << >>)
  BY EmptyInLine DEF InLine

LEMMA LineStore ==
  ASSUME NEW C, NEW d, NEW b, InLine(C, d, b)
  PROVE  InLine(C \cup {d}, << >>, b)
  BY EmptyInLine DEF InLine

LEMMA LineBack ==
  ASSUME NEW S \in SUBSET Nat, NEW C, NEW d \in Seq(S), NEW b \in Seq(S), InLine(C, d, b)
  PROVE  InLine(C, << >>, d \o b)
  <1>1. Range(d \o b) = Range(d) \cup Range(b)
    BY RangeConcat
  <1>2. Increasing(d \o b)
    BY IncreasingConcat DEF InLine
  <1>3. \A s \in C : Before(s, d \o b)
    BY <1>1 DEF InLine, Before
  <1> QED BY <1>2, <1>3, EmptyInLine DEF InLine

LEMMA LineNew ==
  ASSUME NEW n \in Nat, NEW C, \A s \in C : Range(s) \subseteq 1..n,
         NEW d \in Seq(1..n), NEW b \in Seq(1..n), InLine(C, d, b)
  PROVE  InLine(C, d, Append(b, n + 1))
  <1> DEFINE c == Append(b, n + 1)
  <1>1. Range(Append(b, n + 1)) = Range(b) \cup {n + 1}
    <2>1. b \in Seq(1..(n + 1)) /\ n + 1 \in 1..(n + 1)
      OBVIOUS
    <2> QED BY SMTT(20), <2>1, RangeAppend
  <1>2. Range(b) \subseteq 1..n /\ Range(d) \subseteq 1..n
    BY RangeType
  <1>3. Increasing(c)
    <2>1. 1..n \in SUBSET Nat /\ n + 1 \in Nat
      OBVIOUS
    <2>2. \A m \in Range(b) : m < n + 1
      BY <1>2
    <2>3. Increasing(b)
      BY DEF InLine
    <2> QED BY <2>1, <2>2, <2>3, IncreasingAppend
  <1> HIDE DEF c
  <1>4. \A s \in C : Before(s, c)
    BY <1>1 DEF InLine, Before, c
  <1>5. Before(d, c)
    BY <1>1, <1>2 DEF InLine, Before, c
  <1>6. \A seq \in C \cup {d, c} : Increasing(seq)
    BY <1>3 DEF InLine
  <1>7. InLine(C, d, c)
    BY <1>4, <1>5, <1>6 DEF InLine
  <1> QED BY <1>7 DEF c

-----------------------------------------------------------------------------
(* The inductive invariant                                                   *)

(* Every row there is, in the file or its WAL, in the room, on its way there. *)
Written == rows \cup main \cup remote \cup upload.snapshot

Types ==
    /\ observed \in Nat
    /\ buffer \in Seq(1..observed)
    /\ comp \in [pc : {"idle", "summarise", "insert"}, drained : Seq(1..observed)]
    /\ \A seq \in Texts(Written) : seq \in Seq(1..observed)

(* All chunks are in line, also those that are only in the room. *)
Line == InLine(Texts(Written), comp.drained, buffer)

Complete ==
    Within(Texts(OnDisk)) \cup Range(comp.drained) \cup Range(buffer) \cup lost = 1..observed

(* The main file has every chunk the room has, and an upload takes them all; *)
(* only what is open can be dirty.                                           *)
Copies ==
    /\ dirty \/ upload.pc = "copied" => room = "open"
    /\ room = "restoring" => ~file
    /\ Chunks(main) \subseteq Chunks(rows)
    /\ file => Safe(remote) \subseteq Chunks(main)
    /\ upload.pc = "copied" =>
           /\ Safe(remote) \subseteq Chunks(upload.snapshot)
           /\ Chunks(upload.snapshot) \subseteq Chunks(main)

Inv == TypeOK /\ Types /\ Line /\ Complete /\ Copies

-----------------------------------------------------------------------------
(* What a step has in common with others                                     *)

LEMMA TextsOf ==
  ASSUME NEW X, NEW Y
  PROVE  /\ Texts(X \cup Y) = Texts(X) \cup Texts(Y)
         /\ X \subseteq Y => Texts(X) \subseteq Texts(Y)
         /\ Chunks(X) \subseteq Chunks(Y) => Texts(X) \subseteq Texts(Y)
         /\ Texts({}) = {}
  BY DEF Texts, Chunks

(* No more is written than before, and less may be waiting. *)
LEMMA NothingNew ==
  ASSUME Types, Line, observed' = observed, Texts(Written)' \subseteq Texts(Written),
         buffer' \in {buffer, << >>},
         \/ comp' = comp
         \/ comp' = [pc |-> "idle", drained |-> << >>]
         \/ comp' = [comp EXCEPT !.pc = "insert"]
  PROVE  Types' /\ Line'
  <1>1. << >> \in Seq(1..observed)
    OBVIOUS
  <1>2. /\ comp'.drained \in {comp.drained, << >>}
        /\ comp' \in [pc : {"idle", "summarise", "insert"}, drained : Seq(1..observed)]
    <2>1. CASE comp' = comp
      BY <2>1 DEF Types
    <2>2. CASE comp' = [pc |-> "idle", drained |-> << >>]
      BY <1>1, <2>2
    <2>3. CASE comp' = [comp EXCEPT !.pc = "insert"]
      <3> DEFINE R == Seq(1..observed)
      <3>1. comp \in [pc : {"idle", "summarise", "insert"}, drained : R]
        BY DEF Types
      <3> HIDE DEF R
      <3>2. /\ comp'.drained = comp.drained
            /\ comp' \in [pc : {"idle", "summarise", "insert"}, drained : R]
        BY <2>3, <3>1
      <3> QED BY <3>2 DEF R
    <2> QED BY <2>1, <2>2, <2>3
  <1>3. Types'
    <2>1. buffer' \in Seq(1..observed)
      BY <1>1 DEF Types
    <2> QED BY <1>2, <2>1 DEF Types
  <1> DEFINE C == Texts(Written)
             D == Texts(Written)'
             d == comp.drained
             e == comp'.drained
  <1>4. D \subseteq C /\ InLine(C, d, buffer) /\ e \in {d, << >>}
    BY <1>2 DEF Line
  <1> HIDE DEF C, D, d, e
  <1>5. /\ InLine(D, d, buffer) /\ InLine(D, << >>, buffer)
        /\ InLine(D, d, << >>) /\ InLine(D, << >>, << >>)
    BY <1>4, LineLess
  <1>6. InLine(D, e, buffer')
    BY <1>4, <1>5
  <1> QED BY <1>3, <1>6 DEF Line, D, e

LEMMA SameStore ==
  ASSUME Copies, UNCHANGED <<room, disk, remote, sync, lost>>
  PROVE  /\ Copies'
         /\ Texts(Written)' = Texts(Written)
         /\ Texts(OnDisk)' = Texts(OnDisk)
  <1>1. UNCHANGED <<room, file, rows, main, remote, dirty, upload, lost>>
    BY DEF disk, sync
  <1> QED BY <1>1 DEF Copies, Written, OnDisk, Safe, Texts, Chunks

(* What is on disk is among what is written. *)
LEMMA DiskIsWritten ==
  Texts(OnDisk) \subseteq Texts(Written) /\ Texts(remote) \subseteq Texts(Written)
  BY DEF Texts, Chunks, Written, OnDisk

-----------------------------------------------------------------------------
(* Observing and compacting                                                  *)

LEMMA Drains ==
  ASSUME NEW n \in Nat, NEW messages \in Seq(1..n), NEW armed \in BOOLEAN, NEW C,
         comp \in [pc : {"idle", "summarise", "insert"}, drained : Seq(1..n)],
         comp.pc = "idle" <=> comp.drained = << >>,
         InLine(C, comp.drained, messages),
         \/ Compacted(messages, armed)
         \/ buffer' = messages /\ idle' = armed /\ UNCHANGED comp
  PROVE  /\ buffer' \in Seq(1..n)
         /\ comp' \in [pc : {"idle", "summarise", "insert"}, drained : Seq(1..n)]
         /\ comp'.pc = "idle" <=> comp'.drained = << >>
         /\ idle' \in BOOLEAN
         /\ InLine(C, comp'.drained, buffer')
         /\ Range(comp'.drained) \cup Range(buffer') = Range(comp.drained) \cup Range(messages)
  <1>1. CASE buffer' = messages /\ idle' \in BOOLEAN /\ comp' = comp
    BY <1>1
  <1>2. CASE /\ comp.pc = "idle" /\ messages # << >>
             /\ comp' = [pc |-> "summarise", drained |-> messages]
             /\ buffer' = << >> /\ idle' = FALSE
    <2>1. << >> \in Seq(1..n)
      OBVIOUS
    <2>2. comp'.drained = messages /\ comp'.pc = "summarise" /\ comp.drained = << >>
      BY <1>2
    <2>3. comp' \in [pc : {"idle", "summarise", "insert"}, drained : Seq(1..n)]
      BY <1>2
    <2>4. InLine(C, messages, << >>)
      BY <2>2, LineDrain
    <2>5. Range(messages) \cup Range(<< >>) = Range(<< >>) \cup Range(messages)
      OBVIOUS
    <2> QED BY <1>2, <2>1, <2>2, <2>3, <2>4, <2>5
  <1>3. \/ buffer' = messages /\ idle' \in BOOLEAN /\ comp' = comp
        \/ /\ comp.pc = "idle" /\ messages # << >>
           /\ comp' = [pc |-> "summarise", drained |-> messages]
           /\ buffer' = << >> /\ idle' = FALSE
    BY DEF Compacted
  <1> QED BY <1>1, <1>2, <1>3

LEMMA ObserveStep ==
  ASSUME Inv, ObserveMessage
  PROVE  Inv'
  <1> DEFINE n == observed + 1
             messages == Append(buffer, n)
             C == Texts(Written)
  <1>1. /\ observed < MaxMessages /\ observed' = n
        /\ UNCHANGED <<requeued, room, disk, remote, sync, stopping, lost, faults>>
        /\ \/ Compacted(messages, TRUE)
           \/ buffer' = messages /\ idle' = TRUE /\ UNCHANGED comp
    BY DEF ObserveMessage
  <1>2. /\ observed \in Nat /\ buffer \in Seq(1..observed)
        /\ comp \in [pc : {"idle", "summarise", "insert"}, drained : Seq(1..observed)]
        /\ \A s \in C : s \in Seq(1..observed)
        /\ InLine(C, comp.drained, buffer)
    BY DEF Inv, Types, Line
  <1>3. messages \in Seq(1..n) /\ Range(messages) = Range(buffer) \cup {n}
    <2>1. n \in Nat /\ buffer \in Seq(1..n) /\ n \in 1..n
      BY <1>2
    <2> QED BY <2>1, RangeAppend
  <1>4. InLine(C, comp.drained, messages)
    <2>1. \A s \in C : Range(s) \subseteq 1..observed
      BY <1>2, RangeType
    <2>2. comp.drained \in Seq(1..observed)
      BY <1>2
    <2> QED BY <1>2, <2>1, <2>2, LineNew
  <1>5. /\ comp \in [pc : {"idle", "summarise", "insert"}, drained : Seq(1..n)]
        /\ \A s \in C : s \in Seq(1..n)
        /\ n \in Nat
    BY <1>2
  <1>6. Copies' /\ C' = C /\ Texts(OnDisk)' = Texts(OnDisk)
    BY <1>1, SameStore DEF Inv
  <1> HIDE DEF n, messages, C
  <1>7. /\ buffer' \in Seq(1..n)
        /\ comp' \in [pc : {"idle", "summarise", "insert"}, drained : Seq(1..n)]
        /\ comp'.pc = "idle" <=> comp'.drained = << >>
        /\ idle' \in BOOLEAN
        /\ InLine(C, comp'.drained, buffer')
        /\ Range(comp'.drained) \cup Range(buffer') = Range(comp.drained) \cup Range(messages)
    <2>1. comp.pc = "idle" <=> comp.drained = << >>
      BY DEF Inv, TypeOK
    <2> QED BY <1>1, <1>3, <1>4, <1>5, <2>1, Drains
  <1>8. Types'
    BY <1>1, <1>5, <1>6, <1>7 DEF Types, C
  <1>9. Line'
    BY <1>6, <1>7 DEF Line, C
  <1>10. Complete'
    <2> DEFINE K == Within(Texts(OnDisk))
    <2>1. (K \cup Range(comp.drained) \cup Range(buffer)) \cup lost = 1..observed
      BY DEF Inv, Complete
    <2>2. Complete' <=> (K \cup Range(comp'.drained) \cup Range(buffer')) \cup lost = 1..n
      BY <1>1, <1>6 DEF Complete
    <2> HIDE DEF K
    <2>3. (1..observed) \cup {n} = 1..n
      <3>1. 1..observed \subseteq 1..n /\ n \in 1..n
        BY <1>2 DEF n
      <3>2. \A x \in 1..n : x \in 1..observed \/ x = n
        BY <1>2 DEF n
      <3> QED BY <3>1, <3>2
    <2> QED BY <1>3, <1>7, <2>1, <2>2, <2>3
  <1>11. TypeOK'
    <2>1. observed' \in 0..MaxMessages /\ lost' \cup requeued' \subseteq 1..observed'
      <3>1. lost \cup requeued \subseteq 1..observed
        BY DEF Inv, TypeOK
      <3> QED BY <1>1, <1>2, <3>1, MemoryAssumption DEF n
    <2> QED BY <1>1, <1>7, <2>1 DEF Inv, TypeOK, disk, sync
  <1> QED BY <1>6, <1>8, <1>9, <1>10, <1>11 DEF Inv

(* A compaction begins with the buffer as it is. *)
LEMMA CompactStep ==
  ASSUME Inv, NEW armed \in BOOLEAN, Compacted(buffer, armed),
         UNCHANGED <<observed, requeued, room, disk, remote, sync, stopping, lost, faults>>
  PROVE  Inv'
  <1> DEFINE C == Texts(Written)
  <1>1. /\ observed \in Nat /\ buffer \in Seq(1..observed)
        /\ comp \in [pc : {"idle", "summarise", "insert"}, drained : Seq(1..observed)]
        /\ InLine(C, comp.drained, buffer)
        /\ comp.pc = "idle" <=> comp.drained = << >>
    BY DEF Inv, Types, Line, TypeOK
  <1>2. Copies' /\ C' = C /\ Texts(OnDisk)' = Texts(OnDisk)
    BY SameStore DEF Inv
  <1> HIDE DEF C
  <1>3. /\ buffer' \in Seq(1..observed)
        /\ comp' \in [pc : {"idle", "summarise", "insert"}, drained : Seq(1..observed)]
        /\ comp'.pc = "idle" <=> comp'.drained = << >>
        /\ idle' \in BOOLEAN
        /\ InLine(C, comp'.drained, buffer')
        /\ Range(comp'.drained) \cup Range(buffer') = Range(comp.drained) \cup Range(buffer)
    BY <1>1, Drains
  <1>4. Types' /\ Line'
    BY <1>2, <1>3 DEF Inv, Types, Line, C
  <1>5. Complete'
    <2> DEFINE K == Within(Texts(OnDisk))
    <2>1. (K \cup Range(comp.drained) \cup Range(buffer)) \cup lost = 1..observed
      BY DEF Inv, Complete
    <2>2. Complete' <=> (K \cup Range(comp'.drained) \cup Range(buffer')) \cup lost = 1..observed
      BY <1>2 DEF Complete
    <2> HIDE DEF K
    <2> QED BY <1>3, <2>1, <2>2
  <1>6. TypeOK'
    BY <1>3 DEF Inv, TypeOK, disk, sync
  <1> QED BY <1>2, <1>4, <1>5, <1>6 DEF Inv

LEMMA SummarisedStep ==
  ASSUME Inv, Summarised
  PROVE  Inv'
  <1>1. /\ comp' = [comp EXCEPT !.pc = "insert"] /\ comp.pc = "summarise"
        /\ UNCHANGED <<observed, buffer, idle, requeued, room, disk, remote, sync, stopping, lost, faults>>
    BY DEF Summarised
  <1>2. Copies' /\ Texts(Written)' = Texts(Written) /\ Texts(OnDisk)' = Texts(OnDisk)
    BY <1>1, SameStore DEF Inv
  <1>3. Types' /\ Line'
    BY <1>1, <1>2, NothingNew DEF Inv
  <1>4. comp'.drained = comp.drained /\ comp'.pc = "insert"
    BY <1>1 DEF Inv, Types
  <1>5. Complete'
    BY <1>1, <1>2, <1>4 DEF Inv, Complete
  <1>6. TypeOK'
    BY <1>1, <1>4 DEF Inv, TypeOK, disk, sync
  <1> QED BY <1>2, <1>3, <1>5, <1>6 DEF Inv

LEMMA NoSummaryStep ==
  ASSUME Inv, NoSummary
  PROVE  Inv'
  <1> DEFINE C == Texts(Written)
             d == comp.drained
  <1>1. /\ buffer' = d \o buffer /\ requeued' = requeued \cup Range(d)
        /\ comp' = [pc |-> "idle", drained |-> << >>]
        /\ faults < MaxFaults /\ faults' = faults + 1
        /\ UNCHANGED <<observed, idle, room, disk, remote, sync, stopping, lost>>
    BY DEF NoSummary, Requeued, Fault
  <1>2. Copies' /\ C' = C /\ Texts(OnDisk)' = Texts(OnDisk)
    BY <1>1, SameStore DEF Inv
  <1>3. /\ observed \in Nat /\ buffer \in Seq(1..observed) /\ d \in Seq(1..observed)
        /\ \A s \in C : s \in Seq(1..observed)
        /\ InLine(C, d, buffer)
    BY DEF Inv, Types, Line
  <1> HIDE DEF C, d
  <1>4. 1..observed \in SUBSET Nat /\ << >> \in Seq(1..observed)
    OBVIOUS
  <1>5. buffer' \in Seq(1..observed) /\ Range(buffer') = Range(d) \cup Range(buffer)
    BY <1>1, <1>3, RangeConcat
  <1>6. InLine(C, << >>, buffer')
    BY <1>1, <1>3, <1>4, LineBack
  <1>7. comp'.drained = << >> /\ comp'.pc = "idle"
    BY <1>1
  <1>8. Line'
    BY <1>2, <1>6, <1>7 DEF Line, C
  <1>9. Types'
    <2>1. comp' \in [pc : {"idle", "summarise", "insert"}, drained : Seq(1..observed)]
      BY <1>1, <1>4
    <2> QED BY <1>1, <1>2, <1>3, <1>5, <2>1 DEF Types, C
  <1>10. Complete'
    <2> DEFINE K == Within(Texts(OnDisk))
    <2>1. (K \cup Range(d) \cup Range(buffer)) \cup lost = 1..observed
      BY DEF Inv, Complete, d
    <2>2. Complete' <=> (K \cup Range(<< >>) \cup Range(buffer')) \cup lost = 1..observed
      BY <1>1, <1>2, <1>7 DEF Complete
    <2> HIDE DEF K
    <2> QED BY <1>5, <2>1, <2>2, RangeEmpty
  <1>11. TypeOK'
    <2>1. lost' \cup requeued' \subseteq 1..observed'
      BY <1>1, <1>3, RangeType DEF Inv, TypeOK
    <2>2. faults' \in 0..MaxFaults
      BY <1>1, MemoryAssumption DEF Inv, TypeOK
    <2> QED BY <1>1, <1>7, <2>1, <2>2 DEF Inv, TypeOK, disk, sync
  <1> QED BY <1>2, <1>8, <1>9, <1>10, <1>11 DEF Inv

-----------------------------------------------------------------------------
(* The database and its copies                                               *)

(* Less is lost from sight than before, so less is safe. *)
LEMMA SafeShrinks ==
  ASSUME NEW X, lost \subseteq lost'
  PROVE  {c \in Chunks(X) : Range(c.of) \cap lost' = {}} \subseteq Safe(X)
  BY DEF Safe

LEMMA GetRoomStep ==
  ASSUME Inv, GetRoom
  PROVE  Inv'
  <1>1. /\ room = "closed" /\ room' = IF file THEN "open" ELSE "restoring"
        /\ UNCHANGED <<observed, buffer, idle, comp, requeued, file, rows, main, remote,
                       dirty, timer, upload, waiter, stopping, lost, faults>>
    BY DEF GetRoom, memory, disk, sync
  <1>2. Texts(Written)' = Texts(Written) /\ Texts(OnDisk)' = Texts(OnDisk) /\ Safe(remote)' = Safe(remote)
    BY <1>1 DEF Written, OnDisk, Safe, Texts, Chunks
  <1>3. Types' /\ Line' /\ Complete'
    BY <1>1, <1>2 DEF Inv, Types, Line, Complete
  <1>4. Copies'
    BY <1>1, <1>2 DEF Inv, Copies, Chunks
  <1>5. TypeOK'
    BY <1>1 DEF Inv, TypeOK
  <1> QED BY <1>3, <1>4, <1>5 DEF Inv

LEMMA RestoreStep ==
  ASSUME Inv, Restore
  PROVE  Inv'
  <1>1. /\ room = "restoring" /\ room' = "open" /\ file' = TRUE /\ rows' = remote /\ main' = remote
        /\ UNCHANGED <<observed, buffer, idle, comp, requeued, remote,
                       dirty, timer, upload, waiter, stopping, lost, faults>>
    BY DEF Restore, memory, sync
  <1>2. ~file /\ ~dirty /\ upload.pc # "copied"
    BY <1>1 DEF Inv, Copies
  <1>3. Texts(Written)' \subseteq Texts(Written) /\ Texts(OnDisk)' = Texts(OnDisk)
    BY <1>1, <1>2 DEF Written, OnDisk, Texts, Chunks
  <1>4. Types' /\ Line'
    BY <1>1, <1>3, NothingNew DEF Inv
  <1>5. Complete'
    BY <1>1, <1>3 DEF Inv, Complete
  <1>6. Copies'
    BY <1>1, <1>2 DEF Copies, Safe, Chunks
  <1>7. TypeOK'
    BY <1>1 DEF Inv, TypeOK
  <1> QED BY <1>4, <1>5, <1>6, <1>7 DEF Inv

LEMMA StartFreshStep ==
  ASSUME Inv, StartFresh
  PROVE  Inv'
  <1>1. /\ room = "restoring" /\ room' = "open" /\ file' = TRUE
        /\ lost' = lost \cup UNION {Range(r.of) : r \in Chunks(remote)}
        /\ faults < MaxFaults /\ faults' = faults + 1
        /\ UNCHANGED <<observed, buffer, idle, comp, requeued, rows, main, remote,
                       dirty, timer, upload, waiter, stopping>>
    BY DEF StartFresh, Fault, memory, sync
  <1>2. ~file /\ rows = {} /\ main = {} /\ ~dirty /\ upload.pc \notin {"copied"}
    BY <1>1 DEF Inv, Copies, TypeOK
  <1>3. /\ Texts(Written)' = Texts(Written) /\ Texts(OnDisk)' = {}
        /\ Texts(OnDisk) = Texts(remote)
    BY <1>1, <1>2 DEF Written, OnDisk, Texts, Chunks
  <1>4. UNION {Range(r.of) : r \in Chunks(remote)} = Within(Texts(remote))
    BY DEF Within, Texts
  <1>5. Types' /\ Line'
    BY <1>1, <1>3, NothingNew DEF Inv
  <1>6. Complete'
    <2>1. Within({}) = {}
      BY DEF Within
    <2> QED BY <1>1, <1>3, <1>4, <2>1 DEF Inv, Complete
  <1>7. Copies'
    <2>1. Safe(remote)' = {}
      <3>1. ASSUME NEW c \in Chunks(remote)
            PROVE  Range(c.of) \cap lost' # {}
        <4>1. c.of \in Texts(Written)
          BY DEF Texts, Written, Chunks
        <4>2. c.of # << >>
          BY DEF Inv, TypeOK, Chunks
        <4>3. c.of \in Seq(1..observed)
          BY <4>1 DEF Inv, Types
        <4>4. Range(c.of) # {}
          BY <4>2, <4>3, RangeType
        <4>5. Range(c.of) \subseteq lost'
          BY <1>1
        <4> QED BY <4>4, <4>5
      <3> QED BY <1>1, <3>1 DEF Safe, Chunks
    <2> QED BY <1>1, <1>2, <2>1 DEF Copies, Chunks
  <1>8. TypeOK'
    <2>1. Within(Texts(remote)) \subseteq 1..observed
      BY <1>3 DEF Inv, Complete
    <2>2. faults' \in 0..MaxFaults
      BY <1>1, MemoryAssumption DEF Inv, TypeOK
    <2> QED BY <1>1, <1>4, <2>1, <2>2 DEF Inv, TypeOK
  <1> QED BY <1>5, <1>6, <1>7, <1>8 DEF Inv

(* A write that adds no chunk and removes none. *)
LEMMA WriteStep ==
  ASSUME Inv, NEW content, Write(content), UNCHANGED <<memory, lost>>,
         Chunks(content) = Chunks(rows),
         \A r \in content : r.kind \in {"chunk", "fact"} /\ r.of # << >>
  PROVE  Inv'
  <1>1. /\ room = "open" /\ rows' = content /\ dirty' = TRUE /\ timer' = TRUE
        /\ UNCHANGED <<observed, buffer, idle, comp, requeued, lost,
                       file, main, remote, upload, waiter, stopping, room, faults>>
    BY DEF Write, memory
  <1>2. file
    BY <1>1 DEF Inv, TypeOK
  <1>3. /\ Texts(Written)' = Texts(Written) /\ Texts(OnDisk)' = Texts(OnDisk)
        /\ Chunks(rows)' = Chunks(rows) /\ Safe(remote)' = Safe(remote)
    BY <1>1, <1>2 DEF Written, OnDisk, Texts, Chunks, Safe
  <1>4. Types' /\ Line' /\ Complete'
    BY <1>1, <1>3 DEF Inv, Types, Line, Complete
  <1>5. Copies'
    BY <1>1, <1>2, <1>3 DEF Inv, Copies, Chunks
  <1>6. TypeOK'
    BY <1>1, <1>2 DEF Inv, TypeOK
  <1> QED BY <1>4, <1>5, <1>6 DEF Inv

LEMMA InsertStep ==
  ASSUME Inv, InsertChunk
  PROVE  Inv'
  <1> DEFINE C == Texts(Written)
             d == comp.drained
  <1>1. /\ comp.pc = "insert" /\ room = "open" /\ rows' = rows \cup {Chunk(d)}
        /\ comp' = [pc |-> "idle", drained |-> << >>] /\ dirty' = TRUE /\ timer' = TRUE
        /\ UNCHANGED <<observed, buffer, idle, requeued, lost,
                       file, main, remote, upload, waiter, stopping, room, faults>>
    BY DEF InsertChunk, Write
  <1>2. file
    BY <1>1 DEF Inv, TypeOK
  <1>3. Chunk(d).kind = "chunk" /\ Chunk(d).of = d
    BY DEF Chunk, Row
  <1>4. Chunks(rows') = Chunks(rows) \cup {Chunk(d)}
    BY <1>1, <1>3 DEF Chunks
  <1>5. C' = C \cup {d} /\ Texts(OnDisk)' = Texts(OnDisk) \cup {d}
    <2>1. Texts(rows') = Texts(rows) \cup {d}
      BY <1>3, <1>4 DEF Texts
    <2>2. C' = C \cup {d}
      <3> DEFINE c == Chunk(d)
      <3>1. Chunks(Written)' = Chunks(Written) \cup {c}
        <4>1. c.kind = "chunk" /\ rows' = rows \cup {c}
          BY <1>1, <1>3
        <4> HIDE DEF c
        <4> QED BY <1>1, <4>1 DEF Written, Chunks
      <3> HIDE DEF c
      <3> QED BY <1>3, <3>1 DEF Texts, c
    <2>3. Texts(OnDisk) = Texts(rows) /\ Texts(OnDisk)' = Texts(rows')
      BY <1>1, <1>2 DEF OnDisk
    <2> QED BY <2>1, <2>2, <2>3
  <1>6. /\ observed \in Nat /\ buffer \in Seq(1..observed) /\ d \in Seq(1..observed)
        /\ \A s \in C : s \in Seq(1..observed)
        /\ InLine(C, d, buffer) /\ << >> \in Seq(1..observed)
    BY DEF Inv, Types, Line
  <1>7. comp'.drained = << >> /\ comp'.pc = "idle"
    BY <1>1
  <1>8. Complete'
    <2> DEFINE K == Within(Texts(OnDisk))
    <2>1. (K \cup Range(d) \cup Range(buffer)) \cup lost = 1..observed
      BY DEF Inv, Complete
    <2>2. Within(Texts(OnDisk) \cup {d}) = K \cup Range(d)
      BY DEF Within
    <2>3. Complete' <=> (K \cup Range(d) \cup Range(<< >>) \cup Range(buffer)) \cup lost = 1..observed
      BY <1>1, <1>5, <1>7, <2>2 DEF Complete
    <2> HIDE DEF K
    <2> QED BY <2>1, <2>3, RangeEmpty
  <1>9. Copies'
    <2>1. Safe(remote)' = Safe(remote)
      BY <1>1 DEF Safe, Chunks
    <2> QED BY <1>1, <1>2, <1>4, <2>1 DEF Inv, Copies, Chunks
  <1>10. TypeOK'
    <2>1. d # << >>
      BY <1>1 DEF Inv, TypeOK
    <2> QED BY <1>1, <1>2, <1>3, <1>7, <2>1 DEF Inv, TypeOK
  <1>11. Types'
    <2>1. comp' \in [pc : {"idle", "summarise", "insert"}, drained : Seq(1..observed)]
      BY <1>1, <1>6
    <2> QED BY <1>1, <1>5, <1>6, <2>1 DEF Types
  <1> HIDE DEF C, d
  <1>12. InLine(C \cup {d}, << >>, buffer)
    BY <1>6, LineStore
  <1>13. Line'
    BY <1>1, <1>5, <1>7, <1>12 DEF Line, C
  <1> QED BY <1>8, <1>9, <1>10, <1>11, <1>13 DEF Inv

LEMMA FailInsertStep ==
  ASSUME Inv, FailInsert
  PROVE  Inv'
  <1>1. /\ comp.pc = "insert" /\ room = "open"
        /\ comp' = [pc |-> "idle", drained |-> << >>]
        /\ lost' = lost \cup Range(comp.drained)
        /\ faults < MaxFaults /\ faults' = faults + 1
        /\ UNCHANGED <<observed, buffer, idle, requeued, room, file, rows, main, remote,
                       dirty, timer, upload, waiter, stopping>>
    BY DEF FailInsert, Fault, disk, sync
  <1>2. /\ Texts(Written)' = Texts(Written) /\ Texts(OnDisk)' = Texts(OnDisk)
        /\ Safe(remote)' \subseteq Safe(remote)
    BY <1>1 DEF Written, OnDisk, Texts, Chunks, Safe
  <1>3. Types' /\ Line'
    BY <1>1, <1>2, NothingNew DEF Inv
  <1>4. comp'.drained = << >> /\ comp'.pc = "idle"
    BY <1>1
  <1>5. Complete'
    BY <1>1, <1>2, <1>4, RangeEmpty DEF Inv, Complete
  <1>6. Copies'
    BY <1>1, <1>2 DEF Inv, Copies, Chunks
  <1>7. TypeOK'
    <2>1. Range(comp.drained) \subseteq 1..observed
      BY RangeType DEF Inv, Types
    <2>2. faults' \in 0..MaxFaults
      BY <1>1, MemoryAssumption DEF Inv, TypeOK
    <2> QED BY <1>1, <1>4, <2>1, <2>2 DEF Inv, TypeOK
  <1> QED BY <1>3, <1>5, <1>6, <1>7 DEF Inv

LEMMA CheckpointStep ==
  ASSUME Inv, Checkpoint
  PROVE  Inv'
  <1>1. /\ room = "open" /\ main' = rows
        /\ UNCHANGED <<observed, buffer, idle, comp, requeued, room, file, rows, remote,
                       dirty, timer, upload, waiter, stopping, lost, faults>>
    BY DEF Checkpoint, memory, sync
  <1>2. file
    BY <1>1 DEF Inv, TypeOK
  <1>3. /\ Texts(Written)' \subseteq Texts(Written) /\ Texts(OnDisk)' = Texts(OnDisk)
        /\ Safe(remote)' = Safe(remote)
    BY <1>1, <1>2 DEF Written, OnDisk, Texts, Chunks, Safe
  <1>4. Types' /\ Line'
    BY <1>1, <1>3, NothingNew DEF Inv
  <1>5. Complete' /\ Copies'
    BY <1>1, <1>2, <1>3 DEF Inv, Complete, Copies, Chunks
  <1>6. TypeOK'
    BY <1>1, <1>2 DEF Inv, TypeOK
  <1> QED BY <1>4, <1>5, <1>6 DEF Inv

-----------------------------------------------------------------------------
(* Uploading                                                                 *)

(* An upload under way goes on, or the main file is copied. *)
LEMMA UploadSteps ==
  ASSUME Inv, UNCHANGED <<memory, room, disk, remote, dirty, lost>>,
         {timer', waiter', stopping'} \subseteq BOOLEAN, faults' \in 0..MaxFaults,
         \/ UNCHANGED upload
         \/ StartUpload /\ room = "open"
         \/ upload' = [pc |-> "idle", snapshot |-> NoSnapshot]
  PROVE  Inv'
  <1>1. UNCHANGED <<observed, buffer, idle, comp, requeued, room, file, rows, main, remote, dirty, lost>>
    BY DEF memory, disk
  <1>2. \/ upload' = upload
        \/ upload'.pc = "copied" /\ upload'.snapshot = main /\ room = "open" /\ file
        \/ upload'.pc = "idle" /\ upload'.snapshot = {}
    BY DEF StartUpload, NoSnapshot, Inv, TypeOK
  <1>3. /\ Texts(Written)' \subseteq Texts(Written) /\ Texts(OnDisk)' = Texts(OnDisk)
        /\ Safe(remote)' = Safe(remote)
    BY <1>1, <1>2 DEF Written, OnDisk, Texts, Chunks, Safe
  <1>4. Types' /\ Line'
    BY <1>1, <1>3, NothingNew DEF Inv
  <1>5. Complete'
    BY <1>1, <1>3 DEF Inv, Complete
  <1>6. Copies'
    BY <1>1, <1>2, <1>3 DEF Inv, Copies, Chunks
  <1>7. TypeOK'
    BY <1>1, <1>2 DEF Inv, TypeOK
  <1> QED BY <1>4, <1>5, <1>6, <1>7 DEF Inv

LEMMA SyncTimerStep ==
  ASSUME Inv, SyncTimer
  PROVE  Inv'
  <1>1. /\ UNCHANGED <<memory, room, disk, remote, dirty, stopping, lost, faults>>
        /\ timer' = FALSE /\ waiter' \in BOOLEAN
        /\ UNCHANGED upload \/ (StartUpload /\ dirty)
    BY DEF SyncTimer, Inv, TypeOK, sync
  <1>2. dirty => room = "open"
    BY DEF Inv, Copies
  <1>3. {timer', waiter', stopping'} \subseteq BOOLEAN /\ faults' \in 0..MaxFaults
    BY <1>1 DEF Inv, TypeOK
  <1> QED BY <1>1, <1>2, <1>3, UploadSteps

LEMMA FinishUploadStep ==
  ASSUME Inv, FinishUpload
  PROVE  Inv' /\ Safe(remote) \subseteq Chunks(remote')
  <1>1. /\ upload.pc = "copied" /\ remote' = upload.snapshot
        /\ dirty' = FALSE /\ waiter' = FALSE
        /\ upload' = [pc |-> "idle", snapshot |-> {}]
        /\ UNCHANGED <<observed, buffer, idle, comp, requeued, room, file, rows, main,
                       timer, stopping, lost, faults>>
    BY DEF FinishUpload, NoSnapshot, memory, disk
  <1>2. /\ room = "open" /\ file
        /\ Safe(remote) \subseteq Chunks(upload.snapshot)
        /\ Chunks(upload.snapshot) \subseteq Chunks(main)
    BY <1>1 DEF Inv, Copies, TypeOK
  <1>3. Texts(Written)' \subseteq Texts(Written) /\ Texts(OnDisk)' = Texts(OnDisk)
    BY <1>1, <1>2 DEF Written, OnDisk, Texts, Chunks
  <1>4. Types' /\ Line'
    BY <1>1, <1>3, NothingNew DEF Inv
  <1>5. Complete'
    BY <1>1, <1>3 DEF Inv, Complete
  <1>6. Copies'
    BY <1>1, <1>2 DEF Inv, Copies, Safe, Chunks
  <1>7. TypeOK'
    BY <1>1, <1>2 DEF Inv, TypeOK
  <1> QED BY <1>1, <1>2, <1>4, <1>5, <1>6, <1>7 DEF Inv

LEMMA FailUploadStep ==
  ASSUME Inv, FailUpload
  PROVE  Inv'
  <1>1. /\ UNCHANGED <<memory, room, disk, remote, dirty, timer, stopping, lost>>
        /\ waiter' = FALSE /\ upload' = [pc |-> "idle", snapshot |-> NoSnapshot]
        /\ faults < MaxFaults /\ faults' = faults + 1
    BY DEF FailUpload, Fault
  <1>2. {timer', waiter', stopping'} \subseteq BOOLEAN
    BY <1>1 DEF Inv, TypeOK
  <1>3. faults' \in 0..MaxFaults
    BY <1>1, MemoryAssumption DEF Inv, TypeOK
  <1> QED BY <1>1, <1>2, <1>3, UploadSteps

-----------------------------------------------------------------------------
(* The process                                                               *)

LEMMA ShutdownStep ==
  ASSUME Inv, Shutdown
  PROVE  Inv'
  <1>1. /\ buffer' = << >> /\ idle' = FALSE /\ timer' = FALSE /\ stopping' = TRUE
        /\ lost' = lost \cup Range(buffer)
        /\ faults < MaxFaults /\ faults' = faults + 1
        /\ waiter' \in BOOLEAN
        /\ UNCHANGED upload \/ (StartUpload /\ room = "open")
        /\ UNCHANGED <<observed, comp, requeued, room, file, rows, main, remote, dirty>>
    BY DEF Shutdown, Fault, disk, Inv, TypeOK
  <1>2. \/ upload' = upload
        \/ upload'.pc = "copied" /\ upload'.snapshot = main /\ room = "open" /\ file
    BY <1>1 DEF StartUpload, Inv, TypeOK
  <1>3. /\ Texts(Written)' \subseteq Texts(Written) /\ Texts(OnDisk)' = Texts(OnDisk)
        /\ Safe(remote)' \subseteq Safe(remote)
    BY <1>1, <1>2 DEF Written, OnDisk, Texts, Chunks, Safe
  <1>4. Types' /\ Line'
    BY <1>1, <1>3, NothingNew DEF Inv
  <1>5. Complete'
    BY <1>1, <1>3, RangeEmpty DEF Inv, Complete
  <1>6. Copies'
    BY <1>1, <1>2, <1>3 DEF Inv, Copies, Chunks
  <1>7. TypeOK'
    <2>1. Range(buffer) \subseteq 1..observed
      BY RangeType DEF Inv, Types
    <2>2. faults' \in 0..MaxFaults
      BY <1>1, MemoryAssumption DEF Inv, TypeOK
    <2> QED BY <1>1, <1>2, <2>1, <2>2 DEF Inv, TypeOK
  <1> QED BY <1>4, <1>5, <1>6, <1>7 DEF Inv

(* On the same disk or an empty one, with the WAL or without. *)
LEMMA RestartStep ==
  ASSUME Inv, NEW kept \in BOOLEAN, NEW inMain \in {rows, main}, Restarted(kept, inMain),
         faults' \in 0..MaxFaults
  PROVE  Inv'
  <1> DEFINE gone == Chunks(OnDisk) \ (IF kept THEN OnDisk ELSE remote)
  <1>1. /\ comp' = [pc |-> "idle", drained |-> << >>]
        /\ buffer' = << >> /\ idle' = FALSE /\ room' = "closed"
        /\ dirty' = FALSE /\ timer' = FALSE /\ waiter' = FALSE /\ stopping' = FALSE
        /\ upload'.pc = "idle" /\ upload'.snapshot = {}
        /\ file' = (file /\ kept)
        /\ rows' = IF kept THEN rows ELSE {}
        /\ main' = IF kept THEN inMain ELSE {}
        /\ lost' = lost \cup Range(buffer) \cup Range(comp.drained) \cup UNION {Range(r.of) : r \in gone}
        /\ UNCHANGED <<observed, requeued, remote>>
    BY DEF Restarted, Fresh, NoSnapshot
  <1>2. comp'.pc = "idle" /\ comp'.drained = << >>
    BY <1>1
  <1>3. Texts(Written)' \subseteq Texts(Written) /\ Safe(remote)' \subseteq Safe(remote)
    BY <1>1 DEF Written, Texts, Chunks, Safe
  <1>4. Types' /\ Line'
    BY <1>1, <1>3, NothingNew DEF Inv
  <1>5. Texts(OnDisk)' \subseteq Texts(Written)
    BY <1>1 DEF OnDisk, Written, Texts, Chunks
  <1>6. Complete'
    <2>1. CASE kept \/ ~file
      <3>1. Texts(OnDisk)' = Texts(OnDisk)
        BY <1>1, <2>1 DEF OnDisk, Texts, Chunks
      <3>2. gone = {}
        BY <2>1 DEF OnDisk, Chunks
      <3> QED BY <1>1, <1>2, <3>1, <3>2, RangeEmpty DEF Inv, Complete
    <2>2. CASE file /\ ~kept
      <3>1. Texts(OnDisk)' = Texts(remote) /\ OnDisk = rows
        BY <1>1, <2>2 DEF OnDisk, Texts, Chunks
      <3>2. Within(Texts(OnDisk)) \subseteq Within(Texts(remote)) \cup UNION {Range(r.of) : r \in gone}
        BY <2>2 DEF Within, Texts, Chunks
      <3>3. Within(Texts(remote)) \subseteq 1..observed
        <4>1. \A s \in Texts(remote) : s \in Seq(1..observed)
          BY DiskIsWritten DEF Inv, Types
        <4> QED BY <4>1, RangeType DEF Within
      <3>4. UNION {Range(r.of) : r \in gone} \subseteq Within(Texts(OnDisk))
        BY DEF Within, Texts
      <3> DEFINE K == Within(Texts(OnDisk))
                 L == Within(Texts(remote))
                 G == UNION {Range(r.of) : r \in gone}
      <3>5. K \cup Range(comp.drained) \cup Range(buffer) \cup lost = 1..observed
        BY DEF Inv, Complete
      <3>6. K \subseteq L \cup G /\ L \subseteq 1..observed /\ G \subseteq K
        BY <3>2, <3>3, <3>4
      <3>7. Complete' <=> L \cup Range(<< >>) \cup Range(<< >>) \cup lost' = 1..observed
        BY <1>1, <1>2, <3>1 DEF Complete
      <3>8. lost' = lost \cup Range(buffer) \cup Range(comp.drained) \cup G
        BY <1>1
      <3> HIDE DEF K, L, G, gone
      <3> QED BY <3>5, <3>6, <3>7, <3>8, RangeEmpty
    <2> QED BY <2>1, <2>2
  <1>7. Copies'
    BY <1>1, <1>3 DEF Inv, Copies, Chunks
  <1>8. TypeOK'
    <2>1. lost' \subseteq 1..observed
      BY <1>1, <1>6 DEF Complete
    <2>2. requeued \subseteq 1..observed
      BY DEF Inv, TypeOK
    <2> QED BY <1>1, <1>2, <2>1, <2>2 DEF Inv, TypeOK
  <1> QED BY <1>4, <1>6, <1>7, <1>8 DEF Inv

-----------------------------------------------------------------------------
(* Theorems                                                                  *)

LEMMA InvInit == Init => Inv
  <1> SUFFICES ASSUME Init PROVE Inv
    OBVIOUS
  <1>1. Texts(Written) = {} /\ Texts(OnDisk) = {} /\ << >> \in Seq(1..observed)
    BY DEF Init, Written, OnDisk, Texts, Chunks, NoSnapshot
  <1>2. TypeOK
    <2>1. observed \in 0..MaxMessages /\ faults \in 0..MaxFaults
      BY MemoryAssumption DEF Init
    <2> QED BY <2>1 DEF Init, TypeOK, NoSnapshot
  <1>3. Types
    <2>1. comp \in [pc : {"idle", "summarise", "insert"}, drained : Seq(1..observed)]
      BY <1>1 DEF Init
    <2> QED BY <1>1, <2>1 DEF Init, Types
  <1>4. Line
    BY <1>1, EmptyInLine DEF Init, Line, InLine
  <1>5. Complete
    BY <1>1, RangeEmpty DEF Init, Complete, Within
  <1>6. Copies
    BY DEF Init, Copies, NoSnapshot, Chunks, Safe
  <1> QED BY <1>2, <1>3, <1>4, <1>5, <1>6 DEF Inv

(* One step per action; only the end of an upload touches the room's copy. *)
LEMMA InvStep ==
  ASSUME Inv, [Next]_vars
  PROVE  Inv' /\ Safe(remote) \subseteq Chunks(remote')
  <1>1. Safe(remote) \subseteq Chunks(remote)
    BY DEF Safe
  <1>2. CASE UNCHANGED vars
    <2>1. /\ UNCHANGED <<memory, room, disk, remote, dirty, lost>>
          /\ UNCHANGED upload /\ UNCHANGED <<timer, waiter, stopping, faults>>
      BY <1>2 DEF vars, sync
    <2>2. {timer', waiter', stopping'} \subseteq BOOLEAN /\ faults' \in 0..MaxFaults
      BY <2>1 DEF Inv, TypeOK
    <2>3. Inv'
      BY <2>1, <2>2, UploadSteps
    <2> QED BY <1>1, <2>1, <2>3
  <1>3. CASE ObserveMessage
    BY <1>1, <1>3, ObserveStep DEF ObserveMessage
  <1>4. CASE CompactJustInTime
    <2>1. idle \in BOOLEAN
      BY DEF Inv, TypeOK
    <2> QED BY <1>1, <1>4, <2>1, CompactStep DEF CompactJustInTime
  <1>5. CASE IdleTimer
    BY <1>1, <1>5, CompactStep DEF IdleTimer
  <1>6. CASE Summarised
    BY <1>1, <1>6, SummarisedStep DEF Summarised
  <1>7. CASE NoSummary
    BY <1>1, <1>7, NoSummaryStep DEF NoSummary
  <1>8. CASE InsertChunk
    BY <1>1, <1>8, InsertStep DEF InsertChunk, Write
  <1>9. CASE FailInsert
    BY <1>1, <1>9, FailInsertStep DEF FailInsert
  <1>10. CASE GetRoom
    BY <1>1, <1>10, GetRoomStep DEF GetRoom
  <1>11. CASE Restore
    BY <1>1, <1>11, RestoreStep DEF Restore
  <1>12. CASE StartFresh
    BY <1>1, <1>12, StartFreshStep DEF StartFresh
  <1>13. ASSUME NEW f \in Facts, PinFact(f) \/ UnpinFact(f)
         PROVE  Inv' /\ remote' = remote
    <2>1. Fact(f).kind = "fact" /\ Fact(f).of # << >>
      BY DEF Fact, Row
    <2>2. \A r \in rows : r.kind \in {"chunk", "fact"} /\ r.of # << >>
      BY DEF Inv, TypeOK
    <2>3. /\ Chunks(rows \cup {Fact(f)}) = Chunks(rows)
          /\ Chunks(rows \ {Fact(f)}) = Chunks(rows)
      BY <2>1 DEF Chunks
    <2>4. CASE PinFact(f)
      BY <2>1, <2>2, <2>3, <2>4, WriteStep DEF PinFact, Write
    <2>5. CASE UnpinFact(f)
      BY <2>2, <2>3, <2>5, WriteStep DEF UnpinFact, Write
    <2> QED BY <1>13, <2>4, <2>5
  <1>14. CASE RefreshMembers
    <2>1. \A r \in rows : r.kind \in {"chunk", "fact"} /\ r.of # << >>
      BY DEF Inv, TypeOK
    <2> QED BY <1>1, <1>14, <2>1, WriteStep DEF RefreshMembers, Write
  <1>15. CASE Checkpoint
    BY <1>1, <1>15, CheckpointStep DEF Checkpoint
  <1>16. CASE SyncTimer
    BY <1>1, <1>16, SyncTimerStep DEF SyncTimer
  <1>17. CASE FinishUpload
    BY <1>17, FinishUploadStep
  <1>18. CASE FailUpload
    BY <1>1, <1>18, FailUploadStep DEF FailUpload
  <1>19. CASE Shutdown
    BY <1>1, <1>19, ShutdownStep DEF Shutdown
  <1>20. CASE Stopped
    <2>1. faults' \in 0..MaxFaults
      BY <1>20 DEF Stopped, Inv, TypeOK
    <2> QED BY <1>1, <1>20, <2>1, RestartStep DEF Stopped, Restarted
  <1>21. CASE Crash
    <2>1. faults' \in 0..MaxFaults
      BY <1>21, MemoryAssumption DEF Crash, Fault, Inv, TypeOK
    <2> QED BY <1>1, <1>21, <2>1, RestartStep DEF Crash, Restarted
  <1> QED BY <1>1, <1>2, <1>3, <1>4, <1>5, <1>6, <1>7, <1>8, <1>9, <1>10, <1>11, <1>12, <1>13,
             <1>14, <1>15, <1>16, <1>17, <1>18, <1>19, <1>20, <1>21 DEF Next, Compaction

(* What follows from the invariant. *)
LEMMA InvKeeps == Inv => MemoryIsKept
  <1> SUFFICES ASSUME Inv PROVE MemoryIsKept
    OBVIOUS
  <1> DEFINE C == Texts(Written)
             D == Texts(OnDisk)
  <1>1. D \in SUBSET C
    BY DiskIsWritten
  <1>2. InLine(C, comp.drained, buffer)
    BY DEF Inv, Line
  <1> HIDE DEF C, D
  <1>3. InLine(D, comp.drained, buffer)
    BY <1>1, <1>2, LineLess
  <1> QED BY <1>3 DEF Inv, Complete, MemoryIsKept, NothingForgotten, D

LEMMA Invariance == Spec => []Inv
  <1>1. Inv /\ [Next]_vars => Inv'
    BY InvStep
  <1> QED BY InvInit, <1>1, PTL DEF Spec

(* Every message observed in a room is in one chunk, in the summary on its way, *)
(* in the buffer or booked as lost by a failure, and all are in their order.   *)
THEOREM NothingIsForgotten == Spec => []MemoryIsKept
  BY Invariance, InvKeeps, PTL

(* The room's copy of the memory is never replaced by one with fewer chunks,   *)
(* but for what a failed restore made the process forget.                      *)
THEOREM BackupsGrow == Spec => BackupGrows
  <1>1. Inv /\ [Next]_vars => [Safe(remote) \subseteq Chunks(remote')]_vars
    BY InvStep
  <1> QED BY Invariance, <1>1, PTL DEF Spec, BackupGrows

-----------------------------------------------------------------------------
(* Home servers: lists, and recursion on numbers                             *)

LEMMA SameRange == \A s : Servers!Range(s) = Range(s)
  BY Zenon DEF Range, Servers!Range

(* A finite set can be listed.                                               *)
LEMMA Listed ==
  ASSUME NEW S, IsFiniteSet(S)
  PROVE  Servers!SetToSeq(S) \in Seq(S) /\ Range(Servers!SetToSeq(S)) = S
  <1> DEFINE n == Cardinality(S)
             f == Servers!SetToSeq(S)
  <1>1. n \in Nat /\ Bijection(1..n, S) # {}
    BY FS_CardinalityType DEF ExistsBijection
  <1>2. Servers!Cardinality(S) = n
    BY Zenon DEF Servers!Cardinality, Cardinality
  <1>3. \A g : Servers!IsInjective(g) <=> IsInjective(g)
    BY Zenon DEF Servers!IsInjective, IsInjective
  <1> HIDE DEF n
  <1>4. \E g \in [1..n -> S] : Servers!IsInjective(g)
    BY <1>1, <1>3 DEF Bijection, Injection
  <1>5. f = CHOOSE g \in [1..n -> S] : Servers!IsInjective(g)
    BY <1>2, Zenon DEF Servers!SetToSeq
  <1> HIDE DEF f
  <1>6. f \in [1..n -> S] /\ Servers!IsInjective(f)
    BY <1>4, <1>5, Zenon
  <1>7. f \in Injection(1..n, S)
    BY <1>3, <1>6 DEF Injection
  <1>8. f \in Surjection(1..n, S)
    <2>1. IsFiniteSet(1..n) /\ Cardinality(1..n) = n
      BY <1>1, FS_Interval
    <2> QED BY <2>1, <1>7, FS_Injection DEF n
  <1>9. Range(f) = S
    BY <1>6, <1>8 DEF Surjection, Range
  <1> QED BY <1>1, <1>6, <1>9 DEF f

LEMMA FinitePairs ==
  ASSUME NEW c, NEW S, IsFiniteSet(S)
  PROVE  IsFiniteSet({<<c, d>> : d \in S})
  <1> DEFINE T == {<<c, d>> : d \in S}
             f == [d \in S |-> <<c, d>>]
  <1>1. f \in Surjection(S, T)
    BY DEF Surjection
  <1> QED BY <1>1, FS_Surjection

-----------------------------------------------------------------------------
(* What is cached                                                            *)

Told(e) == e.url \in {Servers!Resolved(e.did), Servers!Default}

CacheOK(es) ==
  /\ es \in Seq(Servers!Entries) /\ Len(es) <= MaxCache
  /\ \A i \in DOMAIN es : Told(es[i])

LEMMA EntryIsKept ==
  ASSUME NEW es, CacheOK(es), NEW e \in Servers!Entries, Told(e)
  PROVE  CacheOK(Servers!SetCached(es, e))
  <1> DEFINE E == Servers!Entries
             kept == IF Len(es) >= MaxCache THEN Tail(es) ELSE es
  <1>1. MaxCache \in Nat \ {0}
    BY ServersAssumption DEF Servers!HomeServersAssumption
  <1>2. /\ kept \in Seq(E) /\ Len(kept) < MaxCache
        /\ \A i \in DOMAIN kept : Told(kept[i])
    <2> HIDE DEF E
    <2>1. es \in Seq(E) /\ Len(es) <= MaxCache /\ \A i \in 1..Len(es) : Told(es[i])
      BY DEF CacheOK, E
    <2>2. CASE Len(es) >= MaxCache
      <3>1. es # << >>
        BY <1>1, <2>1, <2>2
      <3>2. /\ Tail(es) \in Seq(E) /\ Len(Tail(es)) = Len(es) - 1
            /\ \A i \in 1..Len(Tail(es)) : Tail(es)[i] = es[i + 1] /\ i + 1 \in 1..Len(es)
        BY <2>1, <3>1
      <3> QED BY <1>1, <2>1, <2>2, <3>2
    <2>3. CASE ~(Len(es) >= MaxCache)
      BY <1>1, <2>1, <2>3
    <2> QED BY <2>2, <2>3
  <1>3. Servers!SetCached(es, e) = Servers!SetCached_unbounded(kept, e)
    BY DEF Servers!SetCached
  <1> HIDE DEF kept
  <1> DEFINE known == \E i \in DOMAIN kept : kept[i].did = e.did
             mended == [i \in DOMAIN kept |-> IF kept[i].did = e.did THEN e ELSE kept[i]]
  <1>4. CASE known
    <2>1. Servers!SetCached_unbounded(kept, e) = mended
      BY <1>4, Zenon DEF Servers!SetCached_unbounded
    <2>2. DOMAIN kept = 1..Len(kept) /\ Len(kept) \in Nat /\ \A i \in 1..Len(kept) : kept[i] \in E
      <3> HIDE DEF E
      <3> QED BY <1>2
    <2>3. DOMAIN mended = 1..Len(kept) /\ \A i \in 1..Len(kept) : mended[i] \in {e, kept[i]}
      BY <2>2
    <2> HIDE DEF mended, known, E
    <2>4. \A i \in 1..Len(kept) : mended[i] \in E /\ Told(mended[i])
      BY <1>2, <2>2, <2>3 DEF E
    <2>5. mended = [i \in 1..Len(kept) |-> mended[i]]
      BY <2>2 DEF mended
    <2>6. mended \in Seq(E) /\ Len(mended) = Len(kept)
      BY <2>2, <2>4, <2>5
    <2> QED BY <1>1, <1>2, <1>3, <2>1, <2>2, <2>3, <2>4, <2>6 DEF CacheOK, E
  <1>5. CASE ~known
    <2>1. Servers!SetCached_unbounded(kept, e) = Append(kept, e)
      BY <1>5, Zenon DEF Servers!SetCached_unbounded
    <2> HIDE DEF known, E
    <2>2. e \in E
      BY DEF E
    <2>3. /\ Append(kept, e) \in Seq(E) /\ Len(Append(kept, e)) = Len(kept) + 1
          /\ \A i \in 1..(Len(kept) + 1) : Append(kept, e)[i] = IF i = Len(kept) + 1 THEN e ELSE kept[i]
          /\ DOMAIN kept = 1..Len(kept) /\ Len(kept) \in Nat
          /\ DOMAIN Append(kept, e) = 1..(Len(kept) + 1)
      BY <1>2, <2>2
    <2>4. \A i \in DOMAIN Append(kept, e) : Told(Append(kept, e)[i])
      BY <1>2, <2>3
    <2>5. Len(Append(kept, e)) <= MaxCache
      BY <1>1, <1>2, <2>3
    <2> QED BY <1>3, <2>1, <2>3, <2>4, <2>5 DEF CacheOK, E
  <1> QED BY <1>4, <1>5

(* A set of numbers that is not empty has a least element.                   *)
LEMMA Least ==
  ASSUME NEW S \in SUBSET Nat, S # {}
  PROVE  \E n \in S : \A m \in S : n <= m
  <1>1. PICK n \in S : \A m \in S : ~ (<<m, n>> \in OpToRel(<, Nat))
    BY NatLessThanWellFounded, WFMin, Zenon
  <1>2. \A x, y \in Nat : x < y => <<x, y>> \in OpToRel(<, Nat)
    BY Zenon DEF OpToRel
  <1>3. \A m \in S : ~(m < n)
    BY <1>1, <1>2, Zenon
  <1>4. n \in Nat /\ \A m \in S : m \in Nat
    OBVIOUS
  <1>5. \A m \in S : n <= m
    BY <1>3, <1>4
  <1> QED BY <1>5

(* What holds of 0, and of a number when it holds of the one before, holds.  *)
LEMMA Induction ==
  ASSUME NEW n \in Nat, NEW S, 0 \in S, \A k \in 1..n : k - 1 \in S => k \in S
  PROVE  \A k \in 0..n : k \in S
  <1> DEFINE Other == {k \in 0..n : k \notin S}
  <1>1. SUFFICES ASSUME Other # {} PROVE FALSE
    OBVIOUS
  <1>2. Other \in SUBSET Nat
    OBVIOUS
  <1>3. PICK k \in Other : \A m \in Other : k <= m
    <2> HIDE DEF Other
    <2> QED BY <1>1, <1>2, Least
  <1>4. k \in 1..n /\ k - 1 \in 0..n /\ k - 1 \notin Other
    BY <1>3
  <1> QED BY <1>3, <1>4

Follows(n, V, base, step, f) ==
  f \in [0..n -> V] /\ f[0] = base /\ \A k \in 1..n : f[k] = step[<<k, f[k - 1]>>]

(* A value for 0 and a step from each number to the next define a function.  *)
LEMMA Defined ==
  ASSUME NEW n \in Nat, NEW V, NEW base \in V, NEW step \in [(1..n) \X V -> V]
  PROVE  \E f : Follows(n, V, base, step, f)
  <1> DEFINE Upto(k, f) == f[0] = base /\ \A i \in 1..k : f[i] = step[<<i, f[i - 1]>>]
             S == {k \in 0..n : \E f \in [0..n -> V] : Upto(k, f)}
  <1>1. 0 \in S
    <2> DEFINE f == [k \in 0..n |-> base]
    <2>1. f \in [0..n -> V] /\ f[0] = base
      OBVIOUS
    <2>2. \A i \in 1..0 : FALSE
      OBVIOUS
    <2> HIDE DEF f
    <2> QED BY <2>1, <2>2
  <1>2. ASSUME NEW k \in 1..n, k - 1 \in S
        PROVE  k \in S
    <2>1. PICK f \in [0..n -> V] : Upto(k - 1, f)
      BY <1>2
    <2> DEFINE v == step[<<k, f[k - 1]>>]
               g == [f EXCEPT ![k] = v]
    <2>2. k - 1 \in 0..n /\ k \in 0..n /\ f[k - 1] \in V
      OBVIOUS
    <2>3. v \in V
      BY <2>2
    <2> HIDE DEF v
    <2>4. g \in [0..n -> V] /\ g[k] = v /\ \A i \in 0..n : i # k => g[i] = f[i]
      BY <2>2, <2>3
    <2> HIDE DEF g
    <2>5. g[0] = base
      BY <2>1, <2>4
    <2>6. ASSUME NEW i \in 1..k
          PROVE  g[i] = step[<<i, g[i - 1]>>]
      <3>1. i - 1 \in 0..n /\ i - 1 # k /\ i \in 0..n
        OBVIOUS
      <3>2. g[i - 1] = f[i - 1]
        BY <2>4, <3>1
      <3>3. CASE i = k
        BY <2>4, <3>2, <3>3 DEF v
      <3>4. CASE i # k
        <4>1. i \in 1..(k - 1)
          BY <3>4
        <4> QED BY <2>1, <2>4, <3>1, <3>2, <3>4, <4>1
      <3> QED BY <3>3, <3>4
    <2>7. Upto(k, g)
      BY <2>5, <2>6
    <2> HIDE DEF Upto
    <2> QED BY <2>2, <2>4, <2>7
  <1> HIDE DEF S
  <1>3. n \in S
    <2>1. \A k \in 0..n : k \in S
      BY <1>1, <1>2, Induction
    <2> QED BY <2>1
  <1>4. \E f \in [0..n -> V] : Upto(n, f)
    <2> HIDE DEF Upto
    <2> QED BY <1>3 DEF S
  <1> QED BY <1>4 DEF Follows

(* However many answers are cached, the cache keeps its size and each entry  *)
(* is the server of its DID.                                                 *)
LEMMA AnswersAreKept ==
  ASSUME NEW es, CacheOK(es), NEW url, NEW order \in Seq(Dids),
         \A i \in 1..Len(order) : [did |-> order[i], url |-> url[order[i]]] \in Servers!Entries
                                  /\ Told([did |-> order[i], url |-> url[order[i]]])
  PROVE  CacheOK(Servers!Caching(es, url, order))
  <1> DEFINE n == Len(order)
             V == {x \in Seq(Servers!Entries) : CacheOK(x)}
             e(k) == [did |-> order[k], url |-> url[order[k]]]
             rule(u) == [k \in 0..n |-> IF k = 0 THEN es ELSE Servers!SetCached(u[k - 1], e(k))]
             upto == CHOOSE u : u = rule(u)
             step == [p \in (1..n) \X V |-> Servers!SetCached(p[2], e(p[1]))]
  <1>1. n \in Nat /\ es \in V
    BY DEF CacheOK
  <1>2. \A k \in 1..n : e(k) \in Servers!Entries /\ Told(e(k))
    OBVIOUS
  <1>3. Servers!Caching(es, url, order) = upto[n]
    BY Zenon DEF Servers!Caching
  <1> HIDE DEF n, e, upto
  <1>4. \A x \in V, k \in 1..n : Servers!SetCached(x, e(k)) \in V
    <2> TAKE x \in V, k \in 1..n
    <2>1. CacheOK(Servers!SetCached(x, e(k)))
      BY <1>2, EntryIsKept
    <2> QED BY <2>1 DEF CacheOK
  <1>5. \A u : rule(u) = [k \in 0..n |-> IF k = 0 THEN es ELSE Servers!SetCached(u[k - 1], e(k))]
    BY Zenon
  <1> HIDE DEF V, rule
  <1>6. step \in [(1..n) \X V -> V] /\ \A k \in 1..n, x \in V : step[<<k, x>>] = Servers!SetCached(x, e(k))
    BY <1>4
  <1> HIDE DEF step
  <1>7. PICK f : Follows(n, V, es, step, f)
    BY <1>1, <1>6, Defined
  <1>8. f = rule(f)
    <2>1. \A k \in 1..n : f[k] = Servers!SetCached(f[k - 1], e(k))
      <3> TAKE k \in 1..n
      <3>1. k - 1 \in 0..n
        BY <1>1
      <3> QED BY <1>6, <1>7, <3>1 DEF Follows
    <2>2. \A k \in 0..n : f[k] = IF k = 0 THEN es ELSE Servers!SetCached(f[k - 1], e(k))
      BY <1>1, <1>7, <2>1 DEF Follows
    <2>3. f = [k \in 0..n |-> f[k]]
      BY <1>7 DEF Follows
    <2>4. [k \in 0..n |-> f[k]] = [k \in 0..n |-> IF k = 0 THEN es ELSE Servers!SetCached(f[k - 1], e(k))]
      BY <2>2, Zenon
    <2> QED BY <2>3, <2>4, <1>5, Zenon
  <1>9. upto = rule(upto)
    BY <1>8, Zenon DEF upto
  <1>10. \A k \in 0..n : upto[k] = IF k = 0 THEN es ELSE Servers!SetCached(upto[k - 1], e(k))
    <2>1. \A k \in 0..n : rule(upto)[k] = IF k = 0 THEN es ELSE Servers!SetCached(upto[k - 1], e(k))
      BY <1>5
    <2> QED BY <1>9, <2>1, Zenon
  <1> DEFINE Good == {k \in 0..n : upto[k] \in V}
  <1>11. 0 \in Good
    BY <1>1, <1>10
  <1>12. \A k \in 1..n : k - 1 \in Good => k \in Good
    <2> SUFFICES ASSUME NEW k \in 1..n, k - 1 \in Good PROVE k \in Good
      OBVIOUS
    <2>1. k \in 0..n /\ k # 0 /\ upto[k - 1] \in V
      BY <1>1
    <2>2. upto[k] = Servers!SetCached(upto[k - 1], e(k))
      BY <1>10, <2>1
    <2> QED BY <1>4, <2>1, <2>2
  <1> HIDE DEF Good
  <1>13. n \in Good
    <2>1. \A k \in 0..n : k \in Good
      BY <1>1, <1>11, <1>12, Induction
    <2> QED BY <1>1, <2>1
  <1> QED BY <1>3, <1>13 DEF Good, V

-----------------------------------------------------------------------------
(* Callers and batches                                                       *)

Calls == [pc : {"new", "waits", "over"}, many : BOOLEAN, asks : SUBSET Dids,
          waits : SUBSET Dids, got : SUBSET (Dids \X Servers!Urls)]
Pairs == Callers \X Dids
Batches == [dids : SUBSET Dids, resolvers : Seq(Pairs)]

ServersTyped ==
  /\ call \in [Callers -> Calls]
  /\ waiting \in BOOLEAN /\ dids \in SUBSET Dids /\ resolvers \in Seq(Pairs)
  /\ batches \in SUBSET Batches
  /\ lapses \in 0..MaxLapses

(* A call waits for what it asked, and one that is over got all of it.       *)
Asking(c) ==
  /\ call[c].waits \subseteq call[c].asks
  /\ call[c].pc # "waits" => call[c].waits = {}
  /\ call[c].pc = "waits" /\ ~call[c].many => \E d \in Dids : call[c].waits = {d} /\ call[c].asks = {d}
Right(g) == g[2] \in {Servers!Resolved(g[1]), Servers!Default}
Got(c) ==
  call[c].pc = "over" =>
    {g[1] : g \in call[c].got} = call[c].asks /\ \A g \in call[c].got : Right(g)

(* A caller that waits for a DID is in what is gathered or in one batch, and  *)
(* whoever is there waits.                                                   *)
In(c, d, rs) == <<c, d>> \in Range(rs)
Gathered(c, d) ==
  In(c, d, resolvers) => d \in dids /\ d \in call[c].waits /\ \A b \in batches : ~In(c, d, b.resolvers)
Flying(c, d) ==
  \A b \in batches : In(c, d, b.resolvers) =>
    /\ d \in b.dids /\ d \in call[c].waits
    /\ \A o \in batches : In(c, d, o.resolvers) => o = b
Somewhere(c, d) ==
  d \in call[c].waits => In(c, d, resolvers) \/ \E b \in batches : In(c, d, b.resolvers)
Placed == \A c \in Callers, d \in Dids : Gathered(c, d) /\ Flying(c, d) /\ Somewhere(c, d)

ServersInv ==
  /\ ServersTyped /\ CacheOK(cache) /\ (dids # {} => waiting)
  /\ \A c \in Callers : Asking(c) /\ Got(c)
  /\ Placed

LEMMA ServersStart ==
  ASSUME Servers!Init
  PROVE  ServersInv
  <1> USE DEF Servers!Init
  <1>1. Range(<< >>) = {}
    BY DEF Range
  <1>2. ServersTyped
    <2>1. lapses \in 0..MaxLapses
      BY ServersAssumption DEF Servers!HomeServersAssumption
    <2>2. call \in [Callers -> Calls]
      BY DEF Calls
    <2>3. resolvers = << >> /\ waiting = FALSE /\ dids = {} /\ batches = {}
      OBVIOUS
    <2> HIDE DEF Servers!Init
    <2>4. resolvers \in Seq(Pairs)
      BY <2>3
    <2> QED BY <2>1, <2>2, <2>3, <2>4 DEF ServersTyped
  <1>3. CacheOK(cache)
    BY ServersAssumption DEF Servers!HomeServersAssumption, CacheOK
  <1>4. \A c \in Callers : Asking(c) /\ Got(c)
    BY DEF Asking, Got
  <1>5. Placed
    BY <1>1 DEF Placed, Gathered, Flying, Somewhere, In
  <1> QED BY <1>2, <1>3, <1>4, <1>5 DEF ServersInv

(* Of what does not wait nothing is gathered and nothing in flight.          *)
LEMMA Nowhere ==
  ASSUME ServersInv, NEW c \in Callers, NEW d \in Dids, d \notin call[c].waits
  PROVE  ~In(c, d, resolvers) /\ \A b \in batches : ~In(c, d, b.resolvers)
  BY DEF ServersInv, Placed, Gathered, Flying

(* What is cached is right.                                                  *)
LEMMA CachedIsRight ==
  ASSUME CacheOK(cache), NEW d \in Servers!Cached
  PROVE  /\ Servers!GetCachedHomeServer(d) \in Servers!Urls
         /\ Right(<<d, Servers!GetCachedHomeServer(d)>>)
  <1>1. PICK i \in DOMAIN cache : cache[i].did = d
    BY DEF Servers!Cached
  <1>2. \E e \in Servers!Range(cache) : e.did = d
    BY <1>1 DEF Servers!Range
  <1> DEFINE e == CHOOSE x \in Servers!Range(cache) : x.did = d
  <1>3. e \in Servers!Range(cache) /\ e.did = d
    BY <1>2
  <1>4. Servers!GetCachedHomeServer(d) = e.url
    BY Zenon DEF Servers!GetCachedHomeServer
  <1> HIDE DEF e
  <1>5. PICK j \in DOMAIN cache : cache[j] = e
    BY <1>3 DEF Servers!Range
  <1>6. e \in Servers!Entries
    <2> DEFINE E == Servers!Entries
    <2>1. cache \in Seq(E)
      BY DEF CacheOK
    <2> HIDE DEF E
    <2>2. cache[j] \in E
      BY <2>1
    <2> QED BY <1>5, <2>2 DEF E
  <1>7. Told(e)
    BY <1>5 DEF CacheOK
  <1> QED BY <1>3, <1>4, <1>6, <1>7 DEF Told, Right, Servers!Entries

(* A call of one caller: the others stay as they are.                        *)
LEMMA OneCall ==
  ASSUME ServersInv, NEW c \in Callers, NEW r \in Calls, call' = [call EXCEPT ![c] = r]
  PROVE  /\ call' \in [Callers -> Calls] /\ call'[c] = r
         /\ \A o \in Callers : o # c => call'[o] = call[o]
         /\ \A o \in Callers : o # c => Asking(o)' /\ Got(o)'
  <1>1. /\ call' \in [Callers -> Calls] /\ call'[c] = r
        /\ \A o \in Callers : o # c => call'[o] = call[o]
    BY DEF ServersInv, ServersTyped
  <1>2. ASSUME NEW o \in Callers, o # c
        PROVE  Asking(o)' /\ Got(o)'
    BY <1>1, <1>2 DEF ServersInv, Asking, Got
  <1> QED BY <1>1, <1>2

(* A call that takes nothing up and leaves nothing.                          *)
LEMMA PlacesStay ==
  ASSUME ServersInv, UNCHANGED <<dids, resolvers, batches>>,
         \A c \in Callers : call'[c].waits = call[c].waits
  PROVE  Placed'
  BY DEF ServersInv, Placed, Gathered, Flying, Somewhere

LEMMA CollectStep ==
  ASSUME ServersInv, NEW c \in Callers, Servers!Collect(c)
  PROVE  ServersInv'
  <1> DEFINE url(d) == IF d \in Servers!Cached THEN Servers!GetCachedHomeServer(d) ELSE Servers!Default
             got == {<<d, url(d)>> : d \in call[c].asks}
             r == [call[c] EXCEPT !.pc = "over", !.got = got]
  <1>1. /\ call[c].pc = "waits" /\ call[c].many /\ call[c].waits = {}
        /\ call' = [call EXCEPT ![c].pc = "over", ![c].got = got]
        /\ UNCHANGED <<dids, resolvers, waiting, batches, cache, lapses>>
    BY DEF Servers!Collect
  <1>2. call[c] \in Calls
    BY DEF ServersInv, ServersTyped
  <1>3. \A d \in Dids : url(d) \in Servers!Urls /\ Right(<<d, url(d)>>)
    <2>1. CacheOK(cache)
      BY DEF ServersInv
    <2> QED BY <2>1, CachedIsRight DEF Servers!Urls, Right
  <1> HIDE DEF url
  <1>4. /\ got \in SUBSET (Dids \X Servers!Urls)
        /\ {g[1] : g \in got} = call[c].asks
        /\ \A g \in got : Right(g)
    <2>1. \A d \in call[c].asks : d \in Dids
      BY <1>2 DEF Calls
    <2>2. \A g \in got : \E d \in call[c].asks : g = <<d, url(d)>>
      BY Zenon
    <2>3. \A d \in call[c].asks : <<d, url(d)>> \in got /\ <<d, url(d)>>[1] = d
      OBVIOUS
    <2>4. \A g \in got : g \in Dids \X Servers!Urls /\ Right(g) /\ g[1] \in call[c].asks
      BY <1>3, <2>1, <2>2
    <2> HIDE DEF got
    <2>5. {g[1] : g \in got} = call[c].asks
      BY <2>3, <2>4
    <2> QED BY <2>4, <2>5
  <1>5. call' = [call EXCEPT ![c] = r]
    BY <1>1, <1>2 DEF ServersInv, ServersTyped
  <1> HIDE DEF got
  <1>6. r \in Calls /\ r.pc = "over" /\ r.waits = {} /\ r.asks = call[c].asks /\ r.got = got
    BY <1>1, <1>2, <1>4 DEF Calls
  <1> HIDE DEF r
  <1>7. /\ call' \in [Callers -> Calls] /\ call'[c] = r
        /\ \A o \in Callers : o # c => call'[o] = call[o]
        /\ \A o \in Callers : o # c => Asking(o)' /\ Got(o)'
    BY <1>5, <1>6, OneCall
  <1>8. Asking(c)' /\ Got(c)'
    BY <1>4, <1>6, <1>7 DEF Asking, Got
  <1>9. Placed'
    BY <1>1, <1>6, <1>7, PlacesStay
  <1> QED BY <1>1, <1>7, <1>8, <1>9 DEF ServersInv, ServersTyped, CacheOK

LEMMA GetOneStep ==
  ASSUME ServersInv, NEW c \in Callers, NEW d \in Dids, Servers!GetOne(c, d)
  PROVE  ServersInv'
  <1>1. call[c].pc = "new" /\ UNCHANGED <<batches, cache, lapses>> /\ call[c] \in Calls
    BY DEF Servers!GetOne, ServersInv, ServersTyped
  <1>2. call[c].waits = {}
    BY <1>1 DEF ServersInv, Asking
  <1>3. CASE d \in Servers!Cached
    <2> DEFINE url == Servers!GetCachedHomeServer(d)
               r == [call[c] EXCEPT !.pc = "over", !.asks = {d}, !.got = {<<d, url>>}]
    <2>1. call' = [call EXCEPT ![c] = r] /\ UNCHANGED <<dids, resolvers, waiting>>
      BY <1>3 DEF Servers!GetOne
    <2>2. url \in Servers!Urls /\ Right(<<d, url>>)
      BY <1>3, CachedIsRight DEF ServersInv
    <2> HIDE DEF url
    <2> DEFINE got == {<<d, url>>}
    <2>10. got \in SUBSET (Dids \X Servers!Urls)
      BY <2>2
    <2> HIDE DEF got
    <2>9. r = [call[c] EXCEPT !.pc = "over", !.asks = {d}, !.got = got]
      BY DEF got
    <2> HIDE DEF r
    <2>3. /\ r \in Calls /\ r.pc = "over" /\ r.waits = {} /\ r.asks = {d} /\ r.got = got
      BY <1>1, <1>2, <2>10, <2>9 DEF Calls
    <2>4. /\ call' \in [Callers -> Calls] /\ call'[c] = r
          /\ \A o \in Callers : o # c => call'[o] = call[o]
          /\ \A o \in Callers : o # c => Asking(o)' /\ Got(o)'
      <3> HIDE DEF Calls
      <3> QED BY <2>1, <2>3, OneCall DEF r
    <2>5. {g[1] : g \in got} = {d} /\ \A g \in got : Right(g)
      BY <2>2 DEF got
    <2>6. Asking(c)' /\ Got(c)'
      BY <2>3, <2>4, <2>5 DEF Asking, Got
    <2>7. Placed'
      BY <1>1, <1>2, <2>1, <2>3, <2>4, PlacesStay
    <2> QED BY <1>1, <2>1, <2>4, <2>6, <2>7 DEF ServersInv, ServersTyped, CacheOK
  <1>4. CASE d \notin Servers!Cached
    <2> DEFINE r == [call[c] EXCEPT !.pc = "waits", !.asks = {d}, !.waits = {d}]
    <2>1. /\ call' = [call EXCEPT ![c] = [call[c] EXCEPT !.pc = "waits", !.asks = {d}, !.waits = {d}]]
          /\ dids' = dids \cup {d} /\ resolvers' = Append(resolvers, <<c, d>>)
          /\ waiting' = (waiting \/ {d} # {})
      BY <1>4 DEF Servers!GetOne, Servers!AddToBatch
    <2>2. ~call[c].many => r.asks = {d}
      BY <1>1 DEF Calls
    <2>3. /\ r \in Calls /\ r.pc = "waits" /\ r.waits = {d} /\ r.asks = {d}
      BY <1>1, <1>2 DEF Calls
    <2>4. call' = [call EXCEPT ![c] = r]
      BY <2>1
    <2> HIDE DEF r
    <2>5. /\ call' \in [Callers -> Calls] /\ call'[c] = r
          /\ \A o \in Callers : o # c => call'[o] = call[o]
          /\ \A o \in Callers : o # c => Asking(o)' /\ Got(o)'
      BY <2>4, <2>3, OneCall
    <2>6. Asking(c)' /\ Got(c)'
      BY <2>3, <2>5 DEF Asking, Got
    <2>7. Range(resolvers') = Range(resolvers) \cup {<<c, d>>} /\ resolvers' \in Seq(Pairs)
      <3>1. <<c, d>> \in Pairs /\ resolvers \in Seq(Pairs)
        BY DEF Pairs, ServersInv, ServersTyped
      <3> HIDE DEF Pairs
      <3> QED BY <2>1, <3>1, RangeAppend
    <2>8. \A o \in Callers, a \in Dids : In(o, a, resolvers)' <=> In(o, a, resolvers) \/ (o = c /\ a = d)
      BY <2>7 DEF In
    <2>9. Placed'
      <3> SUFFICES ASSUME NEW o \in Callers, NEW a \in Dids
                   PROVE  Gathered(o, a)' /\ Flying(o, a)' /\ Somewhere(o, a)'
        BY DEF Placed
      <3>1. Gathered(o, a) /\ Flying(o, a) /\ Somewhere(o, a)
        BY DEF ServersInv, Placed
      <3>2. \A rs : In(o, a, rs)' <=> In(o, a, rs)'
        OBVIOUS
      <3>3. CASE o = c
        <4>1. ~In(o, a, resolvers) /\ \A b \in batches : ~In(o, a, b.resolvers)
          BY <1>2, <3>3, Nowhere
        <4> QED BY <1>1, <2>1, <2>3, <2>5, <2>8, <3>3, <4>1 DEF Gathered, Flying, Somewhere, In
      <3>4. CASE o # c
        BY <1>1, <2>1, <2>5, <2>8, <3>1, <3>4 DEF Gathered, Flying, Somewhere, In
      <3> QED BY <3>3, <3>4
    <2> QED BY <1>1, <2>1, <2>5, <2>6, <2>7, <2>9 DEF ServersInv, ServersTyped, CacheOK
  <1> QED BY <1>3, <1>4

LEMMA GetManyStep ==
  ASSUME ServersInv, NEW c \in Callers, NEW asks \in SUBSET Dids, Servers!GetMany(c, asks)
  PROVE  ServersInv'
  <1> DEFINE new == asks \ Servers!Cached
             pairs == {<<c, d>> : d \in new}
             list == Servers!SetToSeq(pairs)
             r == [call[c] EXCEPT !.pc = "waits", !.many = TRUE, !.asks = asks, !.waits = new]
  <1>1. /\ call[c].pc = "new" /\ UNCHANGED <<batches, cache, lapses>> /\ call[c] \in Calls
        /\ call' = [call EXCEPT ![c] = r]
        /\ dids' = dids \cup new /\ resolvers' = resolvers \o list
        /\ waiting' = (waiting \/ new # {})
    BY DEF Servers!GetMany, Servers!AddToBatch, ServersInv, ServersTyped
  <1>2. call[c].waits = {}
    BY <1>1 DEF ServersInv, Asking
  <1>3. list \in Seq(pairs) /\ Range(list) = pairs
    <2>1. IsFiniteSet(Dids)
      BY ServersAssumption, Zenon DEF Servers!HomeServersAssumption, Servers!IsFiniteSet, IsFiniteSet
    <2>2. IsFiniteSet(new)
      BY <2>1, FS_Subset
    <2>3. IsFiniteSet(pairs)
      BY <2>2, FinitePairs
    <2> HIDE DEF pairs
    <2> QED BY <2>3, Listed
  <1>4. new \in SUBSET Dids /\ pairs \subseteq Pairs
    BY DEF Pairs
  <1>5. \A o, a : <<o, a>> \in pairs <=> o = c /\ a \in new
    OBVIOUS
  <1> HIDE DEF pairs, list
  <1>6. /\ r \in Calls /\ r.pc = "waits" /\ r.many /\ r.waits = new /\ r.asks = asks /\ new \subseteq asks
    BY <1>1, <1>2, <1>4 DEF Calls
  <1> HIDE DEF r, new
  <1>7. /\ call' \in [Callers -> Calls] /\ call'[c] = r
        /\ \A o \in Callers : o # c => call'[o] = call[o]
        /\ \A o \in Callers : o # c => Asking(o)' /\ Got(o)'
    BY <1>1, <1>6, OneCall
  <1>8. Asking(c)' /\ Got(c)'
    BY <1>6, <1>7 DEF Asking, Got
  <1>9. Range(resolvers') = Range(resolvers) \cup pairs /\ resolvers' \in Seq(Pairs)
    <2>1. resolvers \in Seq(Pairs)
      BY DEF ServersInv, ServersTyped
    <2> HIDE DEF Pairs
    <2>2. list \in Seq(Pairs)
      BY <1>3, <1>4
    <2> QED BY <1>1, <1>3, <2>1, <2>2, RangeConcat
  <1>10. \A o \in Callers, a \in Dids : In(o, a, resolvers)' <=> In(o, a, resolvers) \/ (o = c /\ a \in new)
    BY <1>5, <1>9 DEF In
  <1>11. Placed'
    <2> SUFFICES ASSUME NEW o \in Callers, NEW a \in Dids
                 PROVE  Gathered(o, a)' /\ Flying(o, a)' /\ Somewhere(o, a)'
      BY DEF Placed
    <2>1. Gathered(o, a) /\ Flying(o, a) /\ Somewhere(o, a)
      BY DEF ServersInv, Placed
    <2>2. CASE o = c
      <3>1. ~In(o, a, resolvers) /\ \A b \in batches : ~In(o, a, b.resolvers)
        BY <1>2, <2>2, Nowhere
      <3> QED BY <1>1, <1>6, <1>7, <1>10, <2>2, <3>1 DEF Gathered, Flying, Somewhere, In
    <2>3. CASE o # c
      BY <1>1, <1>7, <1>10, <2>1, <2>3 DEF Gathered, Flying, Somewhere, In
    <2> QED BY <2>2, <2>3
  <1> QED BY <1>1, <1>4, <1>7, <1>8, <1>9, <1>11 DEF ServersInv, ServersTyped, CacheOK

LEMMA ProcessBatchStep ==
  ASSUME ServersInv, Servers!ProcessBatch
  PROVE  ServersInv'
  <1> DEFINE this == [dids |-> dids, resolvers |-> resolvers]
  <1>1. /\ waiting' = FALSE /\ batches' = batches \cup {this} /\ dids' = {} /\ resolvers' = << >>
        /\ UNCHANGED <<call, cache, lapses>>
    BY DEF Servers!ProcessBatch, Servers!Taken
  <1>2. this \in Batches /\ this.dids = dids /\ this.resolvers = resolvers
    BY DEF Batches, ServersInv, ServersTyped
  <1> HIDE DEF this
  <1>3. << >> \in Seq(Pairs)
    OBVIOUS
  <1>4. ServersTyped'
    BY <1>1, <1>2, <1>3 DEF ServersInv, ServersTyped
  <1>5. \A c \in Callers : Asking(c)' /\ Got(c)'
    BY <1>1 DEF ServersInv, Asking, Got
  <1>6. \A o \in Callers, a \in Dids : ~In(o, a, resolvers)'
    BY <1>1, RangeEmpty DEF In
  <1>7. Placed'
    <2> SUFFICES ASSUME NEW o \in Callers, NEW a \in Dids
                 PROVE  Gathered(o, a)' /\ Flying(o, a)' /\ Somewhere(o, a)'
      BY DEF Placed
    <2>1. Gathered(o, a) /\ Flying(o, a) /\ Somewhere(o, a)
      BY DEF ServersInv, Placed
    <2>2. Gathered(o, a)'
      BY <1>6 DEF Gathered, In
    <2>3. Flying(o, a)'
      BY <1>1, <1>2, <2>1 DEF Gathered, Flying, In
    <2>4. Somewhere(o, a)'
      BY <1>1, <1>2, <2>1 DEF Somewhere, In
    <2> QED BY <2>2, <2>3, <2>4
  <1> QED BY <1>1, <1>4, <1>5, <1>7 DEF ServersInv, CacheOK

(* The calls of a batch that has answered.                                   *)
LEMMA Serves ==
  ASSUME ServersInv, NEW b \in batches, NEW c \in Callers
  PROVE  LET served == Servers!Due(b, c) IN
         /\ served \subseteq call[c].waits /\ served \subseteq b.dids
         /\ \A d \in Dids : In(c, d, b.resolvers) <=> d \in served
  <1>1. \A d \in Dids : Flying(c, d)
    BY DEF ServersInv, Placed
  <1> DEFINE served == Servers!Due(b, c)
  <1>2. \A d \in Dids : In(c, d, b.resolvers) <=> d \in served
    BY SameRange DEF In, Servers!Due
  <1>3. \A d \in served : d \in Dids
    BY DEF Servers!Due
  <1> HIDE DEF served
  <1>4. served \subseteq call[c].waits /\ served \subseteq b.dids
    BY <1>1, <1>2, <1>3 DEF Flying
  <1> QED BY <1>2, <1>4 DEF served

LEMMA AnswerStep ==
  ASSUME ServersInv, NEW b \in batches, Servers!Answer(b)
  PROVE  ServersInv'
  <1> DEFINE served(c) == Servers!Due(b, c)
             order == Servers!Order(b)
             url(failed) == Servers!Answers(b, failed)
             told(failed, c) == {<<d, url(failed)[d]>> : d \in served(c)}
  <1>1. PICK failed :
          /\ cache' = Servers!Caching(cache, url(failed), order)
          /\ call' = [c \in Callers |-> Servers!Answered(b, url(failed), c)]
    BY Zenon DEF Servers!Answer
  <1>2. batches' = batches \ {b} /\ UNCHANGED <<dids, resolvers, waiting, lapses>>
    BY DEF Servers!Answer
  <1>3. b.dids \in SUBSET Dids
    BY DEF ServersInv, ServersTyped, Batches
  <1>4. \A d \in b.dids : url(failed)[d] \in Servers!Urls /\ Right(<<d, url(failed)[d]>>)
    <2>1. \A d \in b.dids : url(failed)[d] = IF d \in failed THEN Servers!Default ELSE Servers!Resolved(d)
      BY DEF Servers!Answers
    <2> HIDE DEF url
    <2> QED BY <1>3, <2>1 DEF Servers!Urls, Right, Servers!Resolved
  <1> HIDE DEF url
  <1>5. CacheOK(cache)'
    <2> DEFINE A == b.dids \cap Entities
               B == b.dids \ Entities
               D == b.dids
    <2>1. IsFiniteSet(A) /\ IsFiniteSet(B)
      <3>1. IsFiniteSet(Dids)
        BY ServersAssumption, Zenon DEF Servers!HomeServersAssumption, Servers!IsFiniteSet, IsFiniteSet
      <3>2. A \subseteq Dids /\ B \subseteq Dids
        BY <1>3
      <3> HIDE DEF A, B
      <3> QED BY <3>1, <3>2, FS_Subset
    <2>2. A \subseteq D /\ B \subseteq D
      OBVIOUS
    <2>3. order = Servers!SetToSeq(A) \o Servers!SetToSeq(B)
      BY DEF Servers!Order
    <2> HIDE DEF A, B, order
    <2>4. Servers!SetToSeq(A) \in Seq(A) /\ Servers!SetToSeq(B) \in Seq(B)
      BY <2>1, Listed
    <2>5. order \in Seq(D)
      <3> HIDE DEF D
      <3>1. Servers!SetToSeq(A) \in Seq(D) /\ Servers!SetToSeq(B) \in Seq(D)
        BY <2>2, <2>4
      <3> QED BY <2>3, <3>1
    <2>6. order \in Seq(Dids) /\ \A i \in 1..Len(order) : order[i] \in D
      <3>1. D \subseteq Dids
        BY <1>3
      <3> HIDE DEF D
      <3> QED BY <2>5, <3>1
    <2> HIDE DEF D
    <2>7. \A i \in 1..Len(order) :
            LET e == [did |-> order[i], url |-> url(failed)[order[i]]] IN e \in Servers!Entries /\ Told(e)
      <3> TAKE i \in 1..Len(order)
      <3> DEFINE d == order[i]
      <3>1. d \in Dids /\ url(failed)[d] \in Servers!Urls /\ Right(<<d, url(failed)[d]>>)
        BY <1>3, <1>4, <2>6 DEF D
      <3> HIDE DEF d
      <3>2. [did |-> d, url |-> url(failed)[d]] \in Servers!Entries /\ Told([did |-> d, url |-> url(failed)[d]])
        BY <3>1 DEF Servers!Entries, Told, Right
      <3> QED BY <3>2 DEF d
    <2>8. CacheOK(cache)
      BY DEF ServersInv
    <2>9. CacheOK(Servers!Caching(cache, url(failed), order))
      BY <2>6, <2>7, <2>8, AnswersAreKept
    <2>10. CacheOK(cache')
      BY <1>1, <2>9, Zenon DEF order
    <2> QED BY <2>10 DEF CacheOK
  <1> HIDE DEF order
  <1>6. ASSUME NEW c \in Callers
        PROVE  /\ served(c) \subseteq call[c].waits /\ served(c) \subseteq b.dids
               /\ \A d \in Dids : In(c, d, b.resolvers) <=> d \in served(c)
    BY Serves
  <1> HIDE DEF served
  <1>7. ASSUME NEW c \in Callers
        PROVE  /\ call'[c] \in Calls /\ call'[c].waits = call[c].waits \ served(c)
               /\ Asking(c)' /\ Got(c)'
    <2>1. call[c] \in Calls /\ Asking(c) /\ Got(c)
      BY DEF ServersInv, ServersTyped
    <2>2. CASE served(c) = {}
      <3>1. call'[c] = call[c]
        BY <1>1, <2>2 DEF Servers!Answered, served
      <3> QED BY <2>1, <2>2, <3>1 DEF Asking, Got
    <2>3. CASE served(c) # {}
      <3>1. call'[c] = [call[c] EXCEPT !.waits = @ \ served(c),
                                       !.pc = IF call[c].many THEN @ ELSE "over",
                                       !.got = IF call[c].many THEN @ ELSE told(failed, c)]
        BY <1>1, <2>3, Zenon DEF Servers!Answered, served
      <3>2. call[c].pc = "waits"
        BY <1>6, <2>1, <2>3 DEF Asking
      <3>3. CASE call[c].many
        <4> DEFINE w == call[c].waits \ served(c)
        <4>2. call'[c] = [call[c] EXCEPT !.waits = w, !.pc = call[c].pc, !.got = call[c].got]
          BY <3>1, <3>3, Zenon
        <4>3. w \in SUBSET Dids
          BY <2>1 DEF Calls
        <4> HIDE DEF w
        <4>4. /\ call'[c] \in Calls /\ call'[c].pc = "waits" /\ call'[c].many
              /\ call'[c].waits = w /\ call'[c].asks = call[c].asks
          BY <2>1, <3>2, <3>3, <4>2, <4>3 DEF Calls
        <4>1. /\ call'[c] \in Calls /\ call'[c].pc = "waits" /\ call'[c].many
              /\ call'[c].waits = call[c].waits \ served(c) /\ call'[c].asks = call[c].asks
          BY <4>4 DEF w
        <4> QED BY <2>1, <4>1 DEF Asking, Got
      <3>4. CASE ~call[c].many
        <4>1. PICK d \in Dids : call[c].waits = {d} /\ call[c].asks = {d}
          BY <2>1, <3>2, <3>4 DEF Asking
        <4>2. served(c) = {d} /\ d \in b.dids
          BY <1>6, <2>3, <4>1
        <4> DEFINE g == <<d, url(failed)[d]>>
        <4>3. told(failed, c) = {g}
          BY <4>2
        <4>4. g \in Dids \X Servers!Urls /\ Right(g) /\ g[1] = d
          BY <1>4, <4>2
        <4> HIDE DEF g, told
        <4>5. {g} \in SUBSET (Dids \X Servers!Urls)
          BY <4>4
        <4>8. call'[c] = [call[c] EXCEPT !.waits = call[c].waits \ served(c), !.pc = "over",
                                         !.got = told(failed, c)]
          BY <3>1, <3>4, Zenon
        <4>9. call[c].waits \ served(c) = {}
          BY <4>1, <4>2
        <4>10. call'[c] = [call[c] EXCEPT !.waits = {}, !.pc = "over", !.got = {g}]
          BY <4>3, <4>8, <4>9, Zenon
        <4>6. /\ call'[c] \in Calls /\ call'[c].pc = "over" /\ call'[c].got = {g}
              /\ call'[c].waits = {} /\ call'[c].asks = {d}
          BY <2>1, <4>1, <4>5, <4>10 DEF Calls
        <4>7. {x[1] : x \in {g}} = {d}
          BY <4>4
        <4> QED BY <4>1, <4>2, <4>4, <4>6, <4>7, <4>9 DEF Asking, Got
      <3> QED BY <3>3, <3>4
    <2> QED BY <2>2, <2>3
  <1>8. call' \in [Callers -> Calls]
    <2>1. DOMAIN call' = Callers /\ call' = [c \in Callers |-> call'[c]]
      BY <1>1
    <2> QED BY <1>7, <2>1
  <1>9. Placed'
    <2> SUFFICES ASSUME NEW o \in Callers, NEW a \in Dids
                 PROVE  Gathered(o, a)' /\ Flying(o, a)' /\ Somewhere(o, a)'
      BY DEF Placed
    <2>1. Gathered(o, a) /\ Flying(o, a) /\ Somewhere(o, a)
      BY DEF ServersInv, Placed
    <2>2. a \in call'[o].waits <=> a \in call[o].waits /\ ~In(o, a, b.resolvers)
      BY <1>6, <1>7
    <2>3. Gathered(o, a)'
      BY <1>2, <2>1, <2>2 DEF Gathered, In
    <2>4. Flying(o, a)'
      BY <1>2, <2>1, <2>2 DEF Flying, In
    <2>5. Somewhere(o, a)'
      BY <1>2, <2>1, <2>2 DEF Somewhere, In
    <2> QED BY <2>3, <2>4, <2>5
  <1> QED BY <1>2, <1>5, <1>7, <1>8, <1>9 DEF ServersInv, ServersTyped

LEMMA LapseStep ==
  ASSUME ServersInv, Servers!Lapse
  PROVE  ServersInv'
  <1>1. /\ lapses < MaxLapses /\ lapses' = lapses + 1
        /\ UNCHANGED <<call, dids, resolvers, waiting, batches>>
    BY DEF Servers!Lapse
  <1>2. lapses' \in 0..MaxLapses
    BY <1>1, ServersAssumption DEF Servers!HomeServersAssumption, ServersInv, ServersTyped
  <1>3. CacheOK(cache)'
    <2> DEFINE E == Servers!Entries
    <2>1. /\ cache \in Seq(E) /\ Len(cache) <= MaxCache /\ \A i \in 1..Len(cache) : Told(cache[i])
          /\ MaxCache \in Nat
      <3>1. CacheOK(cache) /\ MaxCache \in Nat
        BY ServersAssumption DEF ServersInv, Servers!HomeServersAssumption
      <3> HIDE DEF E
      <3> QED BY <3>1 DEF CacheOK, E
    <2>2. (\E i \in DOMAIN cache : cache' = Servers!RemoveAt(cache, i)) \/ cache' = << >>
      BY DEF Servers!Lapse
    <2> HIDE DEF E
    <2>3. CASE cache' = << >>
      <3>1. << >> \in Seq(E) /\ Len(<< >>) = 0 /\ DOMAIN << >> = {}
        OBVIOUS
      <3> QED BY <2>1, <2>3, <3>1 DEF CacheOK, E
    <2>4. ASSUME NEW i \in DOMAIN cache, cache' = Servers!RemoveAt(cache, i)
          PROVE  CacheOK(cache)'
      <3> DEFINE front == SubSeq(cache, 1, i - 1)
                 back == SubSeq(cache, i + 1, Len(cache))
      <3>1. i \in 1..Len(cache) /\ Len(cache) \in Nat
        BY <2>1
      <3>2. /\ front \in Seq(E) /\ Len(front) = i - 1
            /\ \A j \in 1..(i - 1) : front[j] = cache[j] /\ j \in 1..Len(cache)
        BY <2>1, <3>1
      <3>3. /\ back \in Seq(E) /\ Len(back) = Len(cache) - i
            /\ \A j \in 1..(Len(cache) - i) : back[j] = cache[i + j] /\ i + j \in 1..Len(cache)
        <4>1. i \in Nat /\ i <= Len(cache) /\ cache \in Seq(E)
          BY <2>1, <3>1
        <4> QED BY <4>1, After
      <3>4. cache' = front \o back
        BY <2>4, Zenon DEF Servers!RemoveAt
      <3> HIDE DEF front, back
      <3>5. /\ cache' \in Seq(E) /\ Len(cache') = Len(cache) - 1 /\ DOMAIN cache' = 1..Len(cache')
            /\ \A j \in 1..Len(cache') : cache'[j] = IF j <= i - 1 THEN front[j] ELSE back[j - (i - 1)]
        <4>1. cache' \in Seq(E) /\ Joins(front, back, cache')
          BY <3>2, <3>3, <3>4, Joined, Zenon
        <4>2. \A j \in 1..(Len(cache) - 1) : j \in 1..(i - 1) \/ j - (i - 1) \in 1..(Len(cache) - i)
          BY <3>1
        <4>3. \A j \in 1..(Len(cache) - i) : (i - 1) + j > i - 1
          BY <3>1
        <4>4. Len(cache') = Len(cache) - 1 /\ DOMAIN cache' = 1..Len(cache')
          BY <3>1, <3>2, <3>3, <4>1 DEF Joins
        <4>5. ASSUME NEW j \in 1..Len(cache')
              PROVE  cache'[j] = IF j <= i - 1 THEN front[j] ELSE back[j - (i - 1)]
          <5>1. CASE j \in 1..(i - 1)
            BY <3>2, <4>1, <5>1 DEF Joins
          <5>2. CASE j - (i - 1) \in 1..(Len(cache) - i)
            <6>1. j = (i - 1) + (j - (i - 1)) /\ ~(j <= i - 1)
              BY <3>1, <5>2
            <6>2. cache'[(i - 1) + (j - (i - 1))] = back[j - (i - 1)]
              BY <3>2, <3>3, <4>1, <5>2 DEF Joins
            <6> QED BY <6>1, <6>2
          <5> QED BY <4>2, <4>4, <5>1, <5>2
        <4> QED BY <4>1, <4>4, <4>5
      <3>6. \A j \in DOMAIN cache' : Told(cache'[j])
        <4> TAKE j \in DOMAIN cache'
        <4>1. CASE j <= i - 1
          <5>1. j \in 1..(i - 1)
            BY <3>1, <3>5, <4>1
          <5> QED BY <2>1, <3>2, <3>5, <4>1, <5>1
        <4>2. CASE ~(j <= i - 1)
          <5>1. j - (i - 1) \in 1..(Len(cache) - i)
            BY <3>1, <3>5, <4>2
          <5> QED BY <2>1, <3>3, <3>5, <4>2, <5>1
        <4> QED BY <4>1, <4>2
      <3>7. Len(cache') <= MaxCache
        BY <2>1, <3>1, <3>5
      <3> QED BY <3>5, <3>6, <3>7 DEF CacheOK, E
    <2> QED BY <2>2, <2>3, <2>4
  <1> QED BY <1>1, <1>2, <1>3
          DEF ServersInv, ServersTyped, Asking, Got, Placed, Gathered, Flying, Somewhere, In

LEMMA ServersStep ==
  ASSUME ServersInv, Servers!Next \/ UNCHANGED servers
  PROVE  ServersInv'
  <1>1. CASE UNCHANGED servers
    BY <1>1 DEF servers, ServersInv, ServersTyped, CacheOK, Asking, Got, Placed, Gathered, Flying, Somewhere, In
  <1>2. ASSUME NEW c \in Callers, NEW d \in Dids, Servers!GetOne(c, d)
        PROVE  ServersInv'
    BY <1>2, GetOneStep
  <1>3. ASSUME NEW c \in Callers, NEW asks \in SUBSET Dids, Servers!GetMany(c, asks)
        PROVE  ServersInv'
    BY <1>3, GetManyStep
  <1>4. ASSUME NEW c \in Callers, Servers!Collect(c)
        PROVE  ServersInv'
    BY <1>4, CollectStep
  <1>5. CASE Servers!ProcessBatch
    BY <1>5, ProcessBatchStep
  <1>6. ASSUME NEW b \in batches, Servers!Answer(b)
        PROVE  ServersInv'
    BY <1>6, AnswerStep
  <1>7. CASE Servers!Lapse
    BY <1>7, LapseStep
  <1> QED BY <1>1, <1>2, <1>3, <1>4, <1>5, <1>6, <1>7 DEF Servers!Next

(* What follows: a caller is in no two batches.                              *)
LEMMA ServersInvAnswers == ServersInv => ServersAnswer
  <1> SUFFICES ASSUME ServersInv PROVE ServersAnswer
    OBVIOUS
  <1>1. Servers!TypeOK
    <2>1. \A c \in Callers :
            /\ call[c].pc \in {"new", "waits", "over"}
            /\ call[c].waits \subseteq call[c].asks
            /\ call[c].got \subseteq Dids \X Servers!Urls
      BY DEF ServersInv, ServersTyped, Calls, Asking
    <2>2. dids \subseteq Dids /\ lapses \in 0..MaxLapses /\ Len(cache) <= MaxCache
      BY DEF ServersInv, ServersTyped, CacheOK
    <2>3. Servers!Range(resolvers) \subseteq Callers \X Dids
      <3>1. resolvers \in Seq(Pairs)
        BY DEF ServersInv, ServersTyped
      <3> HIDE DEF Pairs
      <3>2. Range(resolvers) \subseteq Pairs
        BY <3>1, RangeType
      <3> QED BY <3>2, SameRange DEF Pairs
    <2>4. Servers!Range(cache) \subseteq Servers!Entries
      <3> DEFINE E == Servers!Entries
      <3>1. cache \in Seq(E)
        BY DEF ServersInv, CacheOK
      <3> HIDE DEF E
      <3>2. Range(cache) \subseteq E
        BY <3>1, RangeType
      <3> QED BY <3>2, SameRange DEF E
    <2> QED BY <2>1, <2>2, <2>3, <2>4 DEF Servers!TypeOK
  <1>2. Servers!WaitsOnce
    <2> DEFINE this == [dids |-> dids, resolvers |-> resolvers]
               mine(c, d) == {b \in Servers!Pool : <<c, d>> \in Servers!Range(b.resolvers)}
    <2>1. this.dids = dids /\ this.resolvers = resolvers /\ Servers!Pool = {this} \cup batches
      BY DEF Servers!Pool
    <2> HIDE DEF this
    <2>2. ASSUME NEW c \in Callers, NEW d \in Dids
          PROVE  /\ d \in call[c].waits <=> mine(c, d) # {}
                 /\ Servers!Cardinality(mine(c, d)) <= 1
                 /\ \A b \in mine(c, d) : d \in b.dids
      <3>1. Gathered(c, d) /\ Flying(c, d) /\ Somewhere(c, d)
        BY DEF ServersInv, Placed
      <3>2. \A b : b \in mine(c, d) <=> (b = this \/ b \in batches) /\ In(c, d, b.resolvers)
        BY <2>1, SameRange DEF In
      <3> HIDE DEF mine
      <3>3. d \in call[c].waits <=> mine(c, d) # {}
        BY <2>1, <3>1, <3>2 DEF Gathered, Flying, Somewhere
      <3>4. \A b \in mine(c, d) : d \in b.dids
        BY <2>1, <3>1, <3>2 DEF Gathered, Flying
      <3>5. \A b, o \in mine(c, d) : b = o
        BY <2>1, <3>1, <3>2 DEF Gathered, Flying
      <3>6. Cardinality(mine(c, d)) <= 1
        <4>1. CASE mine(c, d) = {}
          BY <4>1, FS_EmptySet
        <4>2. ASSUME NEW b \in mine(c, d)
              PROVE  Cardinality(mine(c, d)) <= 1
          <5>1. mine(c, d) = {b}
            BY <3>5, <4>2
          <5> QED BY <5>1, FS_Singleton
        <4> QED BY <4>1, <4>2
      <3>7. Servers!Cardinality(mine(c, d)) = Cardinality(mine(c, d))
        BY Zenon DEF Servers!Cardinality, Cardinality
      <3> QED BY <3>3, <3>4, <3>6, <3>7
    <2> QED BY <2>2 DEF Servers!WaitsOnce, ServersInv
  <1>3. Servers!OwnServer
    BY DEF ServersInv, Got, Right, Servers!OwnServer
  <1> QED BY <1>1, <1>2, <1>3 DEF ServersAnswer

(* Whatever callers ask for, while batches are gathered and in flight, whose   *)
(* queries fail, and entries of the cache grow old: each waits in one batch    *)
(* that asks for its DID, and gets the server of that DID for all it asked.    *)
THEOREM LookupsAnswer == PartSpec => []ServersAnswer
  <1>1. PartInit => ServersInv
    BY ServersStart DEF PartInit
  <1>2. ServersInv /\ [PartNext]_<<part, vars, servers, answer>> => ServersInv'
    BY ServersStep DEF PartNext
  <1> QED BY <1>1, <1>2, ServersInvAnswers, PTL DEF PartSpec

-----------------------------------------------------------------------------
(* The answers: what is said in a conversation, and what is kept of it.       *)

(***************************************************************************)
(* What is said in a conversation.  Has and Once are about a list, IdsOf   *)
(* is the list of the messages in a table.                                 *)
Has(s, m) == \E i \in 1..Len(s) : s[i] = m
Once(s) == \A i, j \in 1..Len(s) : s[i] = s[j] => i = j
IdsOf(rs) == [i \in 1..Len(rs) |-> rs[i].id]

(* The task and the report of a sub-agent are in no list of the session's   *)
(* messages, and nothing else is in the sub-agent's.                        *)
InSession(m) == \A q \in Nat : m # 10 * q + 4 /\ m # 10 * q + 5
Talks == {s \in Seq(Nat) : Once(s) /\ \A i \in 1..Len(s) : InSession(s[i])}

Signals == {"message", "error", "done"}
Rows == [id : Nat, thread : Answers!Threads, point : Nat]
Puts == [point : Nat, messages : Talks]
Runs == [at : {"idle", "register", "load", "model", "end", "over"}, stream : BOOLEAN,
         again : BOOLEAN, aborted : BOOLEAN, messages : Talks]

AnswersTyped ==
  /\ table \in Seq(Rows) /\ points \in [Answers!Threads -> SUBSET Nat] /\ clock \in Nat
  /\ run \in [Requests -> Runs] /\ puts \in [Requests -> Seq(Puts)]
  /\ controller \in Requests \cup {0}
  /\ sent \in [Requests -> Seq(Signals)]

(* The table: a row belongs to a checkpoint of its thread, a message has    *)
(* one row, and a sub-agent's report comes with its task.                   *)
Kept(m) == Has(IdsOf(table), m)

TableOK ==
  /\ \A i \in 1..Len(table) :
       /\ table[i].point \in points[table[i].thread]
       /\ table[i].thread = "session" <=> InSession(table[i].id)
  /\ Once(IdsOf(table))
  /\ \A q \in Nat : Kept(10 * q + 5) => Kept(10 * q + 4)

(* The stream of a request: one that is aborted is one that streams, and it *)
(* is told that it is complete when it is over.                             *)
StreamOK(r) ==
  /\ Answers!At(r, "idle") => ~run[r].again /\ ~run[r].aborted /\ sent[r] = << >>
  /\ Answers!Running(r) /\ run[r].stream => ~run[r].again /\ ~Has(sent[r], "done")
  /\ Answers!Running(r) /\ run[r].aborted => run[r].stream
  /\ Answers!At(r, "register") => run[r].stream
  /\ \A i \in 1..Len(sent[r]) : sent[r][i] = "done" => i = Len(sent[r])

(* The answer of a request is said nowhere before it is given, and then it  *)
(* is in the table or on its way there.                                     *)
InPuts(ps, m) == \E k \in 1..Len(ps) : Has(ps[k].messages, m)
Coming(r, m) == InPuts(puts[r], m)
Said(m) == Kept(m) \/ \E q \in Requests : Has(run[q].messages, m) \/ Coming(q, m)

First(r) == 10 * r + 1
Second(r) == 10 * r + 2
Early(r) == run[r].at \in {"idle", "register", "load", "model"}
Arrives(r, m) == Kept(m) \/ Coming(r, m)

ReplyOK(r) ==
  /\ Early(r) /\ ~run[r].again => ~Said(First(r))
  /\ Early(r) \/ (Answers!At(r, "end") /\ ~run[r].again) => ~Said(Second(r))
  /\ Answers!At(r, "end") /\ ~run[r].again => Arrives(r, First(r))
  /\ Answers!At(r, "end") /\ run[r].again => Arrives(r, Second(r))

Registered ==
  controller # 0 => run[controller].at \in {"load", "model", "end"} /\ run[controller].stream

AnswersInv ==
  /\ AnswersTyped /\ TableOK /\ Registered
  /\ \A r \in Requests : StreamOK(r) /\ ReplyOK(r)
  /\ \A m \in mirror : Kept(m)

(* Of two streams that go on at once the older one is aborted; one that is   *)
(* not is registered, but for those that began during another.               *)
StreamsInv ==
  /\ together \in BOOLEAN /\ second \subseteq Requests
  /\ \A r \in Requests : Answers!At(r, "register") => ~run[r].aborted
  /\ \A q, r \in Requests :
       Answers!Streaming(q) /\ Answers!Streaming(r) /\ q # r => run[r].aborted \/ r \in second
  /\ \A r \in Requests :
       Answers!Streaming(r) /\ ~run[r].aborted => controller = r \/ r \in second

-----------------------------------------------------------------------------
(* A list of what is at some places of another: at finds them in order.      *)

Lists(s, g, P, at) ==
  /\ at \in [1..Len(s) -> P]
  /\ \A k \in 1..Len(s) : s[k] = g[at[k]]
  /\ \A j, k \in 1..Len(s) : j < k => at[j] < at[k]
  /\ \A p \in P : \E k \in 1..Len(s) : at[k] = p

Filters(n, P, g, f) ==
  f = [k \in 0..n |-> IF k = 0 THEN << >>
                      ELSE IF k \in P THEN Append(f[k - 1], g[k]) ELSE f[k - 1]]

LEMMA FilterIs ==
  ASSUME NEW n \in Nat, NEW E, NEW P, NEW g, \A i \in 1..n : i \in P => g[i] \in E
  PROVE  \E f : Filters(n, P, g, f)
  <1> DEFINE V == Seq(E)
             next(k, x) == IF k \in P THEN Append(x, g[k]) ELSE x
             step == [p \in (1..n) \X V |-> next(p[1], p[2])]
  <1>1. << >> \in V
    OBVIOUS
  <1>2. \A k \in 1..n, x \in V : next(k, x) \in V
    <2> TAKE k \in 1..n, x \in V
    <2>1. CASE k \in P
      <3>1. g[k] \in E
        BY <2>1
      <3> QED BY <2>1, <3>1, Added
    <2> QED BY <2>1
  <1> HIDE DEF V, next
  <1>3. step \in [(1..n) \X V -> V] /\ \A k \in 1..n, x \in V : step[<<k, x>>] = next(k, x)
    BY <1>2
  <1> HIDE DEF step
  <1>4. PICK f : Follows(n, V, << >>, step, f)
    BY <1>1, <1>3, Defined
  <1>5. \A k \in 0..n : f[k] = IF k = 0 THEN << >> ELSE next(k, f[k - 1])
    <2> TAKE k \in 0..n
    <2>1. CASE k = 0
      BY <1>4, <2>1 DEF Follows
    <2>2. CASE k # 0
      <3>1. k \in 1..n /\ k - 1 \in 0..n
        BY <2>2
      <3> QED BY <1>3, <1>4, <2>2, <3>1 DEF Follows
    <2> QED BY <2>1, <2>2
  <1>6. f = [k \in 0..n |-> f[k]]
    BY <1>4 DEF Follows
  <1>7. [k \in 0..n |-> f[k]] = [k \in 0..n |-> IF k = 0 THEN << >> ELSE next(k, f[k - 1])]
    BY <1>5, Zenon
  <1> QED BY <1>6, <1>7, Zenon DEF Filters, next

LEMMA FilterLists ==
  ASSUME NEW n \in Nat, NEW E, NEW P, NEW g, \A i \in 1..n : i \in P => g[i] \in E,
         NEW f, Filters(n, P, g, f)
  PROVE  /\ f[n] \in Seq(E)
         /\ \E at : Lists(f[n], g, P \cap (1..n), at)
  <1> DEFINE Listed0(k) == f[k] \in Seq(E) /\ \E at : Lists(f[k], g, P \cap (1..k), at)
             S == {k \in 0..n : Listed0(k)}
  <1>1. \A k \in 0..n : f[k] = IF k = 0 THEN << >>
                               ELSE IF k \in P THEN Append(f[k - 1], g[k]) ELSE f[k - 1]
    <2> DEFINE h == [k \in 0..n |-> IF k = 0 THEN << >>
                               ELSE IF k \in P THEN Append(f[k - 1], g[k]) ELSE f[k - 1]]
    <2>1. f = h
      BY Zenon DEF Filters
    <2>2. \A k \in 0..n : h[k] = IF k = 0 THEN << >>
                               ELSE IF k \in P THEN Append(f[k - 1], g[k]) ELSE f[k - 1]
      OBVIOUS
    <2> HIDE DEF h
    <2> QED BY <2>1, <2>2, Zenon
  <1>2. Listed0(0)
    <2>1. f[0] = << >>
      <3>1. 0 \in 0..n
        OBVIOUS
      <3> QED BY <1>1, <3>1, Zenon
    <2>2. P \cap (1..0) = {} /\ 1..0 = {}
      OBVIOUS
    <2>3. Lists(<< >>, g, {}, << >>)
      <3>1. Len(<< >>) = 0 /\ << >> \in [1..0 -> {}]
        BY <2>2
      <3> QED BY <2>2, <3>1 DEF Lists
    <2> QED BY <2>1, <2>2, <2>3
  <1>3. ASSUME NEW k \in 1..n, Listed0(k - 1)
        PROVE  Listed0(k)
    <2> DEFINE s == f[k - 1]
               Q == P \cap (1..(k - 1))
    <2>1. s \in Seq(E) /\ \E at : Lists(s, g, Q, at)
      BY <1>3
    <2>2. PICK at : Lists(s, g, Q, at)
      BY <2>1
    <2>3. f[k] = IF k \in P THEN Append(s, g[k]) ELSE s
      BY <1>1
    <2>4. CASE k \notin P
      <3>1. P \cap (1..k) = Q /\ f[k] = s
        BY <2>3, <2>4
      <3> QED BY <2>1, <2>2, <3>1
    <2>5. CASE k \in P
      <3>1. P \cap (1..k) = Q \cup {k} /\ (\A q \in Q : q \in Nat /\ q < k) /\ k \in Nat
        BY <2>5
      <3>2. g[k] \in E
        BY <2>5
      <3> HIDE DEF s, Q
      <3> DEFINE u == Append(s, g[k])
                 to == [j \in 1..(Len(s) + 1) |-> IF j = Len(s) + 1 THEN k ELSE at[j]]
      <3>3. /\ u \in Seq(E) /\ Len(u) = Len(s) + 1 /\ Len(s) \in Nat
            /\ \A i \in 1..Len(s) : u[i] = s[i]
            /\ u[Len(s) + 1] = g[k]
            /\ \A i \in 1..(Len(s) + 1) : i \in 1..Len(s) \/ i = Len(s) + 1
        BY <2>1, <3>2, Added
      <3>4. /\ \A j \in 1..Len(s) : to[j] = at[j] /\ j \in 1..(Len(s) + 1)
            /\ to[Len(s) + 1] = k /\ Len(s) + 1 \in 1..(Len(s) + 1)
            /\ DOMAIN to = 1..(Len(s) + 1) /\ to = [j \in 1..(Len(s) + 1) |-> to[j]]
        BY <3>3
      <3> HIDE DEF u, to
      <3>5. \A j \in 1..Len(s) : at[j] \in Q
        BY <2>2 DEF Lists
      <3>6. Lists(u, g, Q \cup {k}, to)
        <4>1. to \in [1..Len(u) -> Q \cup {k}]
          <5>1. \A j \in 1..(Len(s) + 1) : to[j] \in Q \cup {k}
            BY <3>3, <3>4, <3>5
          <5> QED BY <3>3, <3>4, <5>1
        <4>2. \A j \in 1..Len(u) : u[j] = g[to[j]]
          BY <2>2, <3>3, <3>4 DEF Lists
        <4>3. \A i, j \in 1..Len(u) : i < j => to[i] < to[j]
          <5> SUFFICES ASSUME NEW i \in 1..Len(u), NEW j \in 1..Len(u), i < j PROVE to[i] < to[j]
            OBVIOUS
          <5>1. i \in 1..Len(s)
            BY <3>3
          <5>2. CASE j \in 1..Len(s)
            BY <2>2, <3>4, <5>1, <5>2 DEF Lists
          <5>3. CASE j = Len(s) + 1
            BY <3>1, <3>4, <3>5, <5>1, <5>3
          <5> QED BY <3>3, <5>2, <5>3
        <4>4. \A p \in Q \cup {k} : \E j \in 1..Len(u) : to[j] = p
          <5> TAKE p \in Q \cup {k}
          <5>1. CASE p = k
            BY <3>3, <3>4, <5>1
          <5>2. CASE p \in Q
            <6>1. PICK j \in 1..Len(s) : at[j] = p
              BY <2>2, <5>2 DEF Lists
            <6> QED BY <3>3, <3>4, <6>1
          <5> QED BY <5>1, <5>2
        <4> QED BY <4>1, <4>2, <4>3, <4>4 DEF Lists
      <3>7. f[k] = u
        BY <2>3, <2>5 DEF u
      <3> QED BY <3>1, <3>3, <3>6, <3>7
    <2> QED BY <2>4, <2>5
  <1> HIDE DEF Listed0
  <1>4. \A k \in 0..n : k \in S
    <2>1. 0 \in S
      BY <1>2
    <2>2. \A k \in 1..n : k - 1 \in S => k \in S
      <3> TAKE k \in 1..n
      <3>1. k \in 0..n
        OBVIOUS
      <3> QED BY <1>3, <3>1
    <2> HIDE DEF S
    <2> QED BY <2>1, <2>2, Induction
  <1>5. Listed0(n)
    BY <1>4
  <1> QED BY <1>5 DEF Listed0

LEMMA HasAppended ==
  ASSUME NEW S, NEW s \in Seq(S), NEW x \in S
  PROVE  /\ \A m : Has(Append(s, x), m) <=> Has(s, m) \/ m = x
         /\ Once(s) /\ ~Has(s, x) => Once(Append(s, x))
  <1> DEFINE u == Append(s, x)
  <1>1. /\ Len(u) = Len(s) + 1 /\ Len(s) \in Nat
        /\ \A i \in 1..Len(s) : u[i] = s[i]
        /\ u[Len(s) + 1] = x
        /\ \A i \in 1..(Len(s) + 1) : i \in 1..Len(s) \/ i = Len(s) + 1
    BY Added
  <1> HIDE DEF u
  <1>2. \A m : Has(u, m) <=> Has(s, m) \/ m = x
    <2> TAKE m
    <2>1. Has(u, m) => Has(s, m) \/ m = x
      BY <1>1 DEF Has
    <2>2. Has(s, m) => Has(u, m)
      BY <1>1 DEF Has
    <2>3. Has(u, x)
      BY <1>1 DEF Has
    <2> QED BY <2>1, <2>2, <2>3
  <1>3. Once(s) /\ ~Has(s, x) => Once(u)
    BY <1>1 DEF Has, Once
  <1> QED BY <1>2, <1>3 DEF u

LEMMA HasJoined ==
  ASSUME NEW S, NEW s \in Seq(S), NEW u \in Seq(S)
  PROVE  /\ \A m : Has(s \o u, m) <=> Has(s, m) \/ Has(u, m)
         /\ Once(s) /\ Once(u) /\ (\A m : ~(Has(s, m) /\ Has(u, m))) => Once(s \o u)
  <1> DEFINE v == s \o u
  <1>1. /\ Len(v) = Len(s) + Len(u) /\ Len(s) \in Nat /\ Len(u) \in Nat
        /\ \A i \in 1..Len(s) : v[i] = s[i]
        /\ \A i \in 1..Len(u) : v[Len(s) + i] = u[i]
        /\ \A i \in 1..(Len(s) + Len(u)) : i \in 1..Len(s) \/ i - Len(s) \in 1..Len(u)
    BY Joined DEF Joins
  <1> HIDE DEF v
  <1>2. \A i \in 1..Len(v) : \/ i \in 1..Len(s) /\ v[i] = s[i]
                             \/ i - Len(s) \in 1..Len(u) /\ v[i] = u[i - Len(s)]
    <2> TAKE i \in 1..Len(v)
    <2>1. CASE i - Len(s) \in 1..Len(u)
      <3>1. Len(s) + (i - Len(s)) = i
        BY <1>1
      <3> QED BY <1>1, <2>1, <3>1
    <2> QED BY <1>1, <2>1
  <1>3. \A i \in 1..Len(s) : i \in 1..Len(v)
    BY <1>1
  <1>4. \A i \in 1..Len(u) : Len(s) + i \in 1..Len(v)
    BY <1>1
  <1>5. \A m : Has(v, m) <=> Has(s, m) \/ Has(u, m)
    <2> TAKE m
    <2>1. Has(v, m) => Has(s, m) \/ Has(u, m)
      BY <1>2 DEF Has
    <2>2. Has(s, m) => Has(v, m)
      BY <1>1, <1>3 DEF Has
    <2>3. Has(u, m) => Has(v, m)
      BY <1>1, <1>4 DEF Has
    <2> QED BY <2>1, <2>2, <2>3
  <1>6. ASSUME Once(s), Once(u), \A m : ~(Has(s, m) /\ Has(u, m))
        PROVE  Once(v)
    <2> SUFFICES ASSUME NEW i \in 1..Len(v), NEW j \in 1..Len(v), v[i] = v[j] PROVE i = j
      BY DEF Once
    <2>1. CASE i \in 1..Len(s) /\ v[i] = s[i]
      <3>1. ~Has(u, v[j])
        BY <1>6, <2>1 DEF Has
      <3>2. j \in 1..Len(s) /\ v[j] = s[j]
        BY <1>2, <3>1 DEF Has
      <3> QED BY <1>6, <2>1, <3>2 DEF Once
    <2>2. CASE i - Len(s) \in 1..Len(u) /\ v[i] = u[i - Len(s)]
      <3>1. ~Has(s, v[j])
        BY <1>6, <2>2 DEF Has
      <3>2. j - Len(s) \in 1..Len(u) /\ v[j] = u[j - Len(s)]
        BY <1>2, <3>1 DEF Has
      <3>3. i - Len(s) = j - Len(s)
        BY <1>6, <2>2, <3>2 DEF Once
      <3> QED BY <1>1, <3>3
    <2> QED BY <1>2, <2>1, <2>2
  <1> QED BY <1>5, <1>6 DEF v

LEMMA RangeHas ==
  ASSUME NEW S, NEW s \in Seq(S)
  PROVE  \A m : m \in Answers!Range(s) <=> Has(s, m)
  <1>1. DOMAIN s = 1..Len(s)
    OBVIOUS
  <1> QED BY <1>1 DEF Answers!Range, Has

LEMMA ListHas ==
  ASSUME NEW S, NEW s \in Seq(S), NEW g, NEW P \in SUBSET Nat, NEW at, Lists(s, g, P, at)
  PROVE  /\ \A m : Has(s, m) <=> \E p \in P : g[p] = m
         /\ (\A p, q \in P : g[p] = g[q] => p = q) => Once(s)
  <1>1. /\ \A k \in 1..Len(s) : s[k] = g[at[k]] /\ at[k] \in P
        /\ \A j, k \in 1..Len(s) : j < k => at[j] < at[k]
        /\ \A p \in P : \E k \in 1..Len(s) : at[k] = p
    BY DEF Lists
  <1>2. \A m : Has(s, m) <=> \E p \in P : g[p] = m
    <2> TAKE m
    <2>1. Has(s, m) => \E p \in P : g[p] = m
      BY <1>1 DEF Has
    <2>2. ASSUME NEW p \in P, g[p] = m PROVE Has(s, m)
      BY <1>1, <2>2 DEF Has
    <2> QED BY <2>1, <2>2
  <1>3. ASSUME \A p, q \in P : g[p] = g[q] => p = q
        PROVE  Once(s)
    <2> SUFFICES ASSUME NEW i \in 1..Len(s), NEW j \in 1..Len(s), s[i] = s[j] PROVE i = j
      BY DEF Once
    <2>0. at[i] \in P /\ at[j] \in P /\ g[at[i]] = g[at[j]]
      BY <1>1
    <2>1. at[i] = at[j] /\ at[i] \in Nat
      BY <1>3, <2>0
    <2>2. ~(i < j) /\ ~(j < i)
      BY <1>1, <2>1
    <2> QED BY <2>2
  <1> QED BY <1>2, <1>3

-----------------------------------------------------------------------------
(* The tables of the saver                                                   *)

(* What is read of a thread is what the rows of its newest checkpoint hold.  *)
Newer(t) == {i \in 1..Len(table) : table[i].thread = t /\ table[i].point = Answers!Newest(t)}

LEMMA TupleLists ==
  ASSUME table \in Seq(Rows), NEW t, points[t] # {}
  PROVE  /\ Answers!GetTuple(t) \in Seq(Nat)
         /\ \E at : Lists(Answers!GetTuple(t), IdsOf(table), Newer(t), at)
  <1> DEFINE n == Len(table)
             g == IdsOf(table)
             P == Newer(t)
             rule(u) == [k \in 0..n |->
                           IF k = 0 THEN << >>
                           ELSE IF table[k].thread = t /\ table[k].point = Answers!Newest(t)
                                THEN Append(u[k - 1], table[k].id) ELSE u[k - 1]]
             ids == CHOOSE u : u = rule(u)
  <1>1. n \in Nat /\ \A k \in 1..n : g[k] = table[k].id /\ g[k] \in Nat
    <2>1. Len(table) \in Nat /\ \A k \in 1..Len(table) : table[k] \in Rows
      OBVIOUS
    <2>2. \A k \in 1..Len(table) : IdsOf(table)[k] = table[k].id
      BY DEF IdsOf
    <2> QED BY <2>1, <2>2 DEF Rows
  <1>2. Answers!GetTuple(t) = ids[n]
    BY Zenon DEF Answers!GetTuple
  <1>3. \A u : rule(u) = [k \in 0..n |-> IF k = 0 THEN << >>
                                         ELSE IF k \in P THEN Append(u[k - 1], g[k]) ELSE u[k - 1]]
    <2> TAKE u
    <2>1. \A k \in 0..n :
            (IF k = 0 THEN << >>
             ELSE IF table[k].thread = t /\ table[k].point = Answers!Newest(t)
                  THEN Append(u[k - 1], table[k].id) ELSE u[k - 1])
            = (IF k = 0 THEN << >> ELSE IF k \in P THEN Append(u[k - 1], g[k]) ELSE u[k - 1])
      <3> TAKE k \in 0..n
      <3>1. CASE k # 0
        <4>1. k \in 1..n
          BY <1>1, <3>1
        <4>2. k \in P <=> table[k].thread = t /\ table[k].point = Answers!Newest(t)
          BY <4>1 DEF Newer
        <4>3. g[k] = table[k].id
          BY <1>1, <4>1
        <4> QED BY <3>1, <4>2, <4>3, Zenon
      <3> QED BY <3>1, Zenon
    <2> QED BY <2>1, Zenon
  <1> HIDE DEF n, g, P, rule, ids
  <1>4. PICK f : Filters(n, P, g, f)
    BY <1>1, FilterIs
  <1>5. f = rule(f)
    BY <1>3, <1>4, Zenon DEF Filters
  <1>6. ids = rule(ids)
    BY <1>5, Zenon DEF ids
  <1>7. Filters(n, P, g, ids)
    BY <1>3, <1>6, Zenon DEF Filters
  <1>8. ids[n] \in Seq(Nat) /\ \E at : Lists(ids[n], g, P \cap (1..n), at)
    <2>1. \A i \in 1..n : i \in P => g[i] \in Nat
      BY <1>1
    <2> QED BY <1>1, <1>7, <2>1, FilterLists
  <1>9. P \cap (1..n) = P
    BY DEF P, n, Newer
  <1> QED BY <1>2, <1>8, <1>9 DEF g, P

(* The rows that a put keeps.                                                *)
Others(rs, messages) == {i \in 1..Len(rs) : ~Has(messages, rs[i].id)}

LEMMA WithoutLists ==
  ASSUME NEW S, NEW rs \in Seq(S), NEW M, NEW messages \in Seq(M)
  PROVE  /\ Answers!Without(rs, messages) \in Seq(S)
         /\ \E at : Lists(Answers!Without(rs, messages), rs, Others(rs, messages), at)
  <1> DEFINE n == Len(rs)
             P == Others(rs, messages)
             rule(u) == [k \in 0..n |->
                           IF k = 0 THEN << >>
                           ELSE IF rs[k].id \in Answers!Range(messages)
                                THEN u[k - 1] ELSE Append(u[k - 1], rs[k])]
             upto == CHOOSE u : u = rule(u)
  <1>1. n \in Nat /\ \A k \in 1..n : rs[k] \in S
    OBVIOUS
  <1>2. Answers!Without(rs, messages) = upto[n]
    BY Zenon DEF Answers!Without
  <1>3. \A u : rule(u) = [k \in 0..n |-> IF k = 0 THEN << >>
                                         ELSE IF k \in P THEN Append(u[k - 1], rs[k]) ELSE u[k - 1]]
    <2> TAKE u
    <2>1. \A k \in 0..n :
            (IF k = 0 THEN << >>
             ELSE IF rs[k].id \in Answers!Range(messages)
                  THEN u[k - 1] ELSE Append(u[k - 1], rs[k]))
            = (IF k = 0 THEN << >> ELSE IF k \in P THEN Append(u[k - 1], rs[k]) ELSE u[k - 1])
      <3> TAKE k \in 0..n
      <3>1. CASE k # 0
        <4>1. k \in 1..n
          BY <1>1, <3>1
        <4>2. rs[k].id \in Answers!Range(messages) <=> Has(messages, rs[k].id)
          BY RangeHas
        <4>3. k \in P <=> ~(rs[k].id \in Answers!Range(messages))
          BY <4>1, <4>2 DEF Others
        <4> QED BY <3>1, <4>3, Zenon
      <3> QED BY <3>1, Zenon
    <2> QED BY <2>1, Zenon
  <1> HIDE DEF n, P, rule, upto
  <1>4. PICK f : Filters(n, P, rs, f)
    BY <1>1, FilterIs
  <1>5. f = rule(f)
    BY <1>3, <1>4, Zenon DEF Filters
  <1>6. upto = rule(upto)
    BY <1>5, Zenon DEF upto
  <1>7. Filters(n, P, rs, upto)
    BY <1>3, <1>6, Zenon DEF Filters
  <1>8. upto[n] \in Seq(S) /\ \E at : Lists(upto[n], rs, P \cap (1..n), at)
    BY <1>1, <1>7, FilterLists
  <1>9. P \cap (1..n) = P
    BY DEF P, n, Others
  <1> QED BY <1>2, <1>8, <1>9 DEF P

LEMMA IdsIs ==
  ASSUME NEW S, NEW rs \in Seq(S)
  PROVE  /\ Len(IdsOf(rs)) = Len(rs) /\ Len(rs) \in Nat
         /\ \A i \in 1..Len(rs) : IdsOf(rs)[i] = rs[i].id /\ rs[i] \in S
         /\ (\A x \in S : x.id \in Nat) => IdsOf(rs) \in Seq(Nat)
         /\ \A m : Has(IdsOf(rs), m) <=> \E i \in 1..Len(rs) : rs[i].id = m
         /\ Once(IdsOf(rs)) <=> \A i, j \in 1..Len(rs) : rs[i].id = rs[j].id => i = j
  <1>1. /\ Len(IdsOf(rs)) = Len(rs) /\ Len(rs) \in Nat
        /\ \A i \in 1..Len(rs) : IdsOf(rs)[i] = rs[i].id /\ rs[i] \in S
        /\ (\A x \in S : x.id \in Nat) => IdsOf(rs) \in Seq(Nat)
    BY DEF IdsOf
  <1>2. \A m : Has(IdsOf(rs), m) <=> \E i \in 1..Len(rs) : rs[i].id = m
    BY <1>1 DEF Has
  <1>3. Once(IdsOf(rs)) <=> \A i, j \in 1..Len(rs) : rs[i].id = rs[j].id => i = j
    BY <1>1 DEF Once
  <1> QED BY <1>1, <1>2, <1>3

LEMMA IdsJoined ==
  ASSUME NEW R, NEW w \in Seq(R), NEW u \in Seq(R), NEW N, NEW ms \in Seq(N), IdsOf(w) \in Seq(N),
         Len(u) = Len(ms), \A i \in 1..Len(ms) : u[i].id = ms[i]
  PROVE  IdsOf(w \o u) = IdsOf(w) \o ms
  <1> DEFINE y == IdsOf(w)
             v == y \o ms
             z == w \o u
             n == Len(w) + Len(ms)
  <1>1. y \in Seq(N) /\ Len(y) = Len(w) /\ \A i \in 1..Len(w) : y[i] = w[i].id
    BY IdsIs
  <1>2. /\ Len(z) = Len(w) + Len(u) /\ Len(w) \in Nat
        /\ \A i \in 1..Len(w) : z[i] = w[i]
        /\ \A i \in 1..Len(u) : z[Len(w) + i] = u[i]
        /\ \A i \in 1..(Len(w) + Len(u)) : i \in 1..Len(w) \/ i - Len(w) \in 1..Len(u)
    <2>1. Joins(w, u, z)
      BY Joined, Zenon
    <2> HIDE DEF z
    <2> QED BY <2>1 DEF Joins
  <1> HIDE DEF y, z
  <1>3. /\ v \in Seq(N) /\ Len(v) = Len(y) + Len(ms)
        /\ \A i \in 1..Len(y) : v[i] = y[i]
        /\ \A i \in 1..Len(ms) : v[Len(y) + i] = ms[i]
    <2>1. v \in Seq(N) /\ Joins(y, ms, v)
      BY <1>1, Joined, Zenon
    <2> HIDE DEF v
    <2> QED BY <2>1 DEF Joins
  <1> HIDE DEF v
  <1>4. v = [i \in 1..n |-> v[i]]
    BY <1>1, <1>3
  <1>5. \A i \in 1..n : v[i] = z[i].id
    <2> TAKE i \in 1..n
    <2>1. CASE i \in 1..Len(w)
      BY <1>1, <1>2, <1>3, <2>1
    <2>2. CASE i - Len(w) \in 1..Len(ms)
      <3>1. i = Len(w) + (i - Len(w))
        BY <1>2
      <3>2. v[i] = ms[i - Len(w)] /\ z[i] = u[i - Len(w)]
        <4> DEFINE j == i - Len(w)
        <4>1. j \in 1..Len(ms) /\ j \in 1..Len(u) /\ i = Len(w) + j /\ i = Len(y) + j
          BY <1>1, <2>2, <3>1
        <4> HIDE DEF j
        <4>2. v[Len(y) + j] = ms[j]
          BY <1>3, <4>1
        <4>3. z[Len(w) + j] = u[j]
          BY <1>2, <4>1
        <4> QED BY <4>1, <4>2, <4>3 DEF j
      <3> QED BY <2>2, <3>2
    <2> QED BY <1>2, <2>1, <2>2
  <1>6. IdsOf(z) = [i \in 1..n |-> z[i].id]
    BY <1>2 DEF IdsOf
  <1>7. [i \in 1..n |-> v[i]] = [i \in 1..n |-> z[i].id]
    BY <1>5, Zenon
  <1>8. IdsOf(z) = v
    BY <1>4, <1>6, <1>7, Zenon
  <1> QED BY <1>8 DEF y, z, v

LEMMA TupleTalks ==
  ASSUME AnswersTyped, TableOK, NEW t \in Answers!Threads
  PROVE  /\ Answers!GetTuple(t) \in Seq(Nat) /\ Once(Answers!GetTuple(t))
         /\ \A m : Has(Answers!GetTuple(t), m) => \E i \in 1..Len(table) : table[i].id = m /\ table[i].thread = t
         /\ \A m : Has(Answers!GetTuple(t), m) => Kept(m)
  <1> DEFINE s == Answers!GetTuple(t)
  <1>1. CASE points[t] = {}
    <2>1. s = << >>
      BY <1>1, Zenon DEF Answers!GetTuple
    <2>2. Len(<< >>) = 0 /\ << >> \in Seq(Nat) /\ 1..0 = {}
      OBVIOUS
    <2> HIDE DEF s
    <2>3. Once(s) /\ \A m : ~Has(s, m)
      BY <2>1, <2>2 DEF Once, Has
    <2> QED BY <2>1, <2>2, <2>3 DEF s
  <1>2. CASE points[t] # {}
    <2>1. table \in Seq(Rows)
      BY DEF AnswersTyped
    <2>2. s \in Seq(Nat) /\ \E at : Lists(s, IdsOf(table), Newer(t), at)
      BY <1>2, <2>1, TupleLists
    <2> HIDE DEF s
    <2>3. PICK at : Lists(s, IdsOf(table), Newer(t), at)
      BY <2>2
    <2>4. \A i \in 1..Len(table) : IdsOf(table)[i] = table[i].id
      BY DEF IdsOf
    <2>5. Newer(t) \in SUBSET Nat /\ \A p \in Newer(t) : p \in 1..Len(table) /\ table[p].thread = t
      BY DEF Newer
    <2>6. \A p, q \in Newer(t) : IdsOf(table)[p] = IdsOf(table)[q] => p = q
      <3>1. Len(IdsOf(table)) = Len(table)
        BY <2>1 DEF IdsOf
      <3>2. \A p, q \in 1..Len(table) : IdsOf(table)[p] = IdsOf(table)[q] => p = q
        BY <3>1 DEF TableOK, Once
      <3> QED BY <2>5, <3>2
    <2>7. /\ \A m : Has(s, m) <=> \E p \in Newer(t) : IdsOf(table)[p] = m
          /\ (\A p, q \in Newer(t) : IdsOf(table)[p] = IdsOf(table)[q] => p = q) => Once(s)
      <3> DEFINE g == IdsOf(table)
                 P == Newer(t)
      <3>1. s \in Seq(Nat) /\ P \in SUBSET Nat /\ Lists(s, g, P, at)
        BY <2>2, <2>3, <2>5
      <3> HIDE DEF g, P
      <3>2. /\ \A m : Has(s, m) <=> \E p \in P : g[p] = m
            /\ (\A p, q \in P : g[p] = g[q] => p = q) => Once(s)
        BY <3>1, ListHas
      <3> QED BY <3>2 DEF g, P
    <2>10. Once(s)
      BY <2>6, <2>7
    <2>8. \A m : Has(s, m) => \E i \in 1..Len(table) : table[i].id = m /\ table[i].thread = t
      BY <2>4, <2>5, <2>7
    <2>9. \A m : Has(s, m) => Kept(m)
      <3>1. Len(IdsOf(table)) = Len(table)
        BY <2>1 DEF IdsOf
      <3> QED BY <2>4, <2>8, <3>1 DEF Kept, Has
    <2> QED BY <2>2, <2>8, <2>9, <2>10 DEF s
  <1> QED BY <1>1, <1>2

(* A put stores its messages in rows of its own, and keeps all others.       *)
LEMMA StoredIs ==
  ASSUME table \in Seq(Rows), Once(IdsOf(table)),
         NEW t \in Answers!Threads, NEW c \in Nat, NEW ms \in Seq(Nat), Once(ms)
  PROVE  LET new == Answers!Stored(table, t, c, ms) IN
         /\ new \in Seq(Rows) /\ Once(IdsOf(new))
         /\ \A m : Has(IdsOf(new), m) <=> Kept(m) \/ Has(ms, m)
         /\ \A i \in 1..Len(new) :
              \/ \E j \in 1..Len(table) : new[i] = table[j]
              \/ new[i].thread = t /\ new[i].point = c /\ Has(ms, new[i].id)
  <1> DEFINE w == Answers!Without(table, ms)
             u == Answers!RowsOf(t, c, ms)
             new == w \o u
             P == Others(table, ms)
  <1>1. Answers!Stored(table, t, c, ms) = new
    BY Zenon DEF Answers!Stored
  <1>2. w \in Seq(Rows) /\ \E at : Lists(w, table, P, at)
    BY WithoutLists
  <1>3. /\ u \in Seq(Rows) /\ Len(u) = Len(ms)
        /\ \A i \in 1..Len(ms) : u[i] = [id |-> ms[i], thread |-> t, point |-> c]
    <2>1. DOMAIN ms = 1..Len(ms) /\ Len(ms) \in Nat /\ \A i \in 1..Len(ms) : ms[i] \in Nat
      OBVIOUS
    <2>2. u = [i \in 1..Len(ms) |-> [id |-> ms[i], thread |-> t, point |-> c]]
      BY <2>1 DEF Answers!RowsOf
    <2> HIDE DEF u
    <2> QED BY <2>1, <2>2 DEF Rows
  <1>4. /\ Len(table) \in Nat /\ \A i \in 1..Len(table) : IdsOf(table)[i] = table[i].id
        /\ \A m : Kept(m) <=> \E i \in 1..Len(table) : table[i].id = m
        /\ \A i, j \in 1..Len(table) : table[i].id = table[j].id => i = j
    BY IdsIs DEF Kept
  <1>5. P \in SUBSET Nat /\ \A p \in P : p \in 1..Len(table) /\ ~Has(ms, table[p].id)
    BY DEF Others
  <1>6. \A p \in 1..Len(table) : ~Has(ms, table[p].id) => p \in P
    BY DEF Others
  <1> HIDE DEF w, u, P
  <1>7. PICK at : Lists(w, table, P, at)
    BY <1>2
  <1>8. /\ IdsOf(w) \in Seq(Nat) /\ Len(IdsOf(w)) = Len(w) /\ Len(w) \in Nat
        /\ \A i \in 1..Len(w) : IdsOf(w)[i] = w[i].id
    <2>1. \A x \in Rows : x.id \in Nat
      BY DEF Rows
    <2> HIDE DEF Rows
    <2> QED BY <1>2, <2>1, IdsIs
  <1>9. \A i \in 1..Len(w) : at[i] \in P /\ w[i] = table[at[i]]
    BY <1>7 DEF Lists
  <1>10. \A p \in 1..Len(table) : p \in P => \E i \in 1..Len(w) : at[i] = p
    BY <1>7 DEF Lists
  <1>11. \A i, j \in 1..Len(w) : at[i] = at[j] => i = j
    <2>1. \A i, j \in 1..Len(w) : i < j => at[i] < at[j]
      BY <1>7 DEF Lists
    <2>2. \A i \in 1..Len(w) : at[i] \in Nat
      BY <1>5, <1>9
    <2>3. \A i, j \in 1..Len(w) : i < j \/ j < i \/ i = j
      BY <1>8
    <2> QED BY <2>1, <2>2, <2>3
  <1>12. /\ \A m : Has(IdsOf(w), m) <=> \E i \in 1..Len(w) : w[i].id = m
         /\ Once(IdsOf(w)) <=> \A i, j \in 1..Len(w) : w[i].id = w[j].id => i = j
    <2> HIDE DEF Rows
    <2> QED BY <1>2, IdsIs
  <1>13. Once(IdsOf(w))
    <2>1. \A i, j \in 1..Len(w) : w[i].id = w[j].id => at[i] = at[j]
      <3> TAKE i, j \in 1..Len(w)
      <3>1. w[i] = table[at[i]] /\ w[j] = table[at[j]] /\ at[i] \in 1..Len(table) /\ at[j] \in 1..Len(table)
        BY <1>5, <1>9
      <3> HIDE DEF w
      <3> QED BY <1>4, <3>1
    <2> QED BY <1>11, <1>12, <2>1
  <1>14. \A m : Has(IdsOf(w), m) <=> Kept(m) /\ ~Has(ms, m)
    <2> TAKE m
    <2>1. ASSUME Has(IdsOf(w), m) PROVE Kept(m) /\ ~Has(ms, m)
      <3>1. PICK i \in 1..Len(w) : w[i].id = m
        BY <1>12, <2>1
      <3>2. at[i] \in 1..Len(table) /\ ~Has(ms, table[at[i]].id) /\ table[at[i]].id = m
        BY <1>5, <1>9, <3>1
      <3> QED BY <1>4, <3>2
    <2>2. ASSUME Kept(m), ~Has(ms, m) PROVE Has(IdsOf(w), m)
      <3>1. PICK i \in 1..Len(table) : table[i].id = m
        BY <1>4, <2>2
      <3>2. PICK k \in 1..Len(w) : at[k] = i
        BY <1>6, <1>10, <2>2, <3>1
      <3> QED BY <1>9, <1>12, <3>1, <3>2
    <2> QED BY <2>1, <2>2
  <1>15. /\ new \in Seq(Rows) /\ Len(new) = Len(w) + Len(ms) /\ Len(ms) \in Nat
         /\ \A i \in 1..Len(w) : new[i] = w[i]
         /\ \A i \in 1..Len(ms) : new[Len(w) + i] = u[i]
         /\ \A i \in 1..(Len(w) + Len(ms)) : i \in 1..Len(w) \/ i - Len(w) \in 1..Len(ms)
    <2>1. new \in Seq(Rows) /\ Joins(w, u, new)
      BY <1>2, <1>3, Joined, Zenon
    <2> HIDE DEF new
    <2> QED BY <1>3, <2>1 DEF Joins
  <1>16. IdsOf(new) = IdsOf(w) \o ms
    <2> DEFINE R == Rows
               N == Nat
    <2>1. \A i \in 1..Len(ms) : u[i].id = ms[i]
      <3> TAKE i \in 1..Len(ms)
      <3>1. u[i] = [id |-> ms[i], thread |-> t, point |-> c]
        BY <1>3
      <3> QED BY <3>1
    <2>2. w \in Seq(R) /\ u \in Seq(R) /\ IdsOf(w) \in Seq(N) /\ ms \in Seq(N) /\ Len(u) = Len(ms)
      BY <1>2, <1>3, <1>8
    <2> HIDE DEF R, N
    <2> QED BY <2>1, <2>2, IdsJoined
  <1> HIDE DEF new
  <1>17. /\ \A m : Has(IdsOf(new), m) <=> Has(IdsOf(w), m) \/ Has(ms, m)
         /\ Once(IdsOf(new))
    BY <1>8, <1>13, <1>14, <1>16, HasJoined
  <1>18. \A m : Has(IdsOf(new), m) <=> Kept(m) \/ Has(ms, m)
    BY <1>14, <1>17
  <1>19. \A i \in 1..Len(new) :
           \/ \E j \in 1..Len(table) : new[i] = table[j]
           \/ new[i].thread = t /\ new[i].point = c /\ Has(ms, new[i].id)
    <2> TAKE i \in 1..Len(new)
    <2>1. CASE i \in 1..Len(w)
      <3>1. at[i] \in 1..Len(table) /\ new[i] = table[at[i]]
        BY <1>5, <1>9, <1>15, <2>1
      <3> QED BY <3>1
    <2>2. CASE i - Len(w) \in 1..Len(ms)
      <3>1. i = Len(w) + (i - Len(w))
        BY <1>8
      <3>2. new[i] = u[i - Len(w)]
        BY <1>15, <2>2, <3>1
      <3>3. new[i] = [id |-> ms[i - Len(w)], thread |-> t, point |-> c]
        BY <1>3, <2>2, <3>2
      <3>4. Has(ms, ms[i - Len(w)])
        BY <2>2 DEF Has
      <3> QED BY <3>3, <3>4
    <2> QED BY <1>15, <2>1, <2>2
  <1> QED BY <1>1, <1>15, <1>17, <1>18, <1>19

LEMMA PutStep ==
  ASSUME AnswersTyped, TableOK, NEW t \in Answers!Threads, NEW c \in Nat,
         NEW ms \in Seq(Nat), Once(ms), Answers!Put(t, c, ms),
         \A m : Has(ms, m) => (t = "session" <=> InSession(m)),
         \A q \in Nat : Has(ms, 10 * q + 5) => Kept(10 * q + 4) \/ Has(ms, 10 * q + 4)
  PROVE  /\ table' \in Seq(Rows) /\ points' \in [Answers!Threads -> SUBSET Nat]
         /\ TableOK'
         /\ \A m : Kept(m)' <=> Kept(m) \/ Has(ms, m)
  <1> DEFINE new == Answers!Stored(table, t, c, ms)
  <1>1. table' = new /\ points' = [points EXCEPT ![t] = @ \cup {c}]
    BY Zenon DEF Answers!Put
  <1>2. /\ new \in Seq(Rows) /\ Once(IdsOf(new))
        /\ \A m : Has(IdsOf(new), m) <=> Kept(m) \/ Has(ms, m)
        /\ \A i \in 1..Len(new) :
             \/ \E j \in 1..Len(table) : new[i] = table[j]
             \/ new[i].thread = t /\ new[i].point = c /\ Has(ms, new[i].id)
    <2>1. table \in Seq(Rows) /\ Once(IdsOf(table))
      BY DEF AnswersTyped, TableOK
    <2> QED BY <2>1, StoredIs
  <1> HIDE DEF new
  <1>3. points \in [Answers!Threads -> SUBSET Nat]
    BY DEF AnswersTyped
  <1>4. /\ points' \in [Answers!Threads -> SUBSET Nat] /\ c \in points'[t]
        /\ \A o \in Answers!Threads : points[o] \subseteq points'[o]
    BY <1>1, <1>3
  <1>5. \A m : Kept(m)' <=> Kept(m) \/ Has(ms, m)
    <2>1. \A m : Kept(m)' <=> Has(IdsOf(table'), m)
      BY DEF Kept, Has, IdsOf
    <2> QED BY <1>1, <1>2, <2>1
  <1>6. \A i \in 1..Len(new) :
          new[i].point \in points'[new[i].thread] /\ (new[i].thread = "session" <=> InSession(new[i].id))
    <2> TAKE i \in 1..Len(new)
    <2>1. ASSUME NEW j \in 1..Len(table), new[i] = table[j]
          PROVE  new[i].point \in points'[new[i].thread] /\ (new[i].thread = "session" <=> InSession(new[i].id))
      <3>1. table[j] \in Rows
        BY DEF AnswersTyped
      <3>2. table[j].thread \in Answers!Threads
        BY <3>1 DEF Rows
      <3> QED BY <1>4, <2>1, <3>2 DEF TableOK
    <2>2. CASE new[i].thread = t /\ new[i].point = c /\ Has(ms, new[i].id)
      BY <1>4, <2>2
    <2> QED BY <1>2, <2>1, <2>2
  <1>7. \A q \in Nat : Kept(10 * q + 5)' => Kept(10 * q + 4)'
    BY <1>5 DEF TableOK
  <1>8. TableOK'
    <2>1. Once(IdsOf(table))'
      <3>1. Once(IdsOf(table))' = Once(IdsOf(table'))
        BY DEF IdsOf, Once
      <3> QED BY <1>1, <1>2, <3>1
    <2> QED BY <1>1, <1>6, <1>7, <2>1 DEF TableOK
  <1> QED BY <1>1, <1>2, <1>4, <1>5, <1>8

-----------------------------------------------------------------------------
(* There is one way only to list some places in their order.                 *)
Orders(n, P, at) ==
  /\ \A k \in 1..n : at[k] \in P
  /\ \A j, k \in 1..n : j < k => at[j] < at[k]
  /\ \A p \in P : \E k \in 1..n : at[k] = p

LEMMA OrderGoesOn ==
  ASSUME NEW n \in Nat, NEW m \in Nat, NEW P \in SUBSET Nat, NEW at, NEW bt,
         Orders(n, P, at), Orders(m, P, bt)
  PROVE  \A i \in 1..n : i \in 1..m /\ at[i] = bt[i]
  <1> DEFINE Bad == {i \in 1..n : ~(i \in 1..m /\ at[i] = bt[i])}
  <1>1. SUFFICES ASSUME Bad # {} PROVE FALSE
    OBVIOUS
  <1>2. PICK i \in Bad : \A j \in Bad : i <= j
    <2>1. Bad \in SUBSET Nat
      OBVIOUS
    <2> HIDE DEF Bad
    <2> QED BY <1>1, <2>1, Least
  <1>3. /\ i \in 1..n /\ ~(i \in 1..m /\ at[i] = bt[i])
        /\ \A j \in 1..n : j < i => j \in 1..m /\ at[j] = bt[j]
    BY <1>2
  <1> HIDE DEF Bad
  <1>4. /\ \A k \in 1..n : at[k] \in Nat
        /\ \A k \in 1..m : bt[k] \in Nat
    BY DEF Orders
  <1>5. PICK k \in 1..m : bt[k] = at[i]
    BY <1>3 DEF Orders
  <1>6. ~(k < i)
    <2>1. SUFFICES ASSUME k < i PROVE FALSE
      OBVIOUS
    <2>2. k \in 1..n /\ at[k] = bt[k]
      BY <1>3, <2>1
    <2>3. at[k] < at[i]
      BY <1>3, <2>1, <2>2 DEF Orders
    <2> QED BY <1>3, <1>4, <1>5, <2>2, <2>3
  <1>7. i \in 1..m /\ i < k
    BY <1>3, <1>5, <1>6
  <1>8. bt[i] < at[i]
    BY <1>5, <1>7 DEF Orders
  <1>9. PICK l \in 1..n : at[l] = bt[i]
    BY <1>7 DEF Orders
  <1>10. l < i
    <2>1. i < l => at[i] < at[l]
      BY <1>3 DEF Orders
    <2> QED BY <1>3, <1>4, <1>8, <1>9, <2>1
  <1>11. l \in 1..m /\ bt[l] = bt[i]
    BY <1>3, <1>9, <1>10
  <1>12. bt[l] < bt[i]
    BY <1>7, <1>10, <1>11 DEF Orders
  <1> QED BY <1>4, <1>7, <1>11, <1>12

LEMMA OneOrder ==
  ASSUME NEW n \in Nat, NEW m \in Nat, NEW P \in SUBSET Nat, NEW at, NEW bt,
         Orders(n, P, at), Orders(m, P, bt)
  PROVE  n = m /\ \A i \in 1..n : at[i] = bt[i]
  <1>1. \A i \in 1..n : i \in 1..m /\ at[i] = bt[i]
    BY OrderGoesOn
  <1>2. \A i \in 1..m : i \in 1..n
    BY OrderGoesOn
  <1>3. n = m
    <2>1. n # 0 => n \in 1..n
      OBVIOUS
    <2>2. m # 0 => m \in 1..m
      OBVIOUS
    <2> QED BY <1>1, <1>2, <2>1, <2>2
  <1> QED BY <1>1, <1>3

(* Lists of two tables are the same when their places correspond in order.   *)
Matches(g, h, P, Q, to) ==
  /\ \A q \in Q : to[q] \in P /\ g[to[q]] = h[q]
  /\ \A q, r \in Q : q < r => to[q] < to[r]
  /\ \A p \in P : \E q \in Q : to[q] = p

LEMMA ListsSame ==
  ASSUME NEW N, NEW s \in Seq(N), NEW u \in Seq(N), NEW g, NEW h,
         NEW P \in SUBSET Nat, NEW Q \in SUBSET Nat, NEW at, NEW bt, NEW to,
         Lists(s, g, P, at), Lists(u, h, Q, bt), Matches(g, h, P, Q, to)
  PROVE  u = s
  <1> DEFINE ct == [k \in 1..Len(u) |-> to[bt[k]]]
  <1>0. /\ \A q \in Q : to[q] \in P /\ g[to[q]] = h[q]
        /\ \A q, r \in Q : q < r => to[q] < to[r]
        /\ \A p \in P : \E q \in Q : to[q] = p
    BY DEF Matches
  <1>1. Len(s) \in Nat /\ Len(u) \in Nat
    OBVIOUS
  <1>2. \A k \in 1..Len(u) : ct[k] = to[bt[k]] /\ bt[k] \in Q
    BY DEF Lists
  <1> HIDE DEF ct
  <1>3. Orders(Len(u), P, ct)
    <2>1. \A p \in P : \E k \in 1..Len(u) : ct[k] = p
      <3> TAKE p \in P
      <3>1. PICK q \in Q : to[q] = p
        BY <1>0
      <3>2. PICK k \in 1..Len(u) : bt[k] = q
        BY DEF Lists
      <3> QED BY <1>2, <3>1, <3>2
    <2>2. \A k \in 1..Len(u) : ct[k] \in P
      BY <1>0, <1>2
    <2>3. \A j, k \in 1..Len(u) : j < k => ct[j] < ct[k]
      <3> SUFFICES ASSUME NEW j \in 1..Len(u), NEW k \in 1..Len(u), j < k PROVE ct[j] < ct[k]
        OBVIOUS
      <3>1. bt[j] < bt[k]
        BY DEF Lists
      <3> QED BY <1>0, <1>2, <3>1
    <2> QED BY <2>1, <2>2, <2>3 DEF Orders
  <1>4. Orders(Len(s), P, at)
    BY DEF Orders, Lists
  <1>5. Len(s) = Len(u) /\ \A i \in 1..Len(s) : at[i] = ct[i]
    <2> DEFINE n == Len(s)
               m == Len(u)
    <2>1. n \in Nat /\ m \in Nat /\ P \in SUBSET Nat /\ Orders(n, P, at) /\ Orders(m, P, ct)
      BY <1>1, <1>3, <1>4
    <2> HIDE DEF n, m
    <2>2. \A a, b \in Nat : \A R \in SUBSET Nat : \A x, y :
            Orders(a, R, x) /\ Orders(b, R, y) => a = b /\ \A i \in 1..a : x[i] = y[i]
      BY OneOrder
    <2>3. n = m /\ \A i \in 1..n : at[i] = ct[i]
      BY <2>1, <2>2
    <2> QED BY <2>3 DEF n, m
  <1>6. \A i \in 1..Len(s) : u[i] = s[i]
    <2> TAKE i \in 1..Len(s)
    <2>1. u[i] = h[bt[i]] /\ s[i] = g[at[i]]
      BY <1>5 DEF Lists
    <2>2. g[to[bt[i]]] = h[bt[i]] /\ at[i] = to[bt[i]]
      BY <1>0, <1>2, <1>5
    <2> QED BY <2>1, <2>2
  <1>7. s = [i \in 1..Len(s) |-> s[i]] /\ u = [i \in 1..Len(u) |-> u[i]]
    OBVIOUS
  <1>8. [i \in 1..Len(s) |-> s[i]] = [i \in 1..Len(s) |-> u[i]]
    BY <1>6, Zenon
  <1> QED BY <1>5, <1>7, <1>8, Zenon

-----------------------------------------------------------------------------
(* What is read of a thread after a put                                      *)

LEMMA TupleAlways ==
  \A t \in Answers!Threads :
    /\ table \in Seq(Rows) /\ points[t] # {} =>
         /\ Answers!GetTuple(t) \in Seq(Nat)
         /\ \E at : Lists(Answers!GetTuple(t), IdsOf(table), Newer(t), at)
    /\ points[t] = {} => Answers!GetTuple(t) = << >>
  <1> TAKE t \in Answers!Threads
  <1>1. table \in Seq(Rows) /\ points[t] # {} =>
          /\ Answers!GetTuple(t) \in Seq(Nat)
          /\ \E at : Lists(Answers!GetTuple(t), IdsOf(table), Newer(t), at)
    BY TupleLists
  <1>2. points[t] = {} => Answers!GetTuple(t) = << >>
    BY Zenon DEF Answers!GetTuple
  <1> QED BY <1>1, <1>2

LEMMA TuplePrimed ==
  \A t \in Answers!Threads :
    /\ table' \in Seq(Rows) /\ points'[t] # {} =>
         /\ Answers!GetTuple(t)' \in Seq(Nat)
         /\ \E at : Lists(Answers!GetTuple(t)', IdsOf(table'), Newer(t)', at)
    /\ points'[t] = {} => Answers!GetTuple(t)' = << >>
  <1>1. (\A t \in Answers!Threads :
          /\ table \in Seq(Rows) /\ points[t] # {} =>
               /\ Answers!GetTuple(t) \in Seq(Nat)
               /\ \E at : Lists(Answers!GetTuple(t), IdsOf(table), Newer(t), at)
          /\ points[t] = {} => Answers!GetTuple(t) = << >>)'
    BY TupleAlways, PTL
  <1> QED BY <1>1

(* The table after a put: the rows it keeps, and those of its messages.      *)
LEMMA StoredRows ==
  ASSUME table \in Seq(Rows), NEW t \in Answers!Threads, NEW c \in Nat, NEW ms \in Seq(Nat)
  PROVE  LET new == Answers!Stored(table, t, c, ms) IN
         \E w \in Seq(Rows) : \E at :
           /\ Lists(w, table, Others(table, ms), at)
           /\ new \in Seq(Rows) /\ Len(new) = Len(w) + Len(ms) /\ Len(w) \in Nat /\ Len(ms) \in Nat
           /\ \A i \in 1..Len(w) : new[i] = w[i]
           /\ \A i \in 1..Len(ms) : new[Len(w) + i] = [id |-> ms[i], thread |-> t, point |-> c]
           /\ \A i \in 1..Len(new) : i \in 1..Len(w) \/ i - Len(w) \in 1..Len(ms)
  <1> DEFINE w == Answers!Without(table, ms)
             u == Answers!RowsOf(t, c, ms)
             new == w \o u
             P == Others(table, ms)
  <1>1. Answers!Stored(table, t, c, ms) = new
    BY Zenon DEF Answers!Stored
  <1>2. w \in Seq(Rows) /\ \E at : Lists(w, table, P, at)
    BY WithoutLists
  <1>3. /\ u \in Seq(Rows) /\ Len(u) = Len(ms) /\ Len(ms) \in Nat
        /\ \A i \in 1..Len(ms) : u[i] = [id |-> ms[i], thread |-> t, point |-> c]
    <2>1. DOMAIN ms = 1..Len(ms) /\ Len(ms) \in Nat /\ \A i \in 1..Len(ms) : ms[i] \in Nat
      OBVIOUS
    <2>2. u = [i \in 1..Len(ms) |-> [id |-> ms[i], thread |-> t, point |-> c]]
      BY <2>1 DEF Answers!RowsOf
    <2> HIDE DEF u
    <2> QED BY <2>1, <2>2 DEF Rows
  <1> HIDE DEF w, u, P
  <1>4. new \in Seq(Rows) /\ Joins(w, u, new)
    BY <1>2, <1>3, Joined, Zenon
  <1> HIDE DEF new
  <1>5. /\ Len(new) = Len(w) + Len(ms) /\ Len(w) \in Nat
        /\ \A i \in 1..Len(w) : new[i] = w[i]
        /\ \A i \in 1..Len(ms) : new[Len(w) + i] = [id |-> ms[i], thread |-> t, point |-> c]
        /\ \A i \in 1..Len(new) : i \in 1..Len(w) \/ i - Len(w) \in 1..Len(ms)
    BY <1>3, <1>4 DEF Joins
  <1> QED BY <1>1, <1>2, <1>3, <1>4, <1>5 DEF P

LEMMA TuplePut ==
  ASSUME AnswersTyped, TableOK, NEW t \in Answers!Threads, NEW c \in Nat, NEW ms \in Seq(Nat),
         Answers!Put(t, c, ms), \A d \in points[t] : d < c,
         \A u \in Answers!Threads \ {t} : \A m : Has(Answers!GetTuple(u), m) => ~Has(ms, m)
  PROVE  /\ Answers!GetTuple(t)' = ms
         /\ \A u \in Answers!Threads \ {t} : Answers!GetTuple(u)' = Answers!GetTuple(u)
  <1> DEFINE new == Answers!Stored(table, t, c, ms)
             P == Others(table, ms)
  <1>1. table' = new /\ points' = [points EXCEPT ![t] = @ \cup {c}]
    BY Zenon DEF Answers!Put
  <1>2. table \in Seq(Rows) /\ points \in [Answers!Threads -> SUBSET Nat] /\ Len(table) \in Nat
    BY DEF AnswersTyped
  <1>12. PICK w \in Seq(Rows) : \E at :
          /\ Lists(w, table, P, at)
          /\ new \in Seq(Rows) /\ Len(new) = Len(w) + Len(ms) /\ Len(w) \in Nat /\ Len(ms) \in Nat
          /\ \A i \in 1..Len(w) : new[i] = w[i]
          /\ \A i \in 1..Len(ms) : new[Len(w) + i] = [id |-> ms[i], thread |-> t, point |-> c]
          /\ \A i \in 1..Len(new) : i \in 1..Len(w) \/ i - Len(w) \in 1..Len(ms)
    BY <1>2, StoredRows
  <1>3. PICK at :
          /\ Lists(w, table, P, at)
          /\ new \in Seq(Rows) /\ Len(new) = Len(w) + Len(ms) /\ Len(w) \in Nat /\ Len(ms) \in Nat
          /\ \A i \in 1..Len(w) : new[i] = w[i]
          /\ \A i \in 1..Len(ms) : new[Len(w) + i] = [id |-> ms[i], thread |-> t, point |-> c]
          /\ \A i \in 1..Len(new) : i \in 1..Len(w) \/ i - Len(w) \in 1..Len(ms)
    BY <1>12
  <1> HIDE DEF new
  <1>4. /\ points'[t] = points[t] \cup {c} /\ points[t] \subseteq Nat
        /\ \A u \in Answers!Threads \ {t} : points'[u] = points[u]
    BY <1>1, <1>2
  <1>5. P \in SUBSET Nat /\ \A p \in P : p \in 1..Len(table) /\ ~Has(ms, table[p].id)
    BY DEF Others
  <1>6. \A p \in 1..Len(table) : ~Has(ms, table[p].id) => p \in P
    BY DEF Others
  <1> HIDE DEF P
  <1>7. \A i \in 1..Len(w) : at[i] \in 1..Len(table) /\ at[i] \in P /\ new[i] = table[at[i]]
    BY <1>3, <1>5 DEF Lists
  <1>8. \A i \in 1..Len(table) : table[i].thread \in Answers!Threads /\ table[i].point \in points[table[i].thread]
    <2> TAKE i \in 1..Len(table)
    <2>1. table[i] \in Rows
      BY <1>2
    <2>2. table[i].thread \in Answers!Threads
      BY <2>1 DEF Rows
    <2> QED BY <2>2 DEF TableOK
  <1>9. IdsOf(new) = [i \in 1..Len(new) |-> new[i].id] /\ IdsOf(table) = [i \in 1..Len(table) |-> table[i].id]
    BY DEF IdsOf
  <1>10. Answers!GetTuple(t)' = ms
    <2> DEFINE Q == Newer(t)'
               n == Len(w)
               h == IdsOf(new)
               to == [q \in Q |-> q]
               bt == [i \in 1..Len(ms) |-> n + i]
    <2>1. Answers!Newest(t)' = c
      <3> DEFINE N == CHOOSE e \in points'[t] : \A d \in points'[t] : d <= e
      <3>5. c \in points'[t] /\ \A d \in points'[t] : d <= c
        BY <1>4
      <3>1. \E e \in points'[t] : \A d \in points'[t] : d <= e
        BY <3>5
      <3>2. N \in points'[t] /\ \A d \in points'[t] : d <= N
        BY <3>1
      <3>3. Answers!Newest(t)' = N
        BY DEF Answers!Newest
      <3> HIDE DEF N
      <3>4. c <= N /\ (N = c \/ N < c) /\ N \in Nat
        BY <1>4, <3>2
      <3> QED BY <3>3, <3>4
    <2>2. Q = {i \in 1..Len(new) : new[i].thread = t /\ new[i].point = c}
      BY <1>1, <2>1 DEF Newer
    <2>3. \A i \in 1..Len(w) : ~(new[i].thread = t /\ new[i].point = c)
      <3> TAKE i \in 1..Len(w)
      <3>1. table[at[i]].thread = t => table[at[i]].point < c
        BY <1>7, <1>8
      <3>2. new[i] = table[at[i]]
        BY <1>7
      <3>3. ~(c < c)
        OBVIOUS
      <3> QED BY <3>1, <3>2, <3>3
    <2>4. \A i \in 1..Len(ms) : n + i \in Q /\ h[n + i] = ms[i]
      <3> TAKE i \in 1..Len(ms)
      <3>1. n + i \in 1..Len(new)
        BY <1>3
      <3>2. new[n + i] = [id |-> ms[i], thread |-> t, point |-> c]
        BY <1>3
      <3>3. new[n + i].id = ms[i] /\ new[n + i].thread = t /\ new[n + i].point = c
        BY <3>2
      <3> QED BY <1>9, <2>2, <3>1, <3>3
    <2>5. \A q \in Q : \E i \in 1..Len(ms) : q = n + i
      <3> TAKE q \in Q
      <3>1. q \in 1..Len(new) /\ q \notin 1..Len(w)
        BY <2>2, <2>3
      <3>2. q - n \in 1..Len(ms)
        BY <1>3, <3>1
      <3>3. q = n + (q - n)
        BY <1>3, <3>1
      <3> QED BY <3>2, <3>3
    <2>6. Q \in SUBSET Nat
      BY <2>2
    <2>7. Lists(ms, h, Q, bt)
      <3>1. \A i \in 1..Len(ms) : bt[i] = n + i
        OBVIOUS
      <3>2. bt \in [1..Len(ms) -> Q]
        <4>1. \A i \in 1..Len(ms) : n + i \in Q
          BY <2>4
        <4> HIDE DEF Q, n
        <4> QED BY <4>1
      <3> HIDE DEF bt, Q, h
      <3>3. \A i, j \in 1..Len(ms) : i < j => bt[i] < bt[j]
        BY <1>3, <3>1
      <3>4. \A i \in 1..Len(ms) : ms[i] = h[bt[i]]
        BY <2>4, <3>1
      <3>5. \A q \in Q : \E i \in 1..Len(ms) : bt[i] = q
        BY <2>5, <3>1
      <3> QED BY <3>2, <3>3, <3>4, <3>5 DEF Lists
    <2>8. PICK b : Lists(Answers!GetTuple(t)', IdsOf(table'), Q, b)
      BY <1>1, <1>3, <1>4, TuplePrimed
    <2>9. Answers!GetTuple(t)' \in Seq(Nat)
      BY <1>1, <1>3, <1>4, TuplePrimed
    <2>10. \A q \in Q : to[q] = q
      OBVIOUS
    <2> DEFINE s == Answers!GetTuple(t)'
    <2>11. s \in Seq(Nat) /\ Lists(s, h, Q, b)
      BY <1>1, <2>8, <2>9
    <2> HIDE DEF Q, h, to, bt, s
    <2>12. Matches(h, h, Q, Q, to)
      BY <2>10 DEF Matches
    <2>13. s = ms
      BY <2>6, <2>7, <2>11, <2>12, ListsSame, Zenon
    <2> QED BY <2>13 DEF s
  <1>11. ASSUME NEW u \in Answers!Threads \ {t}
         PROVE  Answers!GetTuple(u)' = Answers!GetTuple(u)
    <2>1. CASE points[u] = {}
      BY <1>4, <2>1, TupleAlways, TuplePrimed
    <2>2. CASE points[u] # {}
      <3> DEFINE s == Answers!GetTuple(u)
                 s1 == Answers!GetTuple(u)'
                 g == IdsOf(table)
                 h == IdsOf(new)
                 P0 == Newer(u)
                 Q == Newer(u)'
      <3>1. s \in Seq(Nat) /\ \E a : Lists(s, g, P0, a)
        BY <1>2, <2>2, TupleAlways
      <3>2. s1 \in Seq(Nat) /\ \E b : Lists(s1, h, Q, b)
        BY <1>1, <1>3, <1>4, <2>2, TuplePrimed
      <3>3. Answers!Newest(u)' = Answers!Newest(u)
        BY <1>4 DEF Answers!Newest
      <3>4. /\ P0 = {i \in 1..Len(table) : table[i].thread = u /\ table[i].point = Answers!Newest(u)}
            /\ Q = {i \in 1..Len(new) : new[i].thread = u /\ new[i].point = Answers!Newest(u)}
        BY <1>1, <3>3 DEF Newer
      <3>5. \A m : Has(s, m) => ~Has(ms, m)
        OBVIOUS
      <3> HIDE DEF s, s1, P0, Q, g, h
      <3>6. PICK a : Lists(s, g, P0, a)
        BY <3>1
      <3>7. PICK b : Lists(s1, h, Q, b)
        BY <3>2
      <3>8. \A q \in Q : q \in 1..Len(w)
        <4> TAKE q \in Q
        <4>1. q \in 1..Len(new) /\ new[q].thread = u
          BY <3>4
        <4>2. ASSUME q - Len(w) \in 1..Len(ms) PROVE FALSE
          <5>1. q = Len(w) + (q - Len(w))
            BY <1>3, <4>1
          <5>2. new[q] = [id |-> ms[q - Len(w)], thread |-> t, point |-> c]
            BY <1>3, <4>2, <5>1
          <5>3. new[q].thread = t
            BY <5>2
          <5> QED BY <4>1, <5>3
        <4> QED BY <1>3, <4>1, <4>2
      <3>9. \A q \in Q : at[q] \in P0 /\ g[at[q]] = h[q]
        <4> TAKE q \in Q
        <4>1. q \in 1..Len(w) /\ q \in 1..Len(new) /\ new[q].thread = u /\ new[q].point = Answers!Newest(u)
          BY <3>4, <3>8
        <4>2. at[q] \in 1..Len(table) /\ new[q] = table[at[q]]
          BY <1>7, <4>1
        <4>3. g[at[q]] = table[at[q]].id /\ h[q] = new[q].id
          BY <1>9, <4>1, <4>2 DEF g, h
        <4> QED BY <3>4, <4>1, <4>2, <4>3
      <3>10. \A q, r \in Q : q < r => at[q] < at[r]
        BY <1>3, <3>8 DEF Lists
      <3>11. \A p \in P0 : \E q \in Q : at[q] = p
        <4> TAKE p \in P0
        <4>1. p \in 1..Len(table) /\ table[p].thread = u /\ table[p].point = Answers!Newest(u)
          BY <3>4
        <4>2. PICK k \in 1..Len(s) : a[k] = p
          BY <3>6 DEF Lists
        <4>3. s[k] = table[p].id
          BY <1>9, <3>6, <4>1, <4>2 DEF Lists, g
        <4>4. ~Has(ms, table[p].id)
          BY <3>5, <4>2, <4>3 DEF Has
        <4>5. PICK q \in 1..Len(w) : at[q] = p
          BY <1>3, <1>6, <4>1, <4>4 DEF Lists
        <4>6. new[q] = table[p] /\ q \in 1..Len(new)
          BY <1>3, <1>7, <4>5
        <4>7. q \in Q
          BY <3>4, <4>1, <4>6
        <4> QED BY <4>5, <4>7
      <3>12. P0 \in SUBSET Nat /\ Q \in SUBSET Nat
        BY <3>4
      <3>13. Matches(g, h, P0, Q, at)
        BY <3>9, <3>10, <3>11 DEF Matches
      <3>14. s1 = s
        BY <3>1, <3>2, <3>6, <3>7, <3>12, <3>13, ListsSame, Zenon
      <3> QED BY <3>14 DEF s, s1
    <2> QED BY <2>1, <2>2
  <1> QED BY <1>10, <1>11

-----------------------------------------------------------------------------
(* Steps                                                                     *)

LEMMA Asked ==
  ASSUME AnswersInv, NEW r \in Requests
  PROVE  /\ r \in Nat \ {0} /\ Requests \subseteq Nat /\ 0 \notin Requests
         /\ run[r] \in Runs /\ puts[r] \in Seq(Puts) /\ StreamOK(r) /\ ReplyOK(r)
         /\ run[r].messages \in Seq(Nat) /\ Once(run[r].messages)
         /\ \A m : Has(run[r].messages, m) => InSession(m)
         /\ sent[r] \in Seq(Signals)
  <1>1. r \in Nat \ {0} /\ Requests \subseteq Nat /\ 0 \notin Requests
    BY AnswersAssumption DEF Answers!ConversationAssumption
  <1>2. run[r] \in Runs /\ puts[r] \in Seq(Puts) /\ StreamOK(r) /\ ReplyOK(r)
    BY DEF AnswersInv, AnswersTyped
  <1>3. run[r].messages \in Talks
    BY <1>2 DEF Runs
  <1>4. /\ run[r].messages \in Seq(Nat) /\ Once(run[r].messages)
        /\ \A m : Has(run[r].messages, m) => InSession(m)
    BY <1>3 DEF Talks, Has
  <1>5. sent[r] \in Seq(Signals)
    BY DEF AnswersInv, AnswersTyped
  <1> QED BY <1>1, <1>2, <1>4, <1>5

LEMMA Primed ==
  \A q, m : /\ Coming(q, m)' <=> InPuts(puts'[q], m)
            /\ Has(run[q].messages, m)' <=> Has(run'[q].messages, m)
            /\ Kept(m)' <=> Has(IdsOf(table'), m)
  BY DEF Coming, InPuts, Has, Kept, IdsOf

LEMMA PutsAppended ==
  ASSUME NEW S, NEW ps \in Seq(S), NEW p \in S
  PROVE  \A m : InPuts(Append(ps, p), m) <=> InPuts(ps, m) \/ Has(p.messages, m)
  <1> DEFINE u == Append(ps, p)
  <1>1. /\ Len(u) = Len(ps) + 1 /\ Len(ps) \in Nat
        /\ \A i \in 1..Len(ps) : u[i] = ps[i]
        /\ u[Len(ps) + 1] = p
        /\ \A i \in 1..(Len(ps) + 1) : i \in 1..Len(ps) \/ i = Len(ps) + 1
    BY Added
  <1> HIDE DEF u
  <1>2. \A m : InPuts(u, m) <=> InPuts(ps, m) \/ Has(p.messages, m)
    <2> TAKE m
    <2>1. InPuts(u, m) => InPuts(ps, m) \/ Has(p.messages, m)
      BY <1>1 DEF InPuts
    <2>2. InPuts(ps, m) => InPuts(u, m)
      BY <1>1 DEF InPuts
    <2>3. Has(p.messages, m) => InPuts(u, m)
      BY <1>1 DEF InPuts
    <2> QED BY <2>1, <2>2, <2>3
  <1> QED BY <1>2 DEF u

LEMMA PutsTaken ==
  ASSUME NEW S, NEW ps \in Seq(S), ps # << >>
  PROVE  \A m : InPuts(ps, m) <=> InPuts(Tail(ps), m) \/ Has(Head(ps).messages, m)
  <1> DEFINE u == Tail(ps)
  <1>1. /\ Len(u) = Len(ps) - 1 /\ Len(ps) \in Nat /\ 1 \in 1..Len(ps) /\ Head(ps) = ps[1]
        /\ \A i \in 1..Len(u) : u[i] = ps[i + 1] /\ i + 1 \in 1..Len(ps)
        /\ \A i \in 1..Len(ps) : i - 1 \in 1..Len(u) \/ i = 1
    OBVIOUS
  <1> HIDE DEF u
  <1>2. \A m : InPuts(ps, m) <=> InPuts(u, m) \/ Has(Head(ps).messages, m)
    <2> TAKE m
    <2>1. ASSUME NEW k \in 1..Len(ps), Has(ps[k].messages, m)
          PROVE  InPuts(u, m) \/ Has(Head(ps).messages, m)
      <3>1. CASE k = 1
        BY <1>1, <2>1, <3>1
      <3>2. CASE k - 1 \in 1..Len(u)
        <4>1. u[k - 1] = ps[(k - 1) + 1] /\ (k - 1) + 1 = k
          BY <1>1, <3>2
        <4> QED BY <2>1, <3>2, <4>1 DEF InPuts
      <3> QED BY <1>1, <3>1, <3>2
    <2>2. InPuts(u, m) => InPuts(ps, m)
      BY <1>1 DEF InPuts
    <2>3. Has(Head(ps).messages, m) => InPuts(ps, m)
      BY <1>1 DEF InPuts
    <2> QED BY <2>1, <2>2, <2>3 DEF InPuts
  <1> QED BY <1>2 DEF u

LEMMA TableSame ==
  ASSUME TableOK, UNCHANGED <<table, points>>
  PROVE  TableOK'
  <1>1. Once(IdsOf(table))' <=> Once(IdsOf(table))
    BY DEF Once, IdsOf
  <1>2. \A m : Kept(m)' <=> Kept(m)
    BY DEF Kept, Has, IdsOf
  <1> QED BY <1>1, <1>2 DEF TableOK

(* What is said stays the same when no message changes.                      *)
LEMMA SameSaid ==
  ASSUME UNCHANGED <<table, puts>>, \A q \in Requests : run'[q].messages = run[q].messages
  PROVE  /\ \A m : (Said(m)' <=> Said(m)) /\ (Kept(m)' <=> Kept(m))
         /\ \A q \in Requests : \A m : Coming(q, m)' <=> Coming(q, m)
  <1>1. \A m : Kept(m)' <=> Kept(m)
    BY DEF Kept, Has, IdsOf
  <1>2. \A q \in Requests : \A m : Coming(q, m)' <=> Coming(q, m)
    BY Primed DEF Coming
  <1>3. \A q \in Requests : \A m : Has(run[q].messages, m)' <=> Has(run[q].messages, m)
    BY Primed
  <1> QED BY <1>1, <1>2, <1>3 DEF Said

LEMMA StreamKept ==
  ASSUME NEW q \in Requests, StreamOK(q), run'[q] = run[q], sent'[q] = sent[q]
  PROVE  StreamOK(q)'
  BY DEF StreamOK, Has, Answers!At, Answers!Running

LEMMA ReplyKept ==
  ASSUME NEW q \in Requests, ReplyOK(q),
         run'[q].at = run[q].at, run'[q].again = run[q].again,
         Said(First(q))' => Said(First(q)), Said(Second(q))' => Said(Second(q)),
         \A m : Kept(m) => Kept(m)', \A m : Coming(q, m) => Coming(q, m)' \/ Kept(m)'
  PROVE  ReplyOK(q)'
  <1>1. \A m : Arrives(q, m) => Arrives(q, m)'
    BY DEF Arrives
  <1>2. Arrives(q, First(q)) => Arrives(q, First(q))'
    BY <1>1 DEF First
  <1>3. Arrives(q, Second(q)) => Arrives(q, Second(q))'
    BY <1>1 DEF Second
  <1> QED BY <1>2, <1>3 DEF ReplyOK, Early, Answers!At

(* A superstep of one run says at most one message that was not said before. *)
LEMMA SuperStep ==
  ASSUME AnswersInv, NEW r \in Requests, NEW ms \in Talks, NEW at \in {"model", "end"}, NEW x,
         run[r].at \in {"load", "model"}, ~run[r].aborted, Answers!Step(r, ms, at),
         UNCHANGED <<table, points, controller, mirror, breaks>>,
         \A m : Has(ms, m) => Said(m) \/ m = x,
         \A q \in Requests \ {r} : x # First(q) /\ x # Second(q),
         at = "model" => x # First(r) /\ x # Second(r),
         at = "end" => Has(ms, x) /\ x = (IF run[r].again THEN Second(r) ELSE First(r)),
         \/ sent' = sent
         \/ run[r].stream /\ sent' = [sent EXCEPT ![r] = Append(@, "message")]
  PROVE  AnswersInv'
  <1> DEFINE p == [point |-> clock, messages |-> ms]
  <1>1. /\ AnswersTyped /\ TableOK /\ Registered /\ \A m \in mirror : Kept(m)
        /\ \A q \in Requests : StreamOK(q) /\ ReplyOK(q) /\ run[q] \in Runs
        /\ run \in [Requests -> Runs] /\ puts \in [Requests -> Seq(Puts)] /\ clock \in Nat
        /\ sent \in [Requests -> Seq(Signals)]
    BY DEF AnswersInv, AnswersTyped
  <1>2. /\ run' = [run EXCEPT ![r].messages = ms, ![r].at = at]
        /\ puts' = [puts EXCEPT ![r] = Append(@, p)] /\ clock' = clock + 1
    BY DEF Answers!Step
  <1>3. /\ run'[r] = [run[r] EXCEPT !.messages = ms, !.at = at]
        /\ \A q \in Requests \ {r} : run'[q] = run[q]
    BY <1>1, <1>2
  <1>4. /\ run'[r].at = at /\ run'[r].messages = ms /\ run'[r].again = run[r].again
        /\ run'[r].stream = run[r].stream /\ run'[r].aborted = run[r].aborted
        /\ run'[r] \in Runs
    BY <1>1, <1>3 DEF Runs
  <1>5. run' \in [Requests -> Runs]
    BY <1>1, <1>2, <1>3, <1>4
  <1>6. p \in Puts
    BY <1>1 DEF Puts
  <1>7. /\ puts' \in [Requests -> Seq(Puts)] /\ puts'[r] = Append(puts[r], p)
        /\ \A q \in Requests \ {r} : puts'[q] = puts[q]
    <2> HIDE DEF p
    <2>1. Append(puts[r], p) \in Seq(Puts)
      BY <1>1, <1>6
    <2> QED BY <1>1, <1>2, <2>1
  <1>8. \A m : Kept(m)' <=> Kept(m)
    BY DEF Kept, Has, IdsOf
  <1>9. \A m : Coming(r, m)' <=> Coming(r, m) \/ Has(ms, m)
    <2>1. puts[r] \in Seq(Puts) /\ p.messages = ms
      BY <1>1
    <2> HIDE DEF p
    <2>2. \A m : InPuts(Append(puts[r], p), m) <=> InPuts(puts[r], m) \/ Has(p.messages, m)
      BY <1>6, <2>1, PutsAppended
    <2> QED BY <1>7, <2>1, <2>2, Primed DEF Coming
  <1>10. \A q \in Requests \ {r} : \A m : Coming(q, m)' <=> Coming(q, m)
    BY <1>7, Primed DEF Coming
  <1>11. \A m : Said(m)' => Said(m) \/ m = x
    <2> TAKE m
    <2>1. \A q \in Requests : Has(run[q].messages, m)' => Has(run[q].messages, m) \/ Has(ms, m)
      BY <1>3, <1>4, Primed
    <2> QED BY <1>8, <1>9, <1>10, <2>1 DEF Said
  <1>12. AnswersTyped'
    <2>1. sent' \in [Requests -> Seq(Signals)]
      <3>1. sent[r] \in Seq(Signals) /\ "message" \in Signals
        BY <1>1 DEF Signals
      <3>2. Append(sent[r], "message") \in Seq(Signals)
        BY <3>1
      <3> QED BY <1>1, <3>2
    <2> QED BY <1>1, <1>2, <1>5, <1>7, <2>1 DEF AnswersTyped
  <1>13. TableOK' /\ Registered' /\ (\A m \in mirror : Kept(m))'
    <2>1. TableOK'
      BY <1>1, TableSame
    <2>2. Registered'
      BY <1>1, <1>3, <1>4 DEF Registered, AnswersTyped
    <2> QED BY <1>1, <1>8, <2>1, <2>2
  <1>14. ASSUME NEW q \in Requests
         PROVE  StreamOK(q)' /\ ReplyOK(q)'
    <2>1. CASE q # r
      <3>1. run'[q] = run[q] /\ sent'[q] = sent[q] /\ StreamOK(q) /\ ReplyOK(q)
        BY <1>1, <1>3, <2>1
      <3>2. Said(First(q))' => Said(First(q))
        <4>1. x # First(q)
          BY <2>1
        <4> QED BY <1>11, <4>1 DEF First
      <3>3. Said(Second(q))' => Said(Second(q))
        <4>1. x # Second(q)
          BY <2>1
        <4> QED BY <1>11, <4>1 DEF Second
      <3>4. StreamOK(q)'
        BY <3>1, StreamKept
      <3>5. ReplyOK(q)'
        <4>1. \A m : (Kept(m) => Kept(m)') /\ (Coming(q, m) => Coming(q, m)' \/ Kept(m)')
          BY <1>8, <1>10, <2>1
        <4> QED BY <3>1, <3>2, <3>3, <4>1, ReplyKept
      <3> QED BY <3>4, <3>5
    <2>2. CASE q = r
      <3>1. StreamOK(r)'
        <4>1. /\ StreamOK(r) /\ sent[r] \in Seq(Signals)
              /\ Answers!Running(r) /\ Answers!Running(r)' /\ at # "idle" /\ at # "register"
          BY <1>1, <1>4 DEF Answers!Running
        <4>2. CASE sent'[r] = sent[r]
          BY <1>4, <4>1, <4>2 DEF StreamOK, Answers!At, Has
        <4>3. CASE run[r].stream /\ sent'[r] = Append(sent[r], "message")
          <5>1. /\ Len(sent'[r]) = Len(sent[r]) + 1 /\ Len(sent[r]) \in Nat
                /\ \A i \in 1..Len(sent[r]) : sent'[r][i] = sent[r][i]
                /\ sent'[r][Len(sent[r]) + 1] = "message"
                /\ \A i \in 1..(Len(sent[r]) + 1) : i \in 1..Len(sent[r]) \/ i = Len(sent[r]) + 1
            BY <4>1, <4>3
          <5>2. ~Has(sent[r], "done")
            BY <4>1, <4>3 DEF StreamOK
          <5>3. \A i \in 1..Len(sent'[r]) : sent'[r][i] # "done"
            BY <5>1, <5>2 DEF Has
          <5> QED BY <1>4, <4>1, <5>3 DEF StreamOK, Answers!At, Has
        <4> QED BY <1>1, <4>2, <4>3
      <3>2. ReplyOK(r)'
        <4>1. ReplyOK(r) /\ Early(r)
          BY <1>1 DEF Early
        <4>2. First(r) # Second(r)
          BY Asked DEF First, Second
        <4>3. CASE at = "model"
          <5>1. x # First(r) /\ x # Second(r)
            BY <4>3
          <5>2. Said(First(r))' => Said(First(r))
            BY <1>11, <5>1 DEF First
          <5>3. Said(Second(r))' => Said(Second(r))
            BY <1>11, <5>1 DEF Second
          <5> QED BY <1>4, <4>1, <4>3, <5>2, <5>3 DEF ReplyOK, Early, Answers!At
        <4>4. CASE at = "end"
          <5>1. /\ Has(ms, x) /\ x = (IF run[r].again THEN Second(r) ELSE First(r))
                /\ Coming(r, x)'
            BY <1>9, <4>4
          <5>2. ~Early(r)' /\ Answers!At(r, "end")'
            BY <1>4, <4>4 DEF Early, Answers!At
          <5>3. CASE run[r].again
            <6>1. Coming(r, Second(r))'
              BY <1>9, <5>1, <5>3 DEF Second
            <6> QED BY <1>4, <5>2, <5>3, <6>1 DEF ReplyOK, Arrives
          <5>4. CASE ~run[r].again
            <6>1. Coming(r, First(r))'
              BY <1>9, <5>1, <5>4 DEF First
            <6>2. ~Said(Second(r))'
              <7>1. x # Second(r) /\ ~Said(Second(r))
                BY <4>1, <4>2, <5>1, <5>4 DEF ReplyOK
              <7> QED BY <1>11, <7>1 DEF Second
            <6> QED BY <1>4, <5>2, <5>4, <6>1, <6>2 DEF ReplyOK, Arrives
          <5> QED BY <5>3, <5>4
        <4> QED BY <4>3, <4>4
      <3> QED BY <2>2, <3>1, <3>2
    <2> QED BY <2>1, <2>2
  <1> QED BY <1>12, <1>13, <1>14 DEF AnswersInv

LEMMA Numbers ==
  \A q, r \in Nat :
    /\ 10 * q # First(r) /\ 10 * q # Second(r) /\ 10 * q + 7 # First(r) /\ 10 * q + 7 # Second(r)
    /\ 10 * q + 4 # First(r) /\ 10 * q + 4 # Second(r) /\ 10 * q + 5 # First(r) /\ 10 * q + 5 # Second(r)
    /\ First(q) # Second(r) /\ (First(q) = First(r) => q = r) /\ (Second(q) = Second(r) => q = r)
    /\ InSession(10 * q) /\ InSession(10 * q + 7) /\ InSession(First(q)) /\ InSession(Second(q))
    /\ First(q) \in Nat /\ Second(q) \in Nat
  BY DEF First, Second, InSession

(* The last n of a list.                                                     *)
LEMMA LastOf ==
  ASSUME NEW S, NEW s \in Seq(S), NEW n \in Nat, n < Len(s)
  PROVE  LET last == SubSeq(s, Len(s) - n + 1, Len(s)) IN
         /\ last \in Seq(S) /\ Len(last) = n /\ Len(s) \in Nat
         /\ \A i \in 1..n : last[i] = s[Len(s) - n + i] /\ Len(s) - n + i \in 1..Len(s)
         /\ Once(s) => Once(last)
  <1> DEFINE d == Len(s) - n
             last == SubSeq(s, d + 1, Len(s))
  <1>1. d \in Nat /\ Len(s) \in Nat /\ d + n = Len(s)
    OBVIOUS
  <1> HIDE DEF d
  <1>2. /\ last \in Seq(S) /\ Len(last) = Len(s) - d
        /\ \A i \in 1..(Len(s) - d) : last[i] = s[d + i] /\ d + i \in 1..Len(s)
    BY <1>1
  <1> HIDE DEF last
  <1>3. Len(last) = n /\ \A i \in 1..n : last[i] = s[d + i] /\ d + i \in 1..Len(s)
    BY <1>1, <1>2
  <1>4. Once(s) => Once(last)
    <2> SUFFICES ASSUME Once(s), NEW i \in 1..n, NEW j \in 1..n, last[i] = last[j] PROVE i = j
      BY <1>3 DEF Once
    <2>1. d + i = d + j
      BY <1>3 DEF Once
    <2> QED BY <1>1, <2>1
  <1> QED BY <1>1, <1>2, <1>3, <1>4 DEF d, last

LEMMA LoadStep ==
  ASSUME AnswersInv, NEW r \in Requests, Answers!Load(r)
  PROVE  AnswersInv'
  <1> DEFINE base == Answers!GetTuple("session")
             x == 10 * r
             ms == IF Has(base, x) THEN base ELSE Append(base, x)
  <1>1. r \in Nat \ {0} /\ Requests \subseteq Nat
    BY Asked
  <1>2. /\ base \in Seq(Nat) /\ Once(base)
        /\ \A m : Has(base, m) => \E i \in 1..Len(table) : table[i].id = m /\ table[i].thread = "session"
        /\ \A m : Has(base, m) => Kept(m)
    <2>1. AnswersTyped /\ TableOK /\ "session" \in Answers!Threads
      BY DEF AnswersInv, Answers!Threads
    <2> QED BY <2>1, TupleTalks
  <1>3. \A m : Has(base, m) => InSession(m)
    BY <1>2 DEF AnswersInv, TableOK
  <1>4. Answers!Step(r, ms, "model") /\ run[r].at = "load" /\ ~run[r].aborted
        /\ UNCHANGED <<table, points, controller, sent, mirror, breaks>>
    <2>1. Answers!Question(r) \in Answers!Range(base) <=> Has(base, x)
      BY <1>2, RangeHas DEF Answers!Question
    <2>2. Answers!Step(r, IF Answers!Question(r) \in Answers!Range(base) THEN base
                          ELSE Append(base, Answers!Question(r)), "model")
      BY Zenon DEF Answers!Load
    <2>3. Answers!Question(r) = x
      BY DEF Answers!Question
    <2>4. run[r].at = "load" /\ ~run[r].aborted /\ UNCHANGED <<table, points, controller, sent, mirror, breaks>>
      BY DEF Answers!Load, Answers!At
    <2> HIDE DEF base, x
    <2> QED BY <2>1, <2>2, <2>3, <2>4, Zenon
  <1>5. x \in Nat /\ InSession(x) /\ \A q \in Requests : x # First(q) /\ x # Second(q)
    BY <1>1, Numbers
  <1> HIDE DEF base, x
  <1>6. /\ ms \in Seq(Nat) /\ Once(ms)
        /\ \A m : Has(ms, m) => Has(base, m) \/ m = x
    BY <1>2, <1>5, HasAppended
  <1> HIDE DEF ms
  <1>7. ms \in Talks /\ \A m : Has(ms, m) => Said(m) \/ m = x
    BY <1>2, <1>3, <1>5, <1>6 DEF Talks, Has, Said
  <1> QED BY <1>4, <1>5, <1>7, SuperStep

LEMMA SummariseStep ==
  ASSUME AnswersInv, NEW r \in Requests, Answers!Summarise(r)
  PROVE  AnswersInv'
  <1> DEFINE old == run[r].messages
             rest == SubSeq(old, Len(old) - Keep + 1, Len(old))
             x == 10 * r + 7
             ms == <<x>> \o rest
  <1>1. /\ r \in Nat \ {0} /\ Requests \subseteq Nat /\ Keep \in Nat \ {0}
        /\ old \in Seq(Nat) /\ Once(old) /\ \A m : Has(old, m) => InSession(m)
    BY Asked, AnswersAssumption DEF Answers!ConversationAssumption
  <1>2. /\ Answers!Step(r, ms, "model") /\ run[r].at = "model" /\ ~run[r].aborted
        /\ UNCHANGED <<table, points, controller, sent, mirror, breaks>>
        /\ Len(old) > Keep + 1 /\ x \notin Answers!Range(old)
    BY DEF Answers!Summarise, Answers!Summarised, Answers!SummaryOf, Answers!At
  <1>3. x \in Nat /\ InSession(x) /\ \A q \in Requests : x # First(q) /\ x # Second(q)
    BY <1>1, Numbers
  <1> HIDE DEF old
  <1>4. ~Has(old, x)
    BY <1>1, <1>2, RangeHas
  <1> HIDE DEF x
  <1>5. /\ rest \in Seq(Nat) /\ Len(rest) = Keep /\ Len(old) \in Nat
        /\ \A i \in 1..Keep : rest[i] = old[Len(old) - Keep + i] /\ Len(old) - Keep + i \in 1..Len(old)
        /\ Once(rest)
    <2>1. Keep \in Nat /\ Keep < Len(old)
      BY <1>1, <1>2
    <2> QED BY <1>1, <2>1, LastOf
  <1> HIDE DEF rest
  <1>6. \A m : Has(rest, m) => Has(old, m)
    BY <1>5 DEF Has
  <1>7. Once(rest)
    BY <1>5
  <1>8. <<x>> \in Seq(Nat) /\ Once(<<x>>) /\ \A m : Has(<<x>>, m) <=> m = x
    <2>1. Len(<<x>>) = 1 /\ <<x>>[1] = x /\ \A i \in 1..1 : i = 1
      OBVIOUS
    <2> QED BY <1>3, <2>1 DEF Once, Has
  <1>9. /\ ms \in Seq(Nat) /\ Once(ms)
        /\ \A m : Has(ms, m) <=> m = x \/ Has(rest, m)
    <2> DEFINE s == <<x>>
    <2>1. s \in Seq(Nat) /\ Once(s) /\ \A m : Has(s, m) <=> m = x
      BY <1>8
    <2> HIDE DEF s
    <2>2. s \o rest \in Seq(Nat)
      BY <1>5, <2>1, Joined
    <2>3. /\ \A m : Has(s \o rest, m) <=> Has(s, m) \/ Has(rest, m)
          /\ Once(s) /\ Once(rest) /\ (\A m : ~(Has(s, m) /\ Has(rest, m))) => Once(s \o rest)
      BY <1>5, <2>1, HasJoined
    <2>4. \A m : ~(Has(s, m) /\ Has(rest, m))
      BY <1>4, <1>6, <2>1
    <2> QED BY <1>7, <2>1, <2>2, <2>3, <2>4 DEF s
  <1> HIDE DEF ms
  <1>10. ms \in Talks /\ \A m : Has(ms, m) => Said(m) \/ m = x
    BY <1>1, <1>3, <1>6, <1>9 DEF Talks, Has, Said, old
  <1>11. /\ run[r].at \in {"load", "model"} /\ ~run[r].aborted /\ sent' = sent
         /\ Answers!Step(r, ms, "model")
         /\ UNCHANGED <<table, points, controller, mirror, breaks>>
    BY <1>2
  <1>12. /\ \A q \in Requests \ {r} : x # First(q) /\ x # Second(q)
         /\ x # First(r) /\ x # Second(r)
    BY <1>3
  <1> QED BY <1>10, <1>11, <1>12, SuperStep

LEMMA AnswerGivenStep ==
  ASSUME AnswersInv, NEW r \in Requests, Answers!Answer(r)
  PROVE  AnswersInv'
  <1> DEFINE old == run[r].messages
             x == IF run[r].again THEN Second(r) ELSE First(r)
             ms == Append(old, x)
  <1>1. /\ r \in Nat \ {0} /\ Requests \subseteq Nat /\ ReplyOK(r)
        /\ old \in Seq(Nat) /\ Once(old) /\ \A m : Has(old, m) => InSession(m)
    BY Asked
  <1>2. x = Answers!Reply(r)
    BY DEF Answers!Reply, First, Second
  <1>3. /\ Answers!Step(r, ms, "end") /\ run[r].at = "model" /\ ~run[r].aborted
        /\ UNCHANGED <<table, points, controller, mirror, breaks>>
        /\ \/ sent' = sent
           \/ run[r].stream /\ sent' = [sent EXCEPT ![r] = Append(@, "message")]
    <2> HIDE DEF x
    <2> QED BY <1>2 DEF Answers!Answer, Answers!At
  <1>4. /\ x \in Nat /\ InSession(x) /\ \A q \in Requests \ {r} : x # First(q) /\ x # Second(q)
    BY <1>1, Numbers
  <1>5. ~Said(x)
    BY <1>1, <1>3 DEF ReplyOK, Early
  <1> HIDE DEF old
  <1>6. ~Has(old, x)
    BY <1>5 DEF Said, old
  <1>7. /\ ms \in Seq(Nat) /\ Once(ms) /\ \A m : Has(ms, m) <=> Has(old, m) \/ m = x
    <2> HIDE DEF x
    <2>1. Append(old, x) \in Seq(Nat)
      BY <1>1, <1>4
    <2> QED BY <1>1, <1>4, <1>6, <2>1, HasAppended
  <1>8. x = (IF run[r].again THEN Second(r) ELSE First(r))
    OBVIOUS
  <1> HIDE DEF ms, x
  <1>9. ms \in Talks /\ Has(ms, x) /\ \A m : Has(ms, m) => Said(m) \/ m = x
    BY <1>1, <1>4, <1>7 DEF Talks, Has, Said, old
  <1> QED BY <1>3, <1>4, <1>8, <1>9, SuperStep

LEMMA CallSubagentStep ==
  ASSUME AnswersInv, NEW r \in Requests, Answers!CallSubagent(r)
  PROVE  AnswersInv'
  <1> DEFINE base == Answers!GetTuple("subagent")
             task == 10 * r + 4
             report == 10 * r + 5
             pair == <<task, report>>
             ms == base \o pair
  <1>1. /\ r \in Nat \ {0} /\ Requests \subseteq Nat
        /\ AnswersTyped /\ TableOK /\ Registered /\ "subagent" \in Answers!Threads
        /\ \A q \in Requests : StreamOK(q) /\ ReplyOK(q)
    BY Asked DEF AnswersInv, Answers!Threads
  <1>2. /\ task \notin {x.id : x \in Answers!Range(table)}
        /\ Answers!Put("subagent", clock, ms) /\ clock' = clock + 1
        /\ UNCHANGED <<run, puts, controller, sent, mirror, breaks>>
    <2>1. Answers!Report(r) = pair
      BY Zenon DEF Answers!Report
    <2>2. Answers!Report(r)[1] = task
      BY <2>1
    <2>3. /\ Answers!Report(r)[1] \notin {x.id : x \in Answers!Range(table)}
          /\ Answers!Put("subagent", clock, base \o Answers!Report(r)) /\ clock' = clock + 1
          /\ UNCHANGED <<run, puts, controller, sent, mirror, breaks>>
      BY Zenon DEF Answers!CallSubagent
    <2> HIDE DEF base, pair, task
    <2> QED BY <2>1, <2>2, <2>3, Zenon
  <1>3. /\ base \in Seq(Nat) /\ Once(base)
        /\ \A m : Has(base, m) => \E i \in 1..Len(table) : table[i].id = m /\ table[i].thread = "subagent"
        /\ \A m : Has(base, m) => Kept(m)
    BY <1>1, TupleTalks
  <1>4. table \in Seq(Rows) /\ clock \in Nat
    BY <1>1 DEF AnswersTyped
  <1>5. ~Kept(task) /\ ~Kept(report)
    <2>1. ~Kept(task)
      <3>1. \A i \in 1..Len(table) : table[i] \in Answers!Range(table)
        BY <1>4 DEF Answers!Range
      <3>2. \A i \in 1..Len(table) : table[i].id # task
        <4> HIDE DEF task
        <4> QED BY <1>2, <3>1
      <3>3. Kept(task) <=> \E i \in 1..Len(table) : table[i].id = task
        BY <1>4, IdsIs DEF Kept
      <3> QED BY <3>2, <3>3
    <2> QED BY <1>1, <2>1 DEF TableOK
  <1>6. task \in Nat /\ report \in Nat /\ task # report
    BY <1>1
  <1>7. /\ \A q \in Requests : task # First(q) /\ task # Second(q) /\ report # First(q) /\ report # Second(q)
        /\ \A q \in Nat : 10 * q + 5 = report => 10 * q + 4 = task
    BY <1>1, Numbers
  <1> HIDE DEF base, task, report
  <1>8. /\ pair \in Seq(Nat) /\ Once(pair)
        /\ \A m : Has(pair, m) <=> m = task \/ m = report
    <2>1. pair \in Seq(Nat) /\ Len(pair) = 2 /\ pair[1] = task /\ pair[2] = report
      BY <1>6
    <2>2. 1 \in 1..2 /\ 2 \in 1..2 /\ \A i \in 1..2 : i = 1 \/ i = 2
      OBVIOUS
    <2> HIDE DEF pair
    <2> QED BY <1>6, <2>1, <2>2 DEF Once, Has
  <1> HIDE DEF pair
  <1>9. /\ ms \in Seq(Nat) /\ Once(ms)
        /\ \A m : Has(ms, m) <=> Has(base, m) \/ m = task \/ m = report
    <2>1. base \o pair \in Seq(Nat)
      BY <1>3, <1>8, Joined
    <2>2. /\ \A m : Has(base \o pair, m) <=> Has(base, m) \/ Has(pair, m)
          /\ Once(base) /\ Once(pair) /\ (\A m : ~(Has(base, m) /\ Has(pair, m))) => Once(base \o pair)
      BY <1>3, <1>8, HasJoined
    <2>3. \A m : ~(Has(base, m) /\ Has(pair, m))
      BY <1>3, <1>5, <1>8
    <2> QED BY <1>3, <1>8, <2>1, <2>2, <2>3
  <1> HIDE DEF ms
  <1>10. \A q \in Nat : Has(ms, 10 * q + 5) => Kept(10 * q + 4) \/ Has(ms, 10 * q + 4)
    <2> TAKE q \in Nat
    <2>1. CASE Has(base, 10 * q + 5)
      BY <1>1, <1>3, <2>1 DEF TableOK
    <2>2. CASE 10 * q + 5 = report
      BY <1>7, <1>9, <2>2
    <2>3. 10 * q + 5 # task
      BY <1>1 DEF task
    <2> QED BY <1>9, <2>1, <2>2, <2>3
  <1>11. /\ table' \in Seq(Rows) /\ points' \in [Answers!Threads -> SUBSET Nat]
         /\ TableOK'
         /\ \A m : Kept(m)' <=> Kept(m) \/ Has(ms, m)
    <2>1. \A m : Has(base, m) => ~InSession(m)
      BY <1>1, <1>3 DEF TableOK
    <2>2. ~InSession(task) /\ ~InSession(report)
      BY <1>1 DEF InSession, task, report
    <2>3. \A m : Has(ms, m) => ("subagent" = "session" <=> InSession(m))
      BY <1>9, <2>1, <2>2
    <2> QED BY <1>1, <1>2, <1>4, <1>9, <1>10, <2>3, PutStep
  <1>12. \A q \in Requests : \A m : /\ Has(run[q].messages, m)' <=> Has(run[q].messages, m)
                                    /\ Coming(q, m)' <=> Coming(q, m)
    BY <1>2, Primed DEF Coming
  <1>13. \A m : Said(m)' => Said(m) \/ m = task \/ m = report
    BY <1>3, <1>9, <1>11, <1>12 DEF Said
  <1>14. ASSUME NEW q \in Requests
         PROVE  StreamOK(q)' /\ ReplyOK(q)'
    <2>1. run'[q] = run[q] /\ sent'[q] = sent[q] /\ StreamOK(q) /\ ReplyOK(q)
      BY <1>1, <1>2
    <2>2. Said(First(q))' => Said(First(q))
      <3>1. First(q) # task /\ First(q) # report
        BY <1>7
      <3> QED BY <1>13, <3>1 DEF First
    <2>3. Said(Second(q))' => Said(Second(q))
      <3>1. Second(q) # task /\ Second(q) # report
        BY <1>7
      <3> QED BY <1>13, <3>1 DEF Second
    <2>4. \A m : (Kept(m) => Kept(m)') /\ (Coming(q, m) => Coming(q, m)' \/ Kept(m)')
      BY <1>11, <1>12
    <2>5. ReplyOK(q)'
      BY <2>1, <2>2, <2>3, <2>4, ReplyKept
    <2> QED BY <2>1, <2>5, StreamKept
  <1>15. AnswersTyped'
    BY <1>1, <1>2, <1>4, <1>11 DEF AnswersTyped
  <1>16. Registered' /\ (\A m \in mirror : Kept(m))'
    <2>1. \A m \in mirror : Kept(m)
      BY DEF AnswersInv
    <2> QED BY <1>1, <1>2, <1>11, <2>1 DEF Registered
  <1> QED BY <1>11, <1>14, <1>15, <1>16 DEF AnswersInv

LEMMA LandStep ==
  ASSUME AnswersInv, NEW r \in Requests, Answers!Land(r)
  PROVE  AnswersInv'
  <1> DEFINE ps == puts[r]
             p == Head(ps)
             ms == p.messages
             c == p.point
  <1>1. /\ AnswersTyped /\ TableOK /\ Registered /\ "session" \in Answers!Threads
        /\ \A q \in Requests : StreamOK(q) /\ ReplyOK(q)
        /\ puts \in [Requests -> Seq(Puts)] /\ ps \in Seq(Puts)
    BY DEF AnswersInv, AnswersTyped, Answers!Threads
  <1>2. /\ ps # << >> /\ Answers!Put("session", c, ms)
        /\ puts' = [puts EXCEPT ![r] = Tail(@)]
        /\ UNCHANGED <<clock, run, controller, sent, mirror, breaks>>
    BY DEF Answers!Land, Answers!Quiet
  <1> HIDE DEF ps
  <1>3. p \in Puts /\ Tail(ps) \in Seq(Puts)
    BY <1>1, <1>2
  <1>4. ms \in Talks /\ c \in Nat
    BY <1>3 DEF Puts
  <1>5. \A m : InPuts(ps, m) <=> InPuts(Tail(ps), m) \/ Has(ms, m)
    BY <1>1, <1>2, PutsTaken
  <1> HIDE DEF c, ms, p
  <1>6. ms \in Seq(Nat) /\ Once(ms) /\ \A m : Has(ms, m) => InSession(m)
    BY <1>4 DEF Talks, Has
  <1>7. \A q \in Nat : Has(ms, 10 * q + 5) => Kept(10 * q + 4) \/ Has(ms, 10 * q + 4)
    <2>1. \A q \in Nat : ~InSession(10 * q + 5)
      BY DEF InSession
    <2> QED BY <1>6, <2>1
  <1>8. /\ table' \in Seq(Rows) /\ points' \in [Answers!Threads -> SUBSET Nat]
        /\ TableOK'
        /\ \A m : Kept(m)' <=> Kept(m) \/ Has(ms, m)
    BY <1>1, <1>2, <1>4, <1>6, <1>7, PutStep
  <1>9. /\ puts' \in [Requests -> Seq(Puts)] /\ puts'[r] = Tail(ps)
        /\ \A q \in Requests \ {r} : puts'[q] = puts[q]
    BY <1>1, <1>2, <1>3 DEF ps
  <1>10. /\ \A m : Coming(r, m) <=> Coming(r, m)' \/ Has(ms, m)
         /\ \A q \in Requests \ {r} : \A m : Coming(q, m)' <=> Coming(q, m)
         /\ \A q \in Requests : \A m : Has(run[q].messages, m)' <=> Has(run[q].messages, m)
    <2>1. \A m : Coming(r, m) <=> InPuts(ps, m)
      BY DEF Coming, ps
    <2>2. \A m : Coming(r, m)' <=> InPuts(Tail(ps), m)
      BY <1>9, Primed
    <2>3. \A q \in Requests \ {r} : \A m : Coming(q, m)' <=> Coming(q, m)
      BY <1>9, Primed DEF Coming
    <2>4. \A q \in Requests : \A m : Has(run[q].messages, m)' <=> Has(run[q].messages, m)
      BY <1>2, Primed
    <2> QED BY <1>5, <2>1, <2>2, <2>3, <2>4
  <1>11. \A m : Said(m)' => Said(m)
    BY <1>8, <1>10 DEF Said
  <1>12. ASSUME NEW q \in Requests
         PROVE  StreamOK(q)' /\ ReplyOK(q)'
    <2>1. run'[q] = run[q] /\ sent'[q] = sent[q] /\ StreamOK(q) /\ ReplyOK(q)
      BY <1>1, <1>2
    <2>2. Said(First(q))' => Said(First(q))
      BY <1>11 DEF First
    <2>3. Said(Second(q))' => Said(Second(q))
      BY <1>11 DEF Second
    <2>4. \A m : (Kept(m) => Kept(m)') /\ (Coming(q, m) => Coming(q, m)' \/ Kept(m)')
      BY <1>8, <1>10
    <2>5. ReplyOK(q)'
      BY <2>1, <2>2, <2>3, <2>4, ReplyKept
    <2> QED BY <2>1, <2>5, StreamKept
  <1>13. AnswersTyped'
    BY <1>1, <1>2, <1>8, <1>9 DEF AnswersTyped
  <1>14. Registered' /\ (\A m \in mirror : Kept(m))'
    <2>1. \A m \in mirror : Kept(m)
      BY DEF AnswersInv
    <2> QED BY <1>1, <1>2, <1>8, <2>1 DEF Registered
  <1> QED BY <1>8, <1>12, <1>13, <1>14 DEF AnswersInv

(* A step that says nothing: what is said before an answer is given, and    *)
(* that a given one arrives, stays as it is.                                *)
Moves(q) ==
  \/ run'[q].again = run[q].again /\ run'[q].at = run[q].at
  \/ run'[q].again = run[q].again /\ Early(q) /\ Early(q)'
  \/ run'[q].at = "over"
  \/ run[q].at # "over" /\ ~run[q].again /\ run'[q].at = "load" /\ run'[q].again

LEMMA ControlStep ==
  ASSUME AnswersInv, UNCHANGED <<table, points, clock, puts>>,
         run' \in [Requests -> Runs], \A q \in Requests : run'[q].messages = run[q].messages,
         controller' \in Requests \cup {0}, sent' \in [Requests -> Seq(Signals)], Registered',
         \A q \in Requests : StreamOK(q)', \A q \in Requests : Moves(q),
         \A m \in mirror' : Kept(m)
  PROVE  AnswersInv'
  <1>1. AnswersTyped /\ TableOK /\ \A q \in Requests : ReplyOK(q) /\ run[q] \in Runs
    BY DEF AnswersInv, AnswersTyped
  <1>2. /\ \A m : (Said(m)' <=> Said(m)) /\ (Kept(m)' <=> Kept(m))
        /\ \A q \in Requests : \A m : Coming(q, m)' <=> Coming(q, m)
    BY SameSaid
  <1>3. AnswersTyped'
    BY <1>1 DEF AnswersTyped
  <1>4. TableOK'
    BY <1>1, TableSame
  <1>5. ASSUME NEW q \in Requests
        PROVE  ReplyOK(q)'
    <2>1. ReplyOK(q) /\ Moves(q) /\ run[q].at \in {"idle", "register", "load", "model", "end", "over"}
      BY <1>1 DEF Runs
    <2>2. /\ Said(First(q))' <=> Said(First(q))
          /\ Arrives(q, First(q))' <=> Arrives(q, First(q))
      BY <1>2 DEF First, Arrives
    <2>3. /\ Said(Second(q))' <=> Said(Second(q))
          /\ Arrives(q, Second(q))' <=> Arrives(q, Second(q))
      BY <1>2 DEF Second, Arrives
    <2> QED BY <2>1, <2>2, <2>3 DEF Moves, ReplyOK, Early, Answers!At
  <1>6. (\A m \in mirror : Kept(m))'
    BY <1>2
  <1> QED BY <1>3, <1>4, <1>5, <1>6 DEF AnswersInv

LEMMA AskStep ==
  ASSUME AnswersInv, NEW r \in Requests, NEW stream \in BOOLEAN, Answers!Ask(r, stream)
  PROVE  AnswersInv'
  <1>1. /\ AnswersTyped /\ Registered /\ \A m \in mirror : Kept(m)
        /\ \A q \in Requests : StreamOK(q)
        /\ run \in [Requests -> Runs] /\ sent \in [Requests -> Seq(Signals)]
        /\ controller \in Requests \cup {0}
    BY DEF AnswersInv, AnswersTyped
  <1>2. /\ run[r].at = "idle"
        /\ run' = [run EXCEPT ![r].at = IF stream THEN "register" ELSE "load", ![r].stream = stream]
        /\ UNCHANGED <<table, points, clock, puts, controller, sent, mirror, breaks>>
    BY DEF Answers!Ask, Answers!At
  <1>3. /\ run'[r] = [run[r] EXCEPT !.at = IF stream THEN "register" ELSE "load", !.stream = stream]
        /\ \A q \in Requests \ {r} : run'[q] = run[q]
        /\ run[r] \in Runs
    BY <1>1, <1>2
  <1>4. /\ run'[r].at = (IF stream THEN "register" ELSE "load") /\ run'[r].stream = stream
        /\ run'[r].again = run[r].again /\ run'[r].aborted = run[r].aborted
        /\ run'[r].messages = run[r].messages /\ run'[r] \in Runs
    BY <1>3 DEF Runs
  <1>5. run' \in [Requests -> Runs] /\ \A q \in Requests : run'[q].messages = run[q].messages
    BY <1>1, <1>2, <1>3, <1>4
  <1>6. Registered'
    BY <1>1, <1>2, <1>3, <1>4 DEF Registered
  <1>7. StreamOK(r)'
    <2>1. ~run[r].again /\ ~run[r].aborted /\ sent[r] = << >>
      BY <1>1, <1>2 DEF StreamOK, Answers!At
    <2>2. Len(<< >>) = 0 /\ 1..0 = {}
      OBVIOUS
    <2>3. sent'[r] = << >> /\ ~Has(sent[r], "done")'
      BY <1>2, <2>1, <2>2 DEF Has
    <2> QED BY <1>4, <2>1, <2>2, <2>3 DEF StreamOK, Answers!At, Answers!Running
  <1>8. \A q \in Requests : StreamOK(q)'
    BY <1>1, <1>2, <1>3, <1>7, StreamKept
  <1>9. \A q \in Requests : Moves(q)
    BY <1>2, <1>3, <1>4 DEF Moves, Early
  <1> QED BY <1>1, <1>2, <1>5, <1>6, <1>8, <1>9, ControlStep

LEMMA RegisterStep ==
  ASSUME AnswersInv, NEW r \in Requests, Answers!Register(r)
  PROVE  AnswersInv'
  <1>1. /\ AnswersTyped /\ Registered /\ \A m \in mirror : Kept(m)
        /\ \A q \in Requests : StreamOK(q)
        /\ run \in [Requests -> Runs] /\ sent \in [Requests -> Seq(Signals)]
        /\ controller \in Requests \cup {0} /\ 0 \notin Requests
    BY Asked DEF AnswersInv, AnswersTyped
  <1>2. /\ run[r].at = "register" /\ controller' = r
        /\ run' = [q \in Requests |-> IF q = r THEN [run[q] EXCEPT !.at = "load"]
                                      ELSE IF q = controller THEN [run[q] EXCEPT !.aborted = TRUE]
                                      ELSE run[q]]
        /\ UNCHANGED <<table, points, clock, puts, sent, mirror, breaks>>
    BY DEF Answers!Register, Answers!At
  <1>3. run[r].stream /\ controller # r
    BY <1>1, <1>2 DEF StreamOK, Registered, Answers!At
  <1>4. /\ run'[r] = [run[r] EXCEPT !.at = "load"]
        /\ \A q \in Requests \ {r, controller} : run'[q] = run[q]
        /\ \A q \in Requests \ {r} : q = controller => run'[q] = [run[q] EXCEPT !.aborted = TRUE]
        /\ \A q \in Requests : run[q] \in Runs
    BY <1>1, <1>2
  <1>5. ASSUME NEW q \in Requests
        PROVE  /\ run'[q] \in Runs /\ run'[q].again = run[q].again /\ run'[q].stream = run[q].stream
               /\ run'[q].messages = run[q].messages
               /\ run'[q].at = (IF q = r THEN "load" ELSE run[q].at)
               /\ run'[q].aborted = (IF q = controller THEN TRUE ELSE run[q].aborted)
    <2>1. CASE q = r
      <3>1. run'[q] = [run[q] EXCEPT !.at = "load"] /\ run[q] \in Runs
        BY <1>4, <2>1
      <3> QED BY <1>3, <2>1, <3>1 DEF Runs
    <2>2. CASE q # r /\ q = controller
      <3>1. run'[q] = [run[q] EXCEPT !.aborted = TRUE] /\ run[q] \in Runs
        BY <1>4, <2>2
      <3> QED BY <2>2, <3>1 DEF Runs
    <2>3. CASE q # r /\ q # controller
      BY <1>4, <2>3
    <2> QED BY <2>1, <2>2, <2>3
  <1>6. run' \in [Requests -> Runs]
    BY <1>2, <1>5
  <1>7. Registered'
    BY <1>2, <1>3, <1>5 DEF Registered
  <1>8. ASSUME NEW q \in Requests
        PROVE  StreamOK(q)'
    <2>1. StreamOK(q) /\ sent'[q] = sent[q] /\ (Has(sent[q], "done")' <=> Has(sent[q], "done"))
      BY <1>1, <1>2 DEF Has
    <2>2. q = controller => run[q].stream /\ run[q].at \in {"load", "model", "end"}
      BY <1>1 DEF Registered
    <2> QED BY <1>2, <1>3, <1>5, <2>1, <2>2 DEF StreamOK, Answers!At, Answers!Running
  <1>9. \A q \in Requests : Moves(q)
    BY <1>2, <1>5 DEF Moves, Early
  <1> QED BY <1>1, <1>2, <1>5, <1>6, <1>7, <1>8, <1>9, ControlStep

(* What is written to a stream that has not been told that it is complete.  *)
LEMMA Completed ==
  ASSUME NEW s \in Seq(Signals), ~Has(s, "done"), NEW u \in Seq(Signals),
         u = <<"done">> \/ u = <<"error", "done">>
  PROVE  s \o u \in Seq(Signals) /\ \A i \in 1..Len(s \o u) : (s \o u)[i] = "done" => i = Len(s \o u)
  <1> DEFINE v == s \o u
  <1>1. v \in Seq(Signals) /\ Joins(s, u, v)
    BY Joined, Zenon
  <1>2. \A i \in 1..Len(u) : u[i] = "done" => i = Len(u)
    <2>1. CASE u = <<"done">>
      <3>1. Len(u) = 1 /\ \A i \in 1..1 : i = 1
        BY <2>1
      <3> QED BY <3>1
    <2>2. CASE u = <<"error", "done">>
      <3>1. Len(u) = 2 /\ u[1] = "error" /\ \A i \in 1..2 : i = 1 \/ i = 2
        BY <2>2
      <3> QED BY <3>1
    <2> QED BY <2>1, <2>2
  <1>3. \A i \in 1..Len(s) : s[i] # "done"
    BY DEF Has
  <1> HIDE DEF v
  <1>4. ASSUME NEW i \in 1..Len(v), v[i] = "done" PROVE i = Len(v)
    <2>1. i \in 1..(Len(s) + Len(u)) /\ Len(s) \in Nat /\ Len(u) \in Nat /\ Len(v) = Len(s) + Len(u)
      BY <1>1 DEF Joins
    <2>2. ~(i \in 1..Len(s))
      BY <1>1, <1>3, <1>4 DEF Joins
    <2>3. i - Len(s) \in 1..Len(u)
      BY <1>1, <2>1, <2>2 DEF Joins
    <2>4. i = Len(s) + (i - Len(s))
      BY <2>1
    <2>5. u[i - Len(s)] = "done"
      BY <1>1, <1>4, <2>3, <2>4 DEF Joins
    <2>6. i - Len(s) = Len(u)
      BY <1>2, <2>3, <2>5
    <2> QED BY <2>1, <2>6
  <1> QED BY <1>1, <1>4 DEF v

(* The run of a request goes on, is over or starts again, and the others    *)
(* are left as they are: what is left to show of each such step.            *)
LEMMA RunStep ==
  ASSUME AnswersInv, NEW r \in Requests, Answers!Running(r),
         NEW now \in Runs, run' = [run EXCEPT ![r] = now], now.messages = run[r].messages,
         NEW told \in Seq(Signals), sent' = [sent EXCEPT ![r] = told],
         UNCHANGED <<table, points, clock, puts>>,
         controller' \in {0, controller}, controller' = r => now.at = run[r].at /\ now.stream = run[r].stream,
         \A m \in mirror' : Kept(m),
         StreamOK(r)', Moves(r)
  PROVE  AnswersInv'
  <1>1. /\ AnswersTyped /\ Registered
        /\ \A q \in Requests : StreamOK(q)
        /\ run \in [Requests -> Runs] /\ sent \in [Requests -> Seq(Signals)]
        /\ controller \in Requests \cup {0} /\ 0 \notin Requests
    BY Asked DEF AnswersInv, AnswersTyped
  <1>2. /\ run'[r] = now /\ \A q \in Requests \ {r} : run'[q] = run[q] /\ sent'[q] = sent[q]
        /\ run' \in [Requests -> Runs] /\ \A q \in Requests : run'[q].messages = run[q].messages
    BY <1>1
  <1>3. sent' \in [Requests -> Seq(Signals)]
    BY <1>1
  <1>4. Registered' /\ controller' \in Requests \cup {0}
    <2>1. CASE controller' = 0
      BY <2>1 DEF Registered
    <2>2. CASE controller' = controller /\ controller # 0
      <3>1. run[controller].at \in {"load", "model", "end"} /\ run[controller].stream
        BY <1>1, <2>2 DEF Registered
      <3>2. run'[controller].at = run[controller].at /\ run'[controller].stream = run[controller].stream
        BY <1>1, <1>2, <2>2
      <3> QED BY <1>1, <2>2, <3>1, <3>2 DEF Registered
    <2> QED BY <2>1, <2>2
  <1>5. \A q \in Requests : StreamOK(q)'
    BY <1>1, <1>2, StreamKept
  <1>6. \A q \in Requests : Moves(q)
    BY <1>2 DEF Moves
  <1> QED BY <1>2, <1>3, <1>4, <1>5, <1>6, ControlStep

LEMMA Ended ==
  ASSUME AnswersInv, NEW r \in Requests, Answers!Running(r), Answers!Release(r)
  PROVE  /\ controller' \in {0, controller} /\ controller' # r
         /\ run[r].stream => ~Has(sent[r], "done")
  <1>1. Registered /\ StreamOK(r) /\ r # 0
    BY Asked DEF AnswersInv
  <1> QED BY <1>1 DEF Answers!Release, Answers!None, Registered, StreamOK

LEMMA CompleteStep ==
  ASSUME AnswersInv, NEW r \in Requests, Answers!Complete(r)
  PROVE  AnswersInv'
  <1> DEFINE now == [run[r] EXCEPT !.at = "over"]
             told == IF run[r].stream THEN sent[r] \o <<"done">> ELSE sent[r]
             x == Answers!Reply(r)
  <1>1. /\ run[r].at = "end" /\ puts[r] = << >> /\ ~run[r].aborted /\ Answers!Running(r)
        /\ Answers!Release(r)
        /\ mirror' = mirror \cup {x} /\ run' = [run EXCEPT ![r].at = "over"]
        /\ sent' = (IF run[r].stream THEN [sent EXCEPT ![r] = Append(@, "done")] ELSE sent)
        /\ UNCHANGED <<table, points, clock, puts, breaks>>
    BY DEF Answers!Complete, Answers!At, Answers!Quiet, Answers!Running
  <1>2. /\ run \in [Requests -> Runs] /\ sent \in [Requests -> Seq(Signals)] /\ run[r] \in Runs
        /\ sent[r] \in Seq(Signals) /\ StreamOK(r) /\ ReplyOK(r) /\ \A m \in mirror : Kept(m)
    BY DEF AnswersInv, AnswersTyped
  <1>3. Kept(x)
    <2>1. \A m : ~Coming(r, m)
      <3>1. Len(<< >>) = 0 /\ 1..0 = {}
        OBVIOUS
      <3> QED BY <1>1, <3>1 DEF Coming, InPuts
    <2>2. x = IF run[r].again THEN Second(r) ELSE First(r)
      BY DEF Answers!Reply, First, Second
    <2> QED BY <1>1, <1>2, <2>1, <2>2 DEF ReplyOK, Arrives, Answers!At
  <1>4. /\ run' = [run EXCEPT ![r] = now] /\ now \in Runs /\ now.at = "over"
        /\ now.messages = run[r].messages
    BY <1>1, <1>2 DEF Runs
  <1>5. /\ controller' \in {0, controller} /\ controller' # r
        /\ run[r].stream => ~Has(sent[r], "done")
    BY <1>1, Ended
  <1>6. <<"done">> \in Seq(Signals) /\ Append(sent[r], "done") = sent[r] \o <<"done">>
    BY <1>2 DEF Signals
  <1>7. told \in Seq(Signals) /\ \A i \in 1..Len(told) : told[i] = "done" => i = Len(told)
    <2>1. CASE run[r].stream
      BY <1>2, <1>5, <1>6, <2>1, Completed
    <2>2. CASE ~run[r].stream
      BY <1>2, <2>2 DEF StreamOK
    <2> QED BY <2>1, <2>2
  <1>8. sent' = [sent EXCEPT ![r] = told]
    BY <1>1, <1>2, <1>6
  <1> HIDE DEF now, told, x
  <1>9. run'[r] = now /\ sent'[r] = told
    BY <1>2, <1>4, <1>8
  <1>10. StreamOK(r)' /\ Moves(r)
    BY <1>4, <1>7, <1>9 DEF StreamOK, Moves, Answers!At, Answers!Running
  <1> QED BY <1>1, <1>2, <1>3, <1>4, <1>5, <1>7, <1>8, <1>10, RunStep

LEMMA LeaveStep ==
  ASSUME AnswersInv, NEW r \in Requests, Answers!Leave(r)
  PROVE  AnswersInv'
  <1> DEFINE now == [run[r] EXCEPT !.at = "over"]
             told == sent'[r]
  <1>1. /\ run[r].aborted /\ Answers!Running(r) /\ Answers!Release(r)
        /\ run' = [run EXCEPT ![r].at = "over"]
        /\ sent' = [sent EXCEPT ![r] = Append(@, "done")] \/ sent' = sent
        /\ UNCHANGED <<table, points, clock, puts, mirror, breaks>>
    BY DEF Answers!Leave
  <1>2. /\ run \in [Requests -> Runs] /\ sent \in [Requests -> Seq(Signals)] /\ run[r] \in Runs
        /\ sent[r] \in Seq(Signals) /\ StreamOK(r) /\ \A m \in mirror : Kept(m)
    BY DEF AnswersInv, AnswersTyped
  <1>3. run[r].stream
    BY <1>1, <1>2 DEF StreamOK
  <1>4. /\ run' = [run EXCEPT ![r] = now] /\ now \in Runs /\ now.at = "over"
        /\ now.messages = run[r].messages
    BY <1>1, <1>2 DEF Runs
  <1>5. /\ controller' \in {0, controller} /\ controller' # r
        /\ ~Has(sent[r], "done")
    BY <1>1, <1>3, Ended
  <1>6. <<"done">> \in Seq(Signals) /\ Append(sent[r], "done") = sent[r] \o <<"done">>
    BY <1>2 DEF Signals
  <1>7. /\ told \in Seq(Signals) /\ \A i \in 1..Len(told) : told[i] = "done" => i = Len(told)
        /\ sent' = [sent EXCEPT ![r] = told]
    <2>1. CASE sent' = [sent EXCEPT ![r] = Append(@, "done")]
      <3> DEFINE s == sent[r] \o <<"done">>
      <3>1. s \in Seq(Signals) /\ \A i \in 1..Len(s) : s[i] = "done" => i = Len(s)
        BY <1>2, <1>5, <1>6, Completed
      <3>2. sent' = [sent EXCEPT ![r] = s]
        BY <1>6, <2>1
      <3> HIDE DEF s
      <3>3. sent'[r] = s
        BY <1>2, <3>2
      <3> QED BY <3>1, <3>2, <3>3
    <2>2. CASE sent' = sent
      BY <1>2, <2>2 DEF StreamOK
    <2> QED BY <1>1, <2>1, <2>2
  <1>8. run'[r] = now
    BY <1>2, <1>4
  <1>9. StreamOK(r)' /\ Moves(r)
    <2> HIDE DEF now
    <2> QED BY <1>4, <1>7, <1>8 DEF StreamOK, Moves, Answers!At, Answers!Running
  <1> HIDE DEF now, told
  <1> QED BY <1>1, <1>2, <1>4, <1>5, <1>7, <1>9, RunStep

LEMMA ThrowStep ==
  ASSUME AnswersInv, NEW r \in Requests, Answers!Throw(r)
  PROVE  AnswersInv'
  <1> DEFINE next == IF run[r].stream THEN "load" ELSE "over"
             now == [run[r] EXCEPT !.at = next, !.stream = FALSE, !.again = TRUE]
             told == IF run[r].stream THEN sent[r] \o <<"error", "done">> ELSE sent[r]
  <1>1. /\ ~run[r].aborted /\ Answers!Running(r) /\ Answers!Release(r)
        /\ run' = [run EXCEPT ![r].at = next, ![r].stream = FALSE, ![r].again = TRUE]
        /\ sent' = (IF run[r].stream THEN [sent EXCEPT ![r] = @ \o <<"error", "done">>] ELSE sent)
        /\ UNCHANGED <<table, points, clock, puts, mirror>>
    BY DEF Answers!Throw
  <1>2. /\ run \in [Requests -> Runs] /\ sent \in [Requests -> Seq(Signals)] /\ run[r] \in Runs
        /\ sent[r] \in Seq(Signals) /\ StreamOK(r) /\ \A m \in mirror : Kept(m)
    BY DEF AnswersInv, AnswersTyped
  <1>3. run[r].stream => ~run[r].again
    BY <1>1, <1>2 DEF StreamOK
  <1>4. run' = [run EXCEPT ![r] = now]
    BY <1>1, <1>2
  <1>5. /\ now \in Runs /\ now.at = next /\ ~now.stream /\ now.again /\ now.aborted = run[r].aborted
        /\ now.messages = run[r].messages
    BY <1>2 DEF Runs
  <1>6. /\ controller' \in {0, controller} /\ controller' # r
        /\ run[r].stream => ~Has(sent[r], "done")
    BY <1>1, Ended
  <1>7. told \in Seq(Signals) /\ \A i \in 1..Len(told) : told[i] = "done" => i = Len(told)
    <2>1. <<"error", "done">> \in Seq(Signals)
      BY DEF Signals
    <2>2. CASE run[r].stream
      BY <1>2, <1>6, <2>1, <2>2, Completed
    <2>3. CASE ~run[r].stream
      BY <1>2, <2>3 DEF StreamOK
    <2> QED BY <2>2, <2>3
  <1>8. sent' = [sent EXCEPT ![r] = told]
    BY <1>1, <1>2
  <1>9. run'[r] = now /\ sent'[r] = told
    <2> HIDE DEF now, told
    <2> QED BY <1>2, <1>4, <1>8
  <1>10. StreamOK(r)' /\ Moves(r)
    <2>1. run[r].at # "over" /\ next \in {"load", "over"} /\ (next = "load" => ~run[r].again)
      BY <1>1, <1>3 DEF Answers!Running
    <2> HIDE DEF now, told, next
    <2> QED BY <1>1, <1>5, <1>7, <1>9, <2>1 DEF StreamOK, Moves, Answers!At, Answers!Running
  <1> HIDE DEF now, told, next
  <1> QED BY <1>1, <1>2, <1>4, <1>5, <1>6, <1>7, <1>8, <1>10, RunStep

(* A stream that is aborted or whose client leaves goes on until it notices. *)
LEMMA AbortedStep ==
  ASSUME AnswersInv, NEW r \in Requests, Answers!Running(r), run[r].stream,
         run' = [run EXCEPT ![r].aborted = TRUE], controller' \in {0, controller},
         UNCHANGED <<table, points, clock, puts, sent, mirror>>
  PROVE  AnswersInv'
  <1> DEFINE now == [run[r] EXCEPT !.aborted = TRUE]
             told == sent[r]
  <1>1. /\ run \in [Requests -> Runs] /\ sent \in [Requests -> Seq(Signals)] /\ run[r] \in Runs
        /\ sent[r] \in Seq(Signals) /\ StreamOK(r) /\ \A m \in mirror : Kept(m)
    BY DEF AnswersInv, AnswersTyped
  <1>2. /\ run' = [run EXCEPT ![r] = now] /\ run'[r] = now /\ now \in Runs
        /\ now.messages = run[r].messages /\ now.at = run[r].at /\ now.stream = run[r].stream
        /\ now.again = run[r].again /\ now.aborted
    BY <1>1 DEF Runs
  <1>3. sent' = [sent EXCEPT ![r] = told] /\ told \in Seq(Signals)
    BY <1>1
  <1> HIDE DEF now, told
  <1>4. StreamOK(r)' /\ Moves(r)
    BY <1>1, <1>2 DEF StreamOK, Moves, Has, Answers!At, Answers!Running
  <1> QED BY <1>1, <1>2, <1>3, <1>4, RunStep

LEMMA ProcessRestartStep ==
  ASSUME AnswersInv, Answers!Restart
  PROVE  AnswersInv'
  <1>1. /\ AnswersTyped /\ TableOK /\ \A m \in mirror : Kept(m)
        /\ \A q \in Requests : StreamOK(q) /\ ReplyOK(q)
        /\ run \in [Requests -> Runs] /\ puts \in [Requests -> Seq(Puts)]
    BY DEF AnswersInv, AnswersTyped
  <1>2. /\ run' = [q \in Requests |-> IF Answers!Running(q)
                                      THEN [run[q] EXCEPT !.at = "over", !.stream = FALSE, !.messages = << >>]
                                      ELSE run[q]]
        /\ puts' = [q \in Requests |-> << >>] /\ controller' = 0
        /\ UNCHANGED <<table, points, clock, sent, mirror>>
    BY DEF Answers!Restart, Answers!None
  <1>3. << >> \in Talks /\ \A m : ~Has(<< >>, m) /\ ~InPuts(<< >>, m)
    <2>1. Len(<< >>) = 0 /\ << >> \in Seq(Nat) /\ 1..0 = {}
      OBVIOUS
    <2> QED BY <2>1 DEF Talks, Once, Has, InPuts
  <1>4. ASSUME NEW q \in Requests
        PROVE  /\ run'[q] \in Runs /\ run'[q].at \in {"idle", "over"}
               /\ \A m : Has(run'[q].messages, m) => Has(run[q].messages, m)
               /\ run'[q] = run[q] \/ run'[q].at = "over"
    <2>1. run[q] \in Runs
      BY <1>1
    <2>2. CASE Answers!Running(q)
      <3>1. run'[q] = [run[q] EXCEPT !.at = "over", !.stream = FALSE, !.messages = << >>]
        BY <1>2, <2>2
      <3>2. run'[q].at = "over" /\ run'[q].messages = << >> /\ run'[q] \in Runs
        BY <1>3, <2>1, <3>1 DEF Runs
      <3> QED BY <1>3, <3>2
    <2>3. CASE ~Answers!Running(q)
      BY <1>2, <2>1, <2>3 DEF Runs, Answers!Running
    <2> QED BY <2>2, <2>3
  <1>5. /\ \A m : Kept(m)' <=> Kept(m)
        /\ \A q \in Requests : \A m : ~Coming(q, m)'
        /\ \A m : Said(m)' => Said(m)
    <2>1. \A m : Kept(m)' <=> Kept(m)
      BY <1>2 DEF Kept, Has, IdsOf
    <2>2. \A q \in Requests : \A m : ~Coming(q, m)'
      BY <1>2, <1>3, Primed
    <2>3. \A q \in Requests : \A m : Has(run[q].messages, m)' => Has(run[q].messages, m)
      BY <1>4, Primed
    <2> QED BY <2>1, <2>2, <2>3 DEF Said
  <1>6. AnswersTyped'
    <2>1. run' \in [Requests -> Runs]
      BY <1>2, <1>4
    <2>2. puts' \in [Requests -> Seq(Puts)]
      <3>1. << >> \in Seq(Puts)
        OBVIOUS
      <3> DEFINE e == << >>
      <3>2. puts' = [q \in Requests |-> e]
        BY <1>2
      <3> HIDE DEF e
      <3> QED BY <3>1, <3>2 DEF e
    <2> QED BY <1>1, <1>2, <2>1, <2>2 DEF AnswersTyped
  <1>7. TableOK' /\ Registered' /\ (\A m \in mirror : Kept(m))'
    BY <1>1, <1>2, <1>5, TableSame DEF Registered
  <1>8. ASSUME NEW q \in Requests
        PROVE  StreamOK(q)' /\ ReplyOK(q)'
    <2>1. StreamOK(q)'
      BY <1>1, <1>2, <1>4 DEF StreamOK, Answers!At, Answers!Running
    <2>2. ReplyOK(q)'
      <3>1. Said(First(q))' => Said(First(q))
        BY <1>5 DEF First
      <3>2. Said(Second(q))' => Said(Second(q))
        BY <1>5 DEF Second
      <3> QED BY <1>1, <1>4, <3>1, <3>2 DEF ReplyOK, Early, Answers!At
    <2> QED BY <2>1, <2>2
  <1> QED BY <1>6, <1>7, <1>8 DEF AnswersInv

LEMMA AnswersStep ==
  ASSUME AnswersInv, [Answers!Next]_answer
  PROVE  AnswersInv'
  <1>1. CASE UNCHANGED answer
    <2>1. /\ UNCHANGED <<table, points, clock, puts, run, controller, sent, mirror>>
          /\ AnswersTyped /\ Registered /\ \A m \in mirror : Kept(m)
          /\ \A q \in Requests : StreamOK(q)
      BY <1>1 DEF answer, AnswersInv
    <2>2. /\ run' \in [Requests -> Runs] /\ sent' \in [Requests -> Seq(Signals)]
          /\ controller' \in Requests \cup {0} /\ Registered'
      BY <2>1 DEF AnswersTyped, Registered
    <2>3. \A q \in Requests : StreamOK(q)' /\ Moves(q)
      BY <2>1, StreamKept DEF Moves
    <2> QED BY <2>1, <2>2, <2>3, ControlStep
  <1>2. ASSUME NEW r \in Requests, NEW stream \in BOOLEAN, Answers!Ask(r, stream) PROVE AnswersInv'
    BY <1>2, AskStep
  <1>3. ASSUME NEW r \in Requests, Answers!Register(r) PROVE AnswersInv'
    BY <1>3, RegisterStep
  <1>4. ASSUME NEW r \in Requests, Answers!Load(r) PROVE AnswersInv'
    BY <1>4, LoadStep
  <1>5. ASSUME NEW r \in Requests, Answers!Summarise(r) PROVE AnswersInv'
    BY <1>5, SummariseStep
  <1>6. ASSUME NEW r \in Requests, Answers!CallSubagent(r) PROVE AnswersInv'
    BY <1>6, CallSubagentStep
  <1>7. ASSUME NEW r \in Requests, Answers!Answer(r) PROVE AnswersInv'
    BY <1>7, AnswerGivenStep
  <1>8. ASSUME NEW r \in Requests, Answers!Land(r) PROVE AnswersInv'
    BY <1>8, LandStep
  <1>9. ASSUME NEW r \in Requests, Answers!Complete(r) PROVE AnswersInv'
    BY <1>9, CompleteStep
  <1>10. ASSUME NEW r \in Requests, Answers!Leave(r) PROVE AnswersInv'
    BY <1>10, LeaveStep
  <1>11. ASSUME NEW r \in Requests, Answers!Throw(r) PROVE AnswersInv'
    BY <1>11, ThrowStep
  <1>12. ASSUME NEW r \in Requests, Answers!Disconnect(r) PROVE AnswersInv'
    <2>1. /\ Answers!Running(r) /\ run[r].stream /\ run' = [run EXCEPT ![r].aborted = TRUE]
          /\ UNCHANGED <<table, points, clock, puts, controller, sent, mirror>>
      BY <1>12 DEF Answers!Disconnect
    <2> QED BY <2>1, AbortedStep
  <1>13. ASSUME Answers!AbortRequest PROVE AnswersInv'
    <2>1. /\ controller # 0 /\ run' = [run EXCEPT ![controller].aborted = TRUE] /\ controller' = 0
          /\ UNCHANGED <<table, points, clock, puts, sent, mirror>>
      BY <1>13 DEF Answers!AbortRequest, Answers!None
    <2>2. controller \in Requests /\ run[controller].stream /\ Answers!Running(controller)
      BY <2>1 DEF AnswersInv, AnswersTyped, Registered, Answers!Running
    <2> QED BY <2>1, <2>2, AbortedStep
  <1>14. ASSUME Answers!Restart PROVE AnswersInv'
    BY <1>14, ProcessRestartStep
  <1> QED BY <1>1, <1>2, <1>3, <1>4, <1>5, <1>6, <1>7, <1>8, <1>9, <1>10, <1>11, <1>12, <1>13, <1>14
          DEF Answers!Next

LEMMA AnswersInit ==
  ASSUME Answers!Init
  PROVE  AnswersInv /\ StreamsInv
  <1> DEFINE first == [at |-> "idle", stream |-> FALSE, again |-> FALSE, aborted |-> FALSE, messages |-> << >>]
  <1>1. /\ table = << >> /\ points = [t \in Answers!Threads |-> {}] /\ clock = 1
        /\ run = [r \in Requests |-> first] /\ puts = [r \in Requests |-> << >>]
        /\ controller = 0 /\ sent = [r \in Requests |-> << >>] /\ mirror = {}
    BY DEF Answers!Init, Answers!None
  <1>2. Len(<< >>) = 0 /\ 1..0 = {} /\ \A S : << >> \in Seq(S)
    OBVIOUS
  <1>3. << >> \in Talks /\ \A m : ~Has(<< >>, m) /\ ~InPuts(<< >>, m)
    BY <1>2 DEF Talks, Once, Has, InPuts
  <1>4. /\ first \in Runs /\ first.at = "idle" /\ first.messages = << >>
        /\ ~first.stream /\ ~first.again /\ ~first.aborted
    BY <1>3 DEF Runs
  <1> HIDE DEF first
  <1>5. AnswersTyped
    <2>1. table \in Seq(Rows)
      BY <1>1, <1>2, Zenon
    <2>2. << >> \in Seq(Puts) /\ << >> \in Seq(Signals)
      BY <1>2, Zenon
    <2> DEFINE e == << >>
    <2>3. /\ puts = [r \in Requests |-> e] /\ sent = [r \in Requests |-> e]
          /\ e \in Seq(Puts) /\ e \in Seq(Signals)
      BY <1>1, <2>2
    <2> HIDE DEF e
    <2>4. puts \in [Requests -> Seq(Puts)] /\ sent \in [Requests -> Seq(Signals)]
      BY <2>3
    <2> QED BY <1>1, <1>4, <2>1, <2>4 DEF AnswersTyped
  <1>6. IdsOf(table) = << >>
    BY <1>1, <1>2 DEF IdsOf
  <1>7. \A m : ~Kept(m)
    BY <1>3, <1>6 DEF Kept
  <1>8. TableOK
    BY <1>1, <1>2, <1>6, <1>7 DEF TableOK, Once
  <1>9. \A m : ~Said(m)
    BY <1>1, <1>3, <1>4, <1>7 DEF Said, Coming
  <1>10. \A r \in Requests : StreamOK(r) /\ ReplyOK(r)
    BY <1>1, <1>2, <1>3, <1>4, <1>9 DEF StreamOK, ReplyOK, Early, Answers!At, Answers!Running
  <1>11. Registered /\ StreamsInv
    <2>1. together = FALSE /\ second = {}
      BY DEF Answers!Init
    <2> QED BY <1>1, <1>4, <2>1
            DEF Registered, StreamsInv, Answers!Streaming, Answers!Running, Answers!At
  <1> QED BY <1>1, <1>5, <1>8, <1>10, <1>11 DEF AnswersInv

-----------------------------------------------------------------------------
(* Streams at once                                                           *)

(* A step in which no stream begins: r alone may leave the registered place. *)
LEMMA Lighter ==
  ASSUME StreamsInv, NEW r \in Requests, UNCHANGED second, together' \in BOOLEAN,
         \A q \in Requests : Answers!Streaming(q)' => Answers!Streaming(q),
         \A q \in Requests : Answers!Streaming(q)' /\ run[q].aborted => run'[q].aborted,
         \A q \in Requests : Answers!At(q, "register")' => ~run'[q].aborted,
         \/ controller' = controller
         \/ Answers!Streaming(r) /\ (run'[r].aborted \/ ~Answers!Streaming(r)')
  PROVE  StreamsInv'
  <1>1. ASSUME NEW q \in Requests, NEW u \in Requests, q # u, Answers!Streaming(q)', Answers!Streaming(u)'
        PROVE  run'[u].aborted \/ u \in second'
    BY <1>1 DEF StreamsInv
  <1>2. ASSUME NEW u \in Requests, Answers!Streaming(u)', ~run'[u].aborted
        PROVE  controller' = u \/ u \in second'
    <2>1. Answers!Streaming(u) /\ ~run[u].aborted
      BY <1>2
    <2>2. controller = u \/ u \in second
      BY <2>1 DEF StreamsInv
    <2>3. CASE controller' = controller
      BY <2>2, <2>3
    <2>4. CASE Answers!Streaming(r) /\ (run'[r].aborted \/ ~Answers!Streaming(r)')
      <3>1. r # u
        BY <1>2, <2>4
      <3> QED BY <2>1, <2>4, <3>1 DEF StreamsInv
    <2> QED BY <2>3, <2>4
  <1>3. second' \subseteq Requests
    BY DEF StreamsInv
  <1> QED BY <1>1, <1>2, <1>3 DEF StreamsInv

LEMMA StreamsStep ==
  ASSUME AnswersInv, StreamsInv, [Answers!Next]_answer
  PROVE  StreamsInv'
  <1>1. run \in [Requests -> Runs] /\ \A r \in Requests : run[r] \in Runs
    BY DEF AnswersInv, AnswersTyped
  <1>2. CASE UNCHANGED answer
    BY <1>2 DEF answer, StreamsInv, Answers!Streaming, Answers!Running, Answers!At
  <1>3. ASSUME NEW r \in Requests, NEW stream \in BOOLEAN, Answers!Ask(r, stream) PROVE StreamsInv'
    <2>1. /\ run' = [run EXCEPT ![r].at = IF stream THEN "register" ELSE "load", ![r].stream = stream]
          /\ controller' = controller /\ second' = second /\ run[r].at = "idle"
      BY <1>3 DEF Answers!Ask, Answers!At
    <2>2. together' \in BOOLEAN
      BY <1>3 DEF Answers!Ask, StreamsInv
    <2>3. /\ run'[r] = [run[r] EXCEPT !.at = IF stream THEN "register" ELSE "load", !.stream = stream]
          /\ \A q \in Requests \ {r} : run'[q] = run[q]
      BY <1>1, <2>1
    <2>4. /\ run'[r].at = (IF stream THEN "register" ELSE "load") /\ run'[r].stream = stream
          /\ run'[r].aborted = run[r].aborted
      BY <1>1, <2>3 DEF Runs
    <2>5. ~run[r].aborted
      BY <2>1 DEF AnswersInv, StreamOK, Answers!At
    <2>6. ~Answers!Streaming(r)'
      BY <2>4 DEF Answers!Streaming, Answers!At
    <2>7. \A q \in Requests : Answers!Streaming(q)' => Answers!Streaming(q) /\ run'[q] = run[q]
      BY <2>3, <2>6 DEF Answers!Streaming, Answers!Running, Answers!At
    <2>8. \A q \in Requests : Answers!At(q, "register")' => ~run'[q].aborted
      BY <2>3, <2>4, <2>5 DEF StreamsInv, Answers!At
    <2> QED BY <2>1, <2>2, <2>7, <2>8, Lighter
  <1>4. ASSUME NEW r \in Requests, Answers!Register(r) PROVE StreamsInv'
    <2>1. /\ run[r].at = "register" /\ controller' = r /\ UNCHANGED together
          /\ second' = IF \E q \in Requests : Answers!Streaming(q) THEN second \cup {r} ELSE second
          /\ \A q \in Requests : run'[q] = IF q = r THEN [run[q] EXCEPT !.at = "load"]
                                         ELSE IF q = controller THEN [run[q] EXCEPT !.aborted = TRUE]
                                         ELSE run[q]
      BY <1>4 DEF Answers!Register, Answers!At
    <2>2. ASSUME NEW q \in Requests \ {r}
          PROVE  /\ run'[q].at = run[q].at /\ run'[q].stream = run[q].stream
                 /\ run'[q].aborted = (IF q = controller THEN TRUE ELSE run[q].aborted)
      <3>1. run'[q] = IF q = controller THEN [run[q] EXCEPT !.aborted = TRUE] ELSE run[q]
        BY <2>1
      <3> QED BY <1>1, <3>1 DEF Runs
    <2>3. run'[r].at = "load"
      BY <1>1, <2>1 DEF Runs
    <2>4. \A q \in Requests \ {r} : Answers!Streaming(q)' <=> Answers!Streaming(q)
      BY <2>2 DEF Answers!Streaming, Answers!Running, Answers!At
    <2>5. ASSUME NEW q \in Requests, NEW u \in Requests, q # u, Answers!Streaming(q)', Answers!Streaming(u)'
          PROVE  run'[u].aborted \/ u \in second'
      <3>1. CASE u = r
        BY <2>1, <2>4, <2>5, <3>1
      <3>2. CASE u # r
        <4>1. Answers!Streaming(u)
          BY <2>4, <2>5, <3>2
        <4>2. run[u].aborted \/ controller = u \/ u \in second
          BY <4>1 DEF StreamsInv
        <4>3. run'[u].aborted = (IF u = controller THEN TRUE ELSE run[u].aborted)
          BY <2>2, <3>2
        <4> QED BY <2>1, <4>2, <4>3
      <3> QED BY <3>1, <3>2
    <2>6. ASSUME NEW u \in Requests, Answers!Streaming(u)', ~run'[u].aborted
          PROVE  controller' = u \/ u \in second'
      <3>1. CASE u = r
        BY <2>1, <3>1
      <3>2. CASE u # r
        <4>1. Answers!Streaming(u)
          BY <2>4, <2>6, <3>2
        <4>2. run'[u].aborted = (IF u = controller THEN TRUE ELSE run[u].aborted)
          BY <2>2, <3>2
        <4>3. ~run[u].aborted /\ controller # u
          BY <2>6, <4>2
        <4> QED BY <2>1, <4>1, <4>3 DEF StreamsInv
      <3> QED BY <3>1, <3>2
    <2>7. \A q \in Requests : Answers!At(q, "register")' => ~run'[q].aborted
      <3> TAKE q \in Requests
      <3> HAVE Answers!At(q, "register")'
      <3>1. q # r
        BY <2>3 DEF Answers!At
      <3>2. Answers!At(q, "register") /\ run[q].at = "register"
        BY <2>2, <3>1 DEF Answers!At
      <3>3. q # controller
        BY <3>2, Asked DEF AnswersInv, Registered
      <3>4. run'[q].aborted = run[q].aborted
        BY <2>2, <3>1, <3>3
      <3> QED BY <3>2, <3>4 DEF StreamsInv
    <2>8. together' \in BOOLEAN /\ second' \subseteq Requests
      BY <2>1 DEF StreamsInv
    <2> QED BY <2>5, <2>6, <2>7, <2>8 DEF StreamsInv
  <1>5. ASSUME NEW r \in Requests, NEW ms, NEW at, Answers!Step(r, ms, at), run[r].at \in {"load", "model"},
               at # "register", UNCHANGED <<controller, together, second>>
        PROVE  StreamsInv'
    <2>1. run' = [run EXCEPT ![r].messages = ms, ![r].at = at]
      BY <1>5 DEF Answers!Step
    <2>2. /\ run'[r] = [run[r] EXCEPT !.messages = ms, !.at = at]
          /\ \A q \in Requests \ {r} : run'[q] = run[q]
      BY <1>1, <2>1
    <2>3. run'[r].stream = run[r].stream /\ run'[r].aborted = run[r].aborted /\ run'[r].at = at
      BY <1>1, <2>2 DEF Runs
    <2>4. \A q \in Requests : Answers!Streaming(q)' => Answers!Streaming(q)
      BY <1>5, <2>2, <2>3 DEF Answers!Streaming, Answers!Running, Answers!At
    <2>5. \A q \in Requests : run'[q].aborted = run[q].aborted
      BY <2>2, <2>3
    <2>6. \A q \in Requests : Answers!At(q, "register")' => ~run'[q].aborted
      BY <1>5, <2>2, <2>3 DEF StreamsInv, Answers!At
    <2>7. together' \in BOOLEAN
      BY <1>5 DEF StreamsInv
    <2> QED BY <1>5, <2>4, <2>5, <2>6, <2>7, Lighter
  <1>6. ASSUME NEW r \in Requests, Answers!Load(r) \/ Answers!Summarise(r) \/ Answers!Answer(r) PROVE StreamsInv'
    <2>1. run[r].at \in {"load", "model"} /\ UNCHANGED <<controller, together, second>>
      BY <1>6 DEF Answers!Load, Answers!Summarise, Answers!Answer, Answers!At, Answers!history
    <2>2. \E ms : \E at \in {"model", "end"} : Answers!Step(r, ms, at)
      BY <1>6, Zenon DEF Answers!Load, Answers!Summarise, Answers!Answer
    <2> QED BY <1>5, <2>1, <2>2
  <1>7. ASSUME NEW r \in Requests, Answers!CallSubagent(r) \/ Answers!Land(r) PROVE StreamsInv'
    <2>1. UNCHANGED <<run, controller, together, second>>
      BY <1>7 DEF Answers!CallSubagent, Answers!Land, Answers!history
    <2> QED BY <2>1 DEF StreamsInv, Answers!Streaming, Answers!Running, Answers!At
  <1>8. ASSUME NEW r \in Requests, NEW now \in Runs, run' = [run EXCEPT ![r] = now],
               now.at # "register" \/ (now.at = run[r].at /\ ~now.aborted),
               \/ now.at = "over" \/ ~now.stream
               \/ Answers!Streaming(r) /\ now.aborted,
               UNCHANGED <<together, second>>,
               \/ controller' = controller
               \/ Answers!Streaming(r)
        PROVE  StreamsInv'
    <2>1. run'[r] = now /\ \A q \in Requests \ {r} : run'[q] = run[q]
      BY <1>1, <1>8
    <2>2. Answers!Streaming(r)' => Answers!Streaming(r) /\ run'[r].aborted
      BY <1>8, <2>1 DEF Answers!Streaming, Answers!Running
    <2>3. \A q \in Requests \ {r} : Answers!Streaming(q)' => Answers!Streaming(q)
      BY <2>1 DEF Answers!Streaming, Answers!Running, Answers!At
    <2>4. \A q \in Requests : Answers!Streaming(q)' /\ run[q].aborted => run'[q].aborted
      BY <2>1, <2>2
    <2>5. \A q \in Requests : Answers!At(q, "register")' => ~run'[q].aborted
      BY <1>8, <2>1 DEF StreamsInv, Answers!At
    <2>6. together' \in BOOLEAN
      BY <1>8 DEF StreamsInv
    <2> QED BY <1>8, <2>2, <2>3, <2>4, <2>5, <2>6, Lighter
  <1>9. ASSUME NEW r \in Requests, Answers!Complete(r) \/ Answers!Leave(r) PROVE StreamsInv'
    <2> DEFINE now == [run[r] EXCEPT !.at = "over"]
    <2>1. /\ Answers!Running(r) /\ run' = [run EXCEPT ![r].at = "over"] /\ Answers!Release(r)
          /\ UNCHANGED <<together, second>> /\ (Answers!At(r, "end") \/ run[r].aborted)
      BY <1>9 DEF Answers!Complete, Answers!Leave, Answers!At, Answers!Running, Answers!history
    <2>2. run' = [run EXCEPT ![r] = now] /\ now \in Runs /\ now.at = "over"
      BY <1>1, <2>1 DEF Runs
    <2>3. ~Answers!At(r, "register")
      BY <2>1 DEF StreamsInv, Answers!At
    <2>4. controller' = controller \/ Answers!Streaming(r)
      BY <2>1, <2>3 DEF Answers!Release, Answers!Streaming
    <2> HIDE DEF now
    <2> QED BY <1>8, <2>1, <2>2, <2>4
  <1>10. ASSUME NEW r \in Requests, Answers!Throw(r) PROVE StreamsInv'
    <2> DEFINE next == IF run[r].stream THEN "load" ELSE "over"
               now == [run[r] EXCEPT !.at = next, !.stream = FALSE, !.again = TRUE]
    <2>1. /\ Answers!Running(r) /\ Answers!Release(r) /\ ~Answers!At(r, "register")
          /\ UNCHANGED <<together, second>>
          /\ run' = [run EXCEPT ![r].at = next, ![r].stream = FALSE, ![r].again = TRUE]
      BY <1>10 DEF Answers!Throw, Answers!history
    <2>2. run' = [run EXCEPT ![r] = now]
      BY <1>1, <2>1
    <2>3. now \in Runs /\ ~now.stream /\ now.at # "register"
      BY <1>1 DEF Runs
    <2>4. controller' = controller \/ Answers!Streaming(r)
      BY <2>1 DEF Answers!Release, Answers!Streaming
    <2> HIDE DEF now
    <2> QED BY <1>8, <2>1, <2>2, <2>3, <2>4
  <1>11. ASSUME NEW r \in Requests, Answers!Streaming(r), run' = [run EXCEPT ![r].aborted = TRUE],
                UNCHANGED <<together, second>>
         PROVE  StreamsInv'
    <2> DEFINE now == [run[r] EXCEPT !.aborted = TRUE]
    <2>1. run' = [run EXCEPT ![r] = now] /\ now \in Runs /\ now.aborted /\ now.at = run[r].at
      BY <1>1, <1>11 DEF Runs
    <2>2. now.at # "register"
      BY <1>11, <2>1 DEF Answers!Streaming, Answers!At
    <2> HIDE DEF now
    <2> QED BY <1>8, <1>11, <2>1, <2>2
  <1>12. ASSUME NEW r \in Requests, Answers!Disconnect(r) PROVE StreamsInv'
    <2>1. Answers!Streaming(r) /\ run' = [run EXCEPT ![r].aborted = TRUE] /\ UNCHANGED <<together, second>>
      BY <1>12 DEF Answers!Disconnect, Answers!Streaming, Answers!history
    <2> QED BY <1>11, <2>1
  <1>13. ASSUME Answers!AbortRequest PROVE StreamsInv'
    <2>1. /\ controller # 0 /\ run' = [run EXCEPT ![controller].aborted = TRUE]
          /\ UNCHANGED <<together, second>>
      BY <1>13 DEF Answers!AbortRequest, Answers!None, Answers!history
    <2>2. controller \in Requests /\ Answers!Streaming(controller)
      BY <2>1 DEF AnswersInv, AnswersTyped, Registered, Answers!Streaming, Answers!Running, Answers!At
    <2> QED BY <1>11, <2>1, <2>2
  <1>14. ASSUME Answers!Restart PROVE StreamsInv'
    <2>1. ASSUME NEW q \in Requests PROVE run'[q].at \in {"idle", "over"}
      <3>1. run'[q] = IF Answers!Running(q)
                      THEN [run[q] EXCEPT !.at = "over", !.stream = FALSE, !.messages = << >>] ELSE run[q]
        BY <1>14 DEF Answers!Restart
      <3> QED BY <1>1, <3>1 DEF Runs, Answers!Running
    <2>2. UNCHANGED <<together, second>>
      BY <1>14 DEF Answers!Restart, Answers!history
    <2> QED BY <2>1, <2>2 DEF StreamsInv, Answers!Streaming, Answers!Running, Answers!At
  <1> QED BY <1>2, <1>3, <1>4, <1>6, <1>7, <1>9, <1>10, <1>12, <1>13, <1>14 DEF Answers!Next

-----------------------------------------------------------------------------
(* What the invariant says                                                   *)

LEMMA AnswersHold ==
  ASSUME AnswersInv, StreamsInv
  PROVE  Answers!TypeOK /\ Answers!NoStaleController /\ Answers!DoneIsLast /\ Answers!PostedIsStored
  <1> DEFINE R == Answers!Range(table)
             I == {x.id : x \in R}
             n == Len(table)
  <1>1. /\ table \in Seq(Rows) /\ points \in [Answers!Threads -> SUBSET Nat] /\ clock \in Nat
        /\ run \in [Requests -> Runs] /\ puts \in [Requests -> Seq(Puts)]
        /\ controller \in Requests \cup {0} /\ sent \in [Requests -> Seq(Signals)]
        /\ TableOK /\ Registered /\ \A m \in mirror : Kept(m)
        /\ \A r \in Requests : StreamOK(r)
    BY DEF AnswersInv, AnswersTyped
  <1>2. n \in Nat /\ DOMAIN table = 1..n /\ R = {table[i] : i \in 1..n} /\ \A i \in 1..n : table[i] \in Rows
    <2>1. n \in Nat /\ DOMAIN table = 1..n /\ \A i \in 1..n : table[i] \in Rows
      <3> HIDE DEF Rows
      <3> QED BY <1>1
    <2> HIDE DEF n
    <2>2. R = {table[i] : i \in 1..n}
      BY <2>1 DEF Answers!Range
    <2> QED BY <2>1, <2>2
  <1>3. I = {table[i].id : i \in 1..n}
    BY <1>2
  <1>4. \A i, j \in 1..n : table[i].id = table[j].id => i = j
    BY <1>1, IdsIs DEF TableOK
  <1>5. \A m : Kept(m) <=> m \in I
    <2>1. \A m : Kept(m) <=> \E i \in 1..n : table[i].id = m
      BY <1>1, IdsIs DEF Kept
    <2> QED BY <1>3, <2>1
  <1> HIDE DEF I, R, n
  <1>6. Answers!Cardinality(I) = n
    <2> DEFINE f == [i \in 1..n |-> table[i].id]
    <2>1. f \in Bijection(1..n, I)
      BY <1>3, <1>4 DEF Bijection, Injection, Surjection, IsInjective
    <2>2. IsFiniteSet(1..n) /\ Cardinality(1..n) = n
      <3>1. 1 \in Int /\ n \in Int
        BY <1>2
      <3>2. Cardinality(1..n) = (IF 1 > n THEN 0 ELSE n - 1 + 1) /\ IsFiniteSet(1..n)
        BY <3>1, FS_Interval
      <3> QED BY <1>2, <3>2
    <2>3. Cardinality(I) = n
      <3> DEFINE J == 1..n
      <3>1. IsFiniteSet(J) /\ Cardinality(J) = n /\ f \in Bijection(J, I)
        BY <2>1, <2>2
      <3> HIDE DEF J, f
      <3>2. ExistsBijection(J, I)
        BY <3>1 DEF ExistsBijection
      <3> QED BY <3>1, <3>2, FS_Bijection
    <2>4. Answers!Cardinality(I) = Cardinality(I)
      BY Zenon DEF Answers!Cardinality, Cardinality
    <2> QED BY <2>3, <2>4
  <1>7. \A x \in R : x.thread \in Answers!Threads /\ x.point \in points[x.thread]
    <2>1. ASSUME NEW i \in 1..n
          PROVE  table[i].thread \in Answers!Threads /\ table[i].point \in points[table[i].thread]
      <3>1. table[i].thread \in Answers!Threads
        BY <1>2 DEF Rows
      <3> QED BY <1>1, <3>1 DEF TableOK, n
    <2> QED BY <1>2, <2>1
  <1>8. Answers!TypeOK
    BY <1>1, <1>6, <1>7 DEF Answers!TypeOK, Answers!None, R, I, n, StreamsInv
  <1>9. Answers!NoStaleController
    BY <1>1 DEF Answers!NoStaleController, Answers!None, Registered, Answers!Running
  <1>10. Answers!DoneIsLast
    BY <1>1 DEF Answers!DoneIsLast, StreamOK
  <1>11. Answers!PostedIsStored
    BY <1>1, <1>5 DEF Answers!PostedIsStored, I, R
  <1> QED BY <1>8, <1>9, <1>10, <1>11

LEMMA AbortHolds ==
  ASSUME StreamsInv
  PROVE  Answers!AbortReaches
  BY DEF StreamsInv, Answers!AbortReaches

(* However questions overlap: a message has one row, a running stream can be *)
(* aborted but for one that began during another, the registered controller  *)
(* is of a running request, a stream is told once that it is complete, and a *)
(* posted answer is in the table.                                            *)
THEOREM AnswersAreStored == PartSpec => []AnswerIsStored
  <1>1. PartInit => AnswersInv /\ StreamsInv
    BY AnswersInit DEF PartInit
  <1>2. AnswersInv /\ StreamsInv /\ [PartNext]_<<part, vars, servers, answer>> => AnswersInv' /\ StreamsInv'
    BY AnswersStep, StreamsStep DEF PartNext
  <1>3. AnswersInv /\ StreamsInv => AnswerIsStored
    BY AnswersHold, AbortHolds DEF AnswerIsStored
  <1> QED BY <1>1, <1>2, <1>3, PTL DEF PartSpec

-----------------------------------------------------------------------------
(* The history: what is read of a thread grows, and nothing of it is lost.     *)

(* A request that is running, or whose puts are still on their way.          *)
Busy(r) == Answers!Running(r) \/ ~Answers!Quiet(r)
OneBusy == \A q, r \in Requests : Busy(q) /\ Busy(r) => q = r

(* Checkpoint ids grow in the order in which the puts of a thread land.      *)
PointsOK ==
  /\ \A t \in Answers!Threads : \A c \in points[t] : c < clock
  /\ \A r \in Requests : \A k \in 1..Len(puts[r]) :
       /\ puts[r][k].point < clock
       /\ \A c \in points["session"] : c < puts[r][k].point
       /\ \A j \in 1..Len(puts[r]) : j < k => puts[r][j].point < puts[r][k].point

(* A history grows at its end, or its older part gives way to a summary.     *)
Summarises(a, b) == b # << >> /\ Answers!IsSummary(Head(b)) /\ Answers!History!Ends(Tail(b), a)
Grows(a, b) == a = b \/ Answers!History!Begins(a, b) \/ Summarises(a, b)

(* The puts of a run grow one from the other, the first from what is read    *)
(* of the thread, and the run goes on from the last.                         *)
Prior(h, ps, k) == IF k = 1 THEN h ELSE ps[k - 1].messages
Chain(h, ps) == \A k \in 1..Len(ps) : Grows(Prior(h, ps, k), ps[k].messages)
Newly(h, ps) == IF ps = << >> THEN h ELSE ps[Len(ps)].messages

Chained(r) ==
  /\ Chain(Answers!GetTuple("session"), puts[r])
  /\ run[r].at \in {"register", "load"} => puts[r] = << >>
  /\ run[r].at \in {"model", "end"} => run[r].messages = Newly(Answers!GetTuple("session"), puts[r])

HistoryInv == OneBusy /\ PointsOK /\ \A r \in Requests : Chained(r)

(* What is read of both threads makes a step of ThreadHistory.               *)
LEMMA HistoryExtends ==
  ASSUME NEW t \in Answers!Threads, Answers!History!Begins(Answers!GetTuple(t), Answers!GetTuple(t)'),
         \A u \in Answers!Threads \ {t} : Answers!GetTuple(u)' = Answers!GetTuple(u),
         \A u \in Answers!Threads \ {t} :
           Answers!History!Range(Answers!GetTuple(t)') \cap Answers!History!Range(Answers!GetTuple(u)) = {}
  PROVE  Answers!History!Extend(t)
  BY DEF Answers!History!Extend, Answers!History!Others

LEMMA HistorySummarises ==
  ASSUME NEW t \in Answers!Threads, Summarises(Answers!GetTuple(t), Answers!GetTuple(t)'),
         \A u \in Answers!Threads \ {t} : Answers!GetTuple(u)' = Answers!GetTuple(u)
  PROVE  Answers!History!Summarise(t)
  BY DEF Answers!History!Summarise, Answers!History!Others, Summarises

LEMMA TupleSame ==
  ASSUME UNCHANGED <<table, points>>, NEW t \in Answers!Threads
  PROVE  Answers!GetTuple(t)' = Answers!GetTuple(t)
  <1>1. Answers!Newest(t)' = Answers!Newest(t)
    BY DEF Answers!Newest
  <1> DEFINE read(tb, ps, c) ==
               LET ids[n \in 0..Len(tb)] ==
                     IF n = 0 THEN << >>
                     ELSE IF tb[n].thread = t /\ tb[n].point = c
                          THEN Append(ids[n - 1], tb[n].id) ELSE ids[n - 1]
               IN  IF ps[t] = {} THEN << >> ELSE ids[Len(tb)]
  <1>2. Answers!GetTuple(t) = read(table, points, Answers!Newest(t))
    BY Zenon DEF Answers!GetTuple
  <1>3. Answers!GetTuple(t)' = read(table', points', Answers!Newest(t)')
    BY Zenon DEF Answers!GetTuple
  <1> HIDE DEF read
  <1>4. read(table', points', Answers!Newest(t)') = read(table, points, Answers!Newest(t))
    BY <1>1
  <1> QED BY <1>2, <1>3, <1>4

(* What HistoryInv knows of a run, and of one that has nothing to do.        *)
LEMMA Reads ==
  ASSUME AnswersInv, HistoryInv, NEW r \in Requests
  PROVE  /\ Chained(r) /\ run[r] \in Runs /\ puts[r] \in Seq(Puts)
         /\ Len(puts[r]) \in Nat /\ (puts[r] = << >> <=> Len(puts[r]) = 0)
         /\ ~Busy(r) => puts[r] = << >> /\ run[r].at \in {"idle", "over"}
  <1>1. Chained(r) /\ run[r] \in Runs /\ puts[r] \in Seq(Puts)
    BY Asked DEF HistoryInv
  <1>2. Len(puts[r]) \in Nat /\ (puts[r] = << >> <=> Len(puts[r]) = 0)
    BY <1>1
  <1> QED BY <1>1, <1>2 DEF Busy, Answers!Running, Answers!Quiet

(* A step that puts nothing and reads nothing new.                           *)
LEMMA NothingPut ==
  ASSUME AnswersInv, HistoryInv, UNCHANGED <<table, points, clock, puts>>, OneBusy',
         \A q \in Requests : run'[q].at \in {"register", "load"} => puts[q] = << >>,
         \A q \in Requests : run'[q].at \in {"model", "end"} =>
                               run'[q].messages = run[q].messages /\ run[q].at \in {"model", "end"}
  PROVE  HistoryInv'
  <1>1. "session" \in Answers!Threads
    BY DEF Answers!Threads
  <1>2. Answers!GetTuple("session")' = Answers!GetTuple("session")
    BY <1>1, TupleSame
  <1>3. PointsOK'
    BY DEF HistoryInv, PointsOK
  <1>4. \A q \in Requests : Chained(q)'
    <2> TAKE q \in Requests
    <2>1. Chained(q)
      BY DEF HistoryInv
    <2> DEFINE h == Answers!GetTuple("session")
               k == Answers!GetTuple("session")'
    <2>2. Chain(h, puts[q]) /\ (run[q].at \in {"model", "end"} => run[q].messages = Newly(h, puts[q]))
      BY <2>1 DEF Chained
    <2>3. k = h
      BY <1>2
    <2>4. Chained(q)' <=> /\ Chain(k, puts'[q])
                          /\ run'[q].at \in {"register", "load"} => puts'[q] = << >>
                          /\ run'[q].at \in {"model", "end"} => run'[q].messages = Newly(k, puts'[q])
      BY DEF Chained, Chain, Newly, Prior, Grows, Summarises
    <2> HIDE DEF h, k
    <2> QED BY <2>2, <2>3, <2>4
  <1> QED BY <1>3, <1>4 DEF HistoryInv

(* A run that appends a put to those it has: it grows from the last.         *)
LEMMA ChainGoesOn ==
  ASSUME NEW h, NEW ps \in Seq(Puts), NEW p \in Puts, Chain(h, ps), Grows(Newly(h, ps), p.messages)
  PROVE  Chain(h, Append(ps, p)) /\ Newly(h, Append(ps, p)) = p.messages /\ Append(ps, p) # << >>
  <1> DEFINE n == Len(ps)
             u == Append(ps, p)
  <1>1. /\ u \in Seq(Puts) /\ Len(u) = n + 1 /\ n \in Nat
        /\ \A i \in 1..n : u[i] = ps[i]
        /\ u[n + 1] = p
        /\ \A i \in 1..(n + 1) : i \in 1..n \/ i = n + 1
    <2> HIDE DEF Puts
    <2> QED BY Added
  <1>2. ps = << >> <=> n = 0
    OBVIOUS
  <1>3. u # << >>
    <2>1. Len(<< >>) = 0
      OBVIOUS
    <2> HIDE DEF u
    <2> QED BY <1>1, <2>1
  <1> HIDE DEF u, n
  <1>4. Newly(h, u) = p.messages
    BY <1>1, <1>3 DEF Newly
  <1>5. ASSUME NEW k \in 1..(n + 1)
        PROVE  Grows(Prior(h, u, k), u[k].messages)
    <2>1. CASE k \in 1..n
      <3>1. Grows(Prior(h, ps, k), ps[k].messages)
        BY <2>1 DEF Chain, n
      <3>2. k # 1 => k - 1 \in 1..n
        BY <1>1, <2>1
      <3>3. Prior(h, u, k) = Prior(h, ps, k)
        BY <1>1, <3>2 DEF Prior
      <3> QED BY <1>1, <2>1, <3>1, <3>3
    <2>2. CASE k = n + 1
      <3>1. Prior(h, u, n + 1) = Newly(h, ps)
        <4>1. CASE n = 0
          BY <1>2, <4>1 DEF Prior, Newly
        <4>2. CASE n # 0
          <5>1. n + 1 # 1 /\ (n + 1) - 1 = n /\ n \in 1..n
            BY <1>1, <4>2
          <5>2. Prior(h, u, n + 1) = ps[n].messages
            BY <1>1, <5>1 DEF Prior
          <5> QED BY <1>2, <4>2, <5>2 DEF Newly, n
        <4> QED BY <4>1, <4>2
      <3> QED BY <1>1, <2>2, <3>1
    <2> QED BY <1>1, <2>1, <2>2
  <1>6. Chain(h, u)
    BY <1>1, <1>5 DEF Chain
  <1> QED BY <1>3, <1>4, <1>6 DEF u

(* A list without its first.                                                 *)
LEMMA ShorterByOne ==
  ASSUME NEW S, NEW s \in Seq(S), s # << >>
  PROVE  /\ Len(Tail(s)) = Len(s) - 1 /\ Len(s) \in Nat /\ 1 \in 1..Len(s) /\ Head(s) = s[1]
         /\ \A i \in 1..Len(Tail(s)) : Tail(s)[i] = s[i + 1] /\ i + 1 \in 1..Len(s)
         /\ (Tail(s) = << >> <=> Len(Tail(s)) = 0)
         /\ Tail(s) \in Seq(S)
  <1>1. /\ Len(Tail(s)) = Len(s) - 1 /\ Len(s) \in Nat /\ 1 \in 1..Len(s) /\ Head(s) = s[1]
        /\ \A i \in 1..Len(Tail(s)) : Tail(s)[i] = s[i + 1] /\ i + 1 \in 1..Len(s)
    OBVIOUS
  <1>2. Tail(s) \in Seq(S)
    OBVIOUS
  <1>3. \A u \in Seq(S) : u = << >> <=> Len(u) = 0
    OBVIOUS
  <1> QED BY <1>1, <1>2, <1>3

(* The oldest put lands: what is read grows to it, and the rest from it.     *)
LEMMA ChainLands ==
  ASSUME NEW h, NEW ps \in Seq(Puts), ps # << >>, Chain(h, ps)
  PROVE  /\ Grows(h, Head(ps).messages)
         /\ Chain(Head(ps).messages, Tail(ps))
         /\ Newly(Head(ps).messages, Tail(ps)) = Newly(h, ps)
  <1> DEFINE n == Len(ps)
             u == Tail(ps)
             o == Head(ps).messages
  <1>1. /\ Len(u) = n - 1 /\ n \in Nat /\ 1 \in 1..n /\ Head(ps) = ps[1]
        /\ \A i \in 1..Len(u) : u[i] = ps[i + 1] /\ i + 1 \in 1..n
        /\ (u = << >> <=> Len(u) = 0)
    <2> HIDE DEF Puts
    <2> QED BY ShorterByOne
  <1>2. o = ps[1].messages
    BY <1>1
  <1> HIDE DEF u, o, n
  <1>3. Grows(h, o)
    <2>1. Grows(Prior(h, ps, 1), ps[1].messages)
      BY <1>1 DEF Chain, n
    <2> QED BY <1>2, <2>1 DEF Prior
  <1>4. ASSUME NEW k \in 1..Len(u)
        PROVE  Grows(Prior(o, u, k), u[k].messages)
    <2>1. k + 1 \in 1..n /\ u[k] = ps[k + 1] /\ k \in Nat /\ (k + 1) - 1 = k /\ k + 1 # 1
      BY <1>1
    <2>2. Grows(Prior(h, ps, k + 1), ps[k + 1].messages)
      BY <2>1 DEF Chain, n
    <2>3. Prior(h, ps, k + 1) = ps[k].messages
      BY <2>1 DEF Prior
    <2>4. Prior(o, u, k) = ps[k].messages
      <3>1. CASE k = 1
        BY <1>2, <3>1 DEF Prior
      <3>2. CASE k # 1
        <4>1. k - 1 \in 1..Len(u) /\ (k - 1) + 1 = k
          BY <1>1, <3>2
        <4> QED BY <1>1, <3>2, <4>1 DEF Prior
      <3> QED BY <3>1, <3>2
    <2> QED BY <2>1, <2>2, <2>3, <2>4
  <1>5. Newly(o, u) = Newly(h, ps)
    <2>1. Newly(h, ps) = ps[n].messages
      BY DEF Newly, n
    <2>2. CASE n = 1
      BY <1>1, <1>2, <2>1, <2>2 DEF Newly
    <2>3. CASE n # 1
      <3>1. Len(u) # 0 /\ Len(u) \in 1..Len(u) /\ Len(u) + 1 = n
        BY <1>1, <2>3
      <3>2. u[Len(u)] = ps[n]
        BY <1>1, <3>1
      <3> QED BY <1>1, <2>1, <3>1, <3>2 DEF Newly
    <2> QED BY <2>2, <2>3
  <1> QED BY <1>3, <1>4, <1>5 DEF Chain, o, u

(* A superstep of the only busy run.                                         *)
LEMMA PutStarted ==
  ASSUME AnswersInv, HistoryInv, NEW r \in Requests, NEW ms \in Talks, NEW at \in {"model", "end"},
         Answers!Running(r), Answers!Step(r, ms, at), UNCHANGED <<table, points>>,
         Grows(Newly(Answers!GetTuple("session"), puts[r]), ms)
  PROVE  HistoryInv'
  <1> DEFINE p == [point |-> clock, messages |-> ms]
             h == Answers!GetTuple("session")
             h1 == Answers!GetTuple("session")'
  <1>1. /\ run \in [Requests -> Runs] /\ puts \in [Requests -> Seq(Puts)] /\ clock \in Nat
        /\ points \in [Answers!Threads -> SUBSET Nat]
    BY DEF AnswersInv, AnswersTyped
  <1>2. /\ run' = [run EXCEPT ![r].messages = ms, ![r].at = at]
        /\ puts' = [puts EXCEPT ![r] = Append(@, p)] /\ clock' = clock + 1
    BY DEF Answers!Step
  <1>3. /\ run'[r] = [run[r] EXCEPT !.messages = ms, !.at = at] /\ run[r] \in Runs
        /\ \A q \in Requests \ {r} : run'[q] = run[q]
    BY <1>1, <1>2
  <1>4. run'[r].at = at /\ run'[r].messages = ms
    BY <1>3 DEF Runs
  <1>5. p \in Puts /\ p.messages = ms /\ p.point = clock
    BY <1>1 DEF Puts
  <1>6. /\ puts'[r] = Append(puts[r], p)
        /\ \A q \in Requests \ {r} : puts'[q] = puts[q]
    <2> HIDE DEF p
    <2> QED BY <1>1, <1>2
  <1>7. puts[r] \in Seq(Puts) /\ Chain(h, puts[r])
    BY <1>1 DEF HistoryInv, Chained
  <1>8. h1 = h
    BY TupleSame DEF Answers!Threads
  <1>9. Chain(h, puts'[r]) /\ Newly(h, puts'[r]) = ms /\ puts'[r] # << >>
    <2> HIDE DEF p, h
    <2> QED BY <1>5, <1>6, <1>7, ChainGoesOn DEF h
  <1>10. Busy(r) /\ \A q \in Requests \ {r} : ~Busy(q)
    BY DEF HistoryInv, OneBusy, Busy
  <1>11. \A q \in Requests \ {r} : puts[q] = << >> /\ run[q].at \in {"idle", "over"} /\ Chained(q)
    BY <1>10, Reads
  <1>12. OneBusy'
    BY <1>3, <1>6, <1>11 DEF OneBusy, Busy, Answers!Running, Answers!Quiet
  <1>13. ASSUME NEW q \in Requests
         PROVE  Chained(q)'
    <2>1. Chained(q)' <=> /\ Chain(h1, puts'[q])
                          /\ run'[q].at \in {"register", "load"} => puts'[q] = << >>
                          /\ run'[q].at \in {"model", "end"} => run'[q].messages = Newly(h1, puts'[q])
      BY DEF Chained, Chain, Newly, Prior, Grows, Summarises
    <2>2. Chained(q) => Chain(h, puts[q])
      BY DEF Chained
    <2> HIDE DEF h, h1, p
    <2>3. CASE q = r
      BY <1>4, <1>8, <1>9, <2>1, <2>3
    <2>4. CASE q # r
      BY <1>3, <1>6, <1>8, <1>11, <2>1, <2>2, <2>4
    <2> QED BY <2>3, <2>4
  <1>14. PointsOK'
    <2>1. PointsOK /\ clock < clock + 1 /\ points' = points
      BY <1>1 DEF HistoryInv
    <2>2. \A t \in Answers!Threads : \A c \in points[t] : c < clock + 1 /\ c \in Nat
      BY <1>1, <2>1 DEF PointsOK
    <2>3. \A k \in 1..Len(puts[r]) : puts[r][k].point \in Nat
      <3> TAKE k \in 1..Len(puts[r])
      <3>1. puts[r][k] \in Puts
        BY <1>1
      <3> QED BY <3>1 DEF Puts
    <2>4. ASSUME NEW q \in Requests, NEW k \in 1..Len(puts'[q])
          PROVE  /\ puts'[q][k].point < clock + 1
                 /\ \A c \in points["session"] : c < puts'[q][k].point
                 /\ \A j \in 1..Len(puts'[q]) : j < k => puts'[q][j].point < puts'[q][k].point
      <3>1. CASE q # r
        <4>1. Len(<< >>) = 0 /\ 1..0 = {}
          OBVIOUS
        <4> QED BY <1>6, <1>11, <2>4, <3>1, <4>1
      <3>2. CASE q = r
        <4> DEFINE ps == puts[r]
                   u == puts'[r]
        <4>1. /\ Len(u) = Len(ps) + 1 /\ Len(ps) \in Nat
              /\ \A i \in 1..Len(ps) : u[i] = ps[i]
              /\ u[Len(ps) + 1] = p
              /\ \A i \in 1..(Len(ps) + 1) : i \in 1..Len(ps) \/ i = Len(ps) + 1
          <5> HIDE DEF Puts, p
          <5> QED BY <1>5, <1>6, <1>7, Added
        <4>2. /\ \A i \in 1..Len(ps) : /\ ps[i].point < clock /\ ps[i].point \in Nat
                                       /\ \A c \in points["session"] : c < ps[i].point
                                       /\ \A j \in 1..Len(ps) : j < i => ps[j].point < ps[i].point
              /\ \A c \in points["session"] : c < clock
          BY <2>1, <2>3 DEF PointsOK, Answers!Threads
        <4> HIDE DEF ps, u, p
        <4>3. CASE k \in 1..Len(ps)
          <5>1. u[k] = ps[k] /\ ps[k].point < clock + 1
            BY <1>1, <4>1, <4>2, <4>3
          <5>2. \A j \in 1..Len(u) : j < k => j \in 1..Len(ps) /\ u[j] = ps[j]
            BY <4>1, <4>3
          <5>3. \A j \in 1..Len(u) : j < k => u[j].point < u[k].point
            BY <4>2, <4>3, <5>1, <5>2
          <5> QED BY <3>2, <4>2, <4>3, <5>1, <5>3 DEF u
        <4>4. CASE k = Len(ps) + 1
          <5>1. u[k].point = clock
            BY <1>5, <4>1, <4>4
          <5>2. \A j \in 1..Len(u) : j < k => j \in 1..Len(ps) /\ u[j] = ps[j]
            BY <4>1, <4>4
          <5>3. \A j \in 1..Len(u) : j < k => u[j].point < u[k].point
            BY <4>2, <5>1, <5>2
          <5> QED BY <2>1, <3>2, <4>2, <5>1, <5>3 DEF u
        <4>5. k \in 1..(Len(ps) + 1)
          BY <2>4, <3>2, <4>1 DEF u
        <4> QED BY <4>1, <4>3, <4>4, <4>5
      <3> QED BY <3>1, <3>2
    <2> QED BY <1>2, <2>1, <2>2, <2>4 DEF PointsOK
  <1> QED BY <1>12, <1>13, <1>14 DEF HistoryInv

(* Lists with the same length and elements are the same.                     *)
LEMMA SeqEqual ==
  ASSUME NEW S, NEW s \in Seq(S), NEW u \in Seq(S), Len(s) = Len(u), \A i \in 1..Len(s) : s[i] = u[i]
  PROVE  s = u
  OBVIOUS

(* Lists that begin or end another.                                          *)
LEMMA BeginsJoined ==
  ASSUME NEW S, NEW s \in Seq(S), NEW u \in Seq(S), u # << >>
  PROVE  Answers!History!Begins(s, s \o u)
  <1>1. Len(s) < Len(s \o u)
    OBVIOUS
  <1>2. s = SubSeq(s \o u, 1, Len(s))
    OBVIOUS
  <1> QED BY <1>1, <1>2 DEF Answers!History!Begins

LEMMA BeginsAdded ==
  ASSUME NEW S, NEW s \in Seq(S), NEW x \in S
  PROVE  Answers!History!Begins(s, Append(s, x))
  <1>1. Len(s) < Len(Append(s, x))
    OBVIOUS
  <1>2. s = SubSeq(Append(s, x), 1, Len(s))
    OBVIOUS
  <1> QED BY <1>1, <1>2 DEF Answers!History!Begins

LEMMA SummaryThen ==
  ASSUME NEW s \in Seq(Nat), NEW x \in Nat, Answers!IsSummary(x), NEW n \in Nat, n < Len(s)
  PROVE  Summarises(s, <<x>> \o SubSeq(s, Len(s) - n + 1, Len(s)))
  <1> DEFINE last == SubSeq(s, Len(s) - n + 1, Len(s))
             u == <<x>> \o last
  <1>1. last \in Seq(Nat) /\ Len(last) = n
    BY LastOf
  <1>2. last = SubSeq(s, Len(s) - Len(last) + 1, Len(s)) /\ Len(last) < Len(s)
    BY <1>1
  <1> HIDE DEF last
  <1>3. u # << >> /\ Head(u) = x /\ Tail(u) = last
    <2> DEFINE one == <<x>>
    <2>1. one \in Seq(Nat) /\ Len(one) = 1 /\ one[1] = x
      OBVIOUS
    <2> HIDE DEF one
    <2>2. /\ one \o last \in Seq(Nat) /\ Len(one \o last) = 1 + n
          /\ (one \o last)[1] = x
          /\ \A i \in 1..n : (one \o last)[1 + i] = last[i]
      <3>1. one \o last \in Seq(Nat) /\ Joins(one, last, one \o last)
        BY <1>1, <2>1, Joined
      <3> HIDE DEF one
      <3>2. 1 \in 1..1
        OBVIOUS
      <3> QED BY <1>1, <2>1, <3>1, <3>2 DEF Joins
    <2>3. u = one \o last
      BY DEF u, one
    <2>4. /\ u \in Seq(Nat) /\ Len(u) = 1 + n /\ u[1] = x
          /\ \A i \in 1..n : u[1 + i] = last[i]
      BY <2>2, <2>3
    <2> HIDE DEF u
    <2>5. u # << >>
      BY <2>4
    <2>6. /\ Head(u) = x /\ Tail(u) \in Seq(Nat) /\ Len(Tail(u)) = n
          /\ \A i \in 1..n : Tail(u)[i] = u[i + 1]
      BY <2>4, <2>5, ShorterByOne
    <2>7. \A i \in 1..n : 1 + i = i + 1
      OBVIOUS
    <2>8. \A i \in 1..n : Tail(u)[i] = last[i]
      BY <2>4, <2>6, <2>7
    <2>9. Tail(u) = last
      BY <1>1, <2>6, <2>8, SeqEqual
    <2> QED BY <2>5, <2>6, <2>9
  <1> HIDE DEF u
  <1>4. Answers!History!Ends(last, s)
    BY <1>2 DEF Answers!History!Ends
  <1> QED BY <1>3, <1>4 DEF Summarises, u, last

(* The threads have no message in common.                                    *)
LEMMA Apart ==
  ASSUME AnswersInv
  PROVE  /\ Answers!GetTuple("session") \in Seq(Nat) /\ Answers!GetTuple("subagent") \in Seq(Nat)
         /\ \A m : Has(Answers!GetTuple("session"), m) => InSession(m)
         /\ \A m : Has(Answers!GetTuple("subagent"), m) => ~InSession(m)
         /\ Answers!Threads = {"session", "subagent"}
  <1>1. AnswersTyped /\ TableOK /\ Answers!Threads = {"session", "subagent"}
    BY DEF AnswersInv, Answers!Threads
  <1>2. \A t \in Answers!Threads :
          /\ Answers!GetTuple(t) \in Seq(Nat)
          /\ \A m : Has(Answers!GetTuple(t), m) => \E i \in 1..Len(table) : table[i].id = m /\ table[i].thread = t
    BY <1>1, TupleTalks
  <1>3. \A i \in 1..Len(table) : table[i].thread = "session" <=> InSession(table[i].id)
    BY <1>1 DEF TableOK
  <1>4. "session" \in Answers!Threads /\ "subagent" \in Answers!Threads /\ "subagent" # "session"
    BY <1>1
  <1>5. \A m : Has(Answers!GetTuple("session"), m) => InSession(m)
    <2> TAKE m
    <2>1. Has(Answers!GetTuple("session"), m) =>
            \E i \in 1..Len(table) : table[i].id = m /\ table[i].thread = "session"
      BY <1>2, <1>4
    <2> QED BY <1>3, <1>4, <2>1
  <1>6. \A m : Has(Answers!GetTuple("subagent"), m) => ~InSession(m)
    <2> TAKE m
    <2>1. Has(Answers!GetTuple("subagent"), m) =>
            \E i \in 1..Len(table) : table[i].id = m /\ table[i].thread = "subagent"
      BY <1>2, <1>4
    <2> QED BY <1>3, <1>4, <2>1
  <1> QED BY <1>1, <1>2, <1>4, <1>5, <1>6

(* What is read of the session makes a step of ThreadHistory, or none.       *)
Read == [t \in Answers!Threads |-> Answers!GetTuple(t)]

LEMMA HistoryMoves ==
  ASSUME AnswersInv, NEW ms \in Talks, Answers!GetTuple("session")' = ms,
         Answers!GetTuple("subagent")' = Answers!GetTuple("subagent"),
         Grows(Answers!GetTuple("session"), ms)
  PROVE  [Answers!History!Next]_Read
  <1> DEFINE h == Answers!GetTuple("session")
             g == Answers!GetTuple("subagent")
  <1>1. /\ Answers!Threads = {"session", "subagent"} /\ g \in Seq(Nat) /\ ms \in Seq(Nat)
        /\ \A m : Has(g, m) => ~InSession(m)
        /\ \A m : Has(ms, m) => InSession(m)
    BY Apart DEF Talks, Has
  <1>2. /\ \A m : m \in Answers!Range(g) <=> Has(g, m)
        /\ \A m : m \in Answers!Range(ms) <=> Has(ms, m)
    BY <1>1, RangeHas
  <1>3. \A s : Answers!History!Range(s) = Answers!Range(s)
    BY DEF Answers!History!Range, Answers!Range
  <1>4. Answers!History!Range(ms) \cap Answers!History!Range(g) = {}
    BY <1>1, <1>2, <1>3
  <1>5. \A u \in Answers!Threads \ {"session"} : u = "subagent"
    BY <1>1
  <1>6. "session" \in Answers!Threads
    BY <1>1
  <1>7. CASE Answers!History!Begins(h, ms)
    <2>1. Answers!History!Extend("session")
      BY <1>4, <1>5, <1>6, <1>7, HistoryExtends
    <2> QED BY <1>6, <2>1 DEF Answers!History!Next, Read
  <1>8. CASE Summarises(h, ms)
    <2>1. Answers!History!Summarise("session")
      BY <1>5, <1>6, <1>8, HistorySummarises
    <2> QED BY <1>6, <2>1 DEF Answers!History!Next, Read
  <1>9. CASE h = ms
    BY <1>1, <1>9 DEF Read
  <1> QED BY <1>7, <1>8, <1>9 DEF Grows

LEMMA HistoryStays ==
  ASSUME UNCHANGED <<table, points>>
  PROVE  [Answers!History!Next]_Read
  <1>1. \A t \in Answers!Threads : Answers!GetTuple(t)' = Answers!GetTuple(t)
    BY TupleSame
  <1>2. UNCHANGED Read
    BY <1>1 DEF Read
  <1> QED BY <1>2

(* The call of a sub-agent.                                                  *)
LEMMA HistoryCalls ==
  ASSUME AnswersInv, HistoryInv, NEW r \in Requests, Answers!CallSubagent(r)
  PROVE  HistoryInv' /\ [Answers!History!Next]_Read
  <1> DEFINE base == Answers!GetTuple("subagent")
             h == Answers!GetTuple("session")
             h1 == Answers!GetTuple("session")'
             pair == <<10 * r + 4, 10 * r + 5>>
             ms == base \o pair
  <1>1. /\ r \in Nat /\ AnswersTyped /\ TableOK /\ clock \in Nat
        /\ points \in [Answers!Threads -> SUBSET Nat]
        /\ "subagent" \in Answers!Threads /\ Answers!Threads = {"session", "subagent"}
        /\ base \in Seq(Nat) /\ \A m : Has(base, m) => ~InSession(m)
        /\ \A m : Has(h, m) => InSession(m)
        /\ h \in Seq(Nat)
    BY Asked, Apart DEF AnswersInv, AnswersTyped
  <1>2. /\ Answers!Put("subagent", clock, ms) /\ clock' = clock + 1 /\ UNCHANGED <<run, puts>>
    <2>1. Answers!Report(r) = pair
      BY Zenon DEF Answers!Report
    <2>2. /\ Answers!Put("subagent", clock, base \o Answers!Report(r)) /\ clock' = clock + 1
          /\ UNCHANGED <<run, puts>>
      BY Zenon DEF Answers!CallSubagent
    <2> HIDE DEF base, pair
    <2> QED BY <2>1, <2>2, Zenon
  <1>3. /\ pair \in Seq(Nat) /\ pair # << >>
        /\ \A m : Has(pair, m) => ~InSession(m)
    <2> DEFINE a == 10 * r + 4
               b == 10 * r + 5
    <2>1. a \in Nat /\ b \in Nat /\ ~InSession(a) /\ ~InSession(b)
      BY <1>1 DEF InSession
    <2> HIDE DEF a, b
    <2>2. <<a, b>> \in Seq(Nat) /\ Len(<<a, b>>) = 2 /\ <<a, b>>[1] = a /\ <<a, b>>[2] = b
      BY <2>1
    <2>3. \A i \in 1..2 : i = 1 \/ i = 2
      OBVIOUS
    <2> DEFINE p == <<a, b>>
    <2>4. p \in Seq(Nat) /\ Len(p) = 2 /\ p[1] = a /\ p[2] = b /\ p # << >>
      BY <2>2
    <2> HIDE DEF p
    <2>5. \A m : Has(p, m) => ~InSession(m)
      BY <2>1, <2>3, <2>4 DEF Has
    <2> QED BY <2>4, <2>5 DEF p, a, b
  <1> HIDE DEF base, pair, h, h1
  <1>4. ms \in Seq(Nat) /\ \A m : Has(ms, m) => ~InSession(m)
    BY <1>1, <1>3, HasJoined, Joined
  <1>5. Answers!History!Begins(base, ms)
    BY <1>1, <1>3, BeginsJoined
  <1> HIDE DEF ms
  <1>6. PointsOK /\ OneBusy /\ \A q \in Requests : Chained(q)
    BY DEF HistoryInv
  <1>7. Answers!GetTuple("subagent")' = ms /\ h1 = h
    <2>1. \A d \in points["subagent"] : d < clock
      BY <1>1, <1>6 DEF PointsOK
    <2>2. \A u \in Answers!Threads \ {"subagent"} : \A m : Has(Answers!GetTuple(u), m) => ~Has(ms, m)
      BY <1>1, <1>4 DEF h
    <2>3. /\ Answers!GetTuple("subagent")' = ms
          /\ \A u \in Answers!Threads \ {"subagent"} : Answers!GetTuple(u)' = Answers!GetTuple(u)
      BY <1>1, <1>2, <1>4, <2>1, <2>2, TuplePut
    <2> QED BY <1>1, <2>3 DEF h, h1
  <1>8. OneBusy'
    BY <1>2, <1>6 DEF OneBusy, Busy, Answers!Running, Answers!Quiet
  <1>9. PointsOK'
    <2>1. points' = [points EXCEPT !["subagent"] = @ \cup {clock}]
      BY <1>2, Zenon DEF Answers!Put
    <2>2. points'["session"] = points["session"] /\ points'["subagent"] = points["subagent"] \cup {clock}
      BY <1>1, <2>1
    <2>3. \A t \in Answers!Threads : \A c \in points'[t] : c < clock'
      <3>1. \A t \in Answers!Threads : \A c \in points[t] : c < clock /\ c \in Nat
        BY <1>1, <1>6 DEF PointsOK
      <3> QED BY <1>1, <1>2, <2>2, <3>1
    <2>4. ASSUME NEW q \in Requests, NEW k \in 1..Len(puts[q])
          PROVE  puts[q][k].point < clock + 1
      <3>1. puts[q] \in Seq(Puts) /\ puts[q][k].point < clock
        BY <1>1, <1>6 DEF PointsOK, AnswersTyped
      <3>2. puts[q][k] \in Puts
        BY <3>1
      <3>3. puts[q][k].point \in Nat
        BY <3>2 DEF Puts
      <3> QED BY <1>1, <3>1, <3>3
    <2> QED BY <1>2, <1>6, <2>2, <2>3, <2>4 DEF PointsOK
  <1>10. ASSUME NEW q \in Requests
         PROVE  Chained(q)'
    <2>1. Chained(q)' <=> /\ Chain(h1, puts'[q])
                          /\ run'[q].at \in {"register", "load"} => puts'[q] = << >>
                          /\ run'[q].at \in {"model", "end"} => run'[q].messages = Newly(h1, puts'[q])
      BY DEF Chained, Chain, Newly, Prior, Grows, Summarises, h1
    <2>2. Chained(q) <=> /\ Chain(h, puts[q])
                         /\ run[q].at \in {"register", "load"} => puts[q] = << >>
                         /\ run[q].at \in {"model", "end"} => run[q].messages = Newly(h, puts[q])
      BY DEF Chained, h
    <2> QED BY <1>2, <1>6, <1>7, <2>1, <2>2
  <1>11. HistoryInv'
    BY <1>8, <1>9, <1>10 DEF HistoryInv
  <1>12. Answers!History!Extend("subagent")
    <2>1. /\ \A m : m \in Answers!Range(h) <=> Has(h, m)
          /\ \A m : m \in Answers!Range(ms) <=> Has(ms, m)
      BY <1>1, <1>4, RangeHas
    <2>2. \A s : Answers!History!Range(s) = Answers!Range(s)
      BY DEF Answers!History!Range, Answers!Range
    <2>3. Answers!History!Range(ms) \cap Answers!History!Range(h) = {}
      BY <1>1, <1>4, <2>1, <2>2
    <2>4. \A u \in Answers!Threads \ {"subagent"} : u = "session"
      BY <1>1
    <2> QED BY <1>1, <1>5, <1>7, <2>3, <2>4, HistoryExtends DEF base, h, h1
  <1>13. Answers!History!Next \/ UNCHANGED Read
    BY <1>1, <1>12 DEF Answers!History!Next, Read
  <1> QED BY <1>11, <1>13

(* A put lands: what is read goes on to what the oldest put holds.           *)
LEMMA HistoryLands ==
  ASSUME AnswersInv, HistoryInv, NEW r \in Requests, Answers!Land(r)
  PROVE  HistoryInv' /\ [Answers!History!Next]_Read
  <1> DEFINE ps == puts[r]
             u == Tail(ps)
             p == Head(ps)
             ms == p.messages
             c == p.point
             h == Answers!GetTuple("session")
             h1 == Answers!GetTuple("session")'
  <1>1. /\ AnswersTyped /\ TableOK /\ clock \in Nat /\ points \in [Answers!Threads -> SUBSET Nat]
        /\ Answers!Threads = {"session", "subagent"}
        /\ puts \in [Requests -> Seq(Puts)] /\ ps \in Seq(Puts)
        /\ \A m : Has(Answers!GetTuple("subagent"), m) => ~InSession(m)
    BY Apart DEF AnswersInv, AnswersTyped
  <1>2. /\ ps # << >> /\ Answers!Put("session", c, ms)
        /\ puts' = [puts EXCEPT ![r] = Tail(@)] /\ UNCHANGED <<clock, run>>
    BY DEF Answers!Land, Answers!Quiet
  <1>3. /\ puts'[r] = u
        /\ \A q \in Requests \ {r} : puts'[q] = puts[q]
    BY <1>1, <1>2
  <1>4. PointsOK /\ OneBusy /\ \A q \in Requests : Chained(q)
    BY DEF HistoryInv
  <1>5. /\ Len(u) = Len(ps) - 1 /\ Len(ps) \in Nat /\ 1 \in 1..Len(ps) /\ p = ps[1]
        /\ \A i \in 1..Len(u) : u[i] = ps[i + 1] /\ i + 1 \in 1..Len(ps)
        /\ p \in Puts
    <2>1. \A i \in 1..Len(ps) : ps[i] \in Puts
      BY <1>1
    <2> HIDE DEF Puts
    <2> QED BY <1>1, <1>2, <2>1, ShorterByOne
  <1>6. ms \in Talks /\ c \in Nat
    BY <1>5 DEF Puts
  <1>7. ms \in Seq(Nat) /\ \A m : Has(ms, m) => InSession(m)
    BY <1>6 DEF Talks, Has
  <1>8. /\ \A k \in 1..Len(ps) : /\ ps[k].point < clock
                                 /\ \A d \in points["session"] : d < ps[k].point
                                 /\ \A j \in 1..Len(ps) : j < k => ps[j].point < ps[k].point
        /\ c = ps[1].point
    <2>1. c = ps[1].point
      BY <1>5
    <2> QED BY <1>4, <2>1 DEF PointsOK
  <1>9. Chain(h, ps) /\ (run[r].at \in {"model", "end"} => run[r].messages = Newly(h, ps))
        /\ run[r].at \notin {"register", "load"}
    BY <1>2, <1>4 DEF Chained
  <1>10. Grows(h, ms) /\ Chain(ms, u) /\ Newly(ms, u) = Newly(h, ps)
    <2> HIDE DEF Puts, h
    <2> QED BY <1>1, <1>2, <1>9, ChainLands
  <1>11. Busy(r) /\ \A q \in Requests \ {r} : ~Busy(q)
    BY <1>2, <1>4 DEF OneBusy, Busy, Answers!Quiet
  <1>12. \A q \in Requests \ {r} : puts[q] = << >> /\ run[q].at \in {"idle", "over"}
    BY <1>11, Reads
  <1> HIDE DEF ps, u, p, ms, c, h, h1
  <1>13. h1 = ms /\ Answers!GetTuple("subagent")' = Answers!GetTuple("subagent")
    <2>1. \A d \in points["session"] : d < c
      BY <1>5, <1>8
    <2>2. \A t \in Answers!Threads \ {"session"} : \A m : Has(Answers!GetTuple(t), m) => ~Has(ms, m)
      BY <1>1, <1>7
    <2>3. "session" \in Answers!Threads /\ "subagent" \in Answers!Threads \ {"session"}
      BY <1>1
    <2>4. /\ Answers!GetTuple("session")' = ms
          /\ \A t \in Answers!Threads \ {"session"} : Answers!GetTuple(t)' = Answers!GetTuple(t)
      BY <1>1, <1>2, <1>6, <1>7, <2>1, <2>2, <2>3, TuplePut
    <2> QED BY <2>3, <2>4 DEF h1
  <1>14. OneBusy'
    BY <1>2, <1>3, <1>12 DEF OneBusy, Busy, Answers!Running, Answers!Quiet
  <1>15. PointsOK'
    <2>1. points' = [points EXCEPT !["session"] = @ \cup {c}]
      BY <1>2, Zenon DEF Answers!Put
    <2>2. points'["session"] = points["session"] \cup {c} /\ points'["subagent"] = points["subagent"]
      BY <1>1, <2>1
    <2>3. c < clock
      BY <1>5, <1>8
    <2>4. \A t \in Answers!Threads : \A d \in points'[t] : d < clock
      BY <1>1, <1>4, <2>2, <2>3 DEF PointsOK
    <2>5. ASSUME NEW q \in Requests, NEW k \in 1..Len(puts'[q])
          PROVE  /\ puts'[q][k].point < clock
                 /\ \A d \in points'["session"] : d < puts'[q][k].point
                 /\ \A j \in 1..Len(puts'[q]) : j < k => puts'[q][j].point < puts'[q][k].point
      <3>1. CASE q # r
        <4>1. Len(<< >>) = 0 /\ 1..0 = {}
          OBVIOUS
        <4> QED BY <1>3, <1>12, <2>5, <3>1, <4>1
      <3>2. CASE q = r
        <4>1. k \in 1..Len(u) /\ puts'[q] = u /\ k \in Nat
          BY <1>3, <2>5, <3>2
        <4>2. u[k] = ps[k + 1] /\ k + 1 \in 1..Len(ps) /\ 1 < k + 1
          BY <1>5, <4>1
        <4>3. u[k].point < clock /\ c < u[k].point /\ \A d \in points["session"] : d < u[k].point
          BY <1>5, <1>8, <4>2
        <4>4. ASSUME NEW j \in 1..Len(u), j < k PROVE u[j].point < u[k].point
          <5>1. u[j] = ps[j + 1] /\ j + 1 \in 1..Len(ps) /\ j + 1 < k + 1
            BY <1>5, <4>1, <4>4
          <5> QED BY <1>8, <4>2, <5>1
        <4> QED BY <2>2, <4>1, <4>3, <4>4
      <3> QED BY <3>1, <3>2
    <2> QED BY <1>2, <2>4, <2>5 DEF PointsOK
  <1>16. ASSUME NEW q \in Requests
         PROVE  Chained(q)'
    <2>1. Chained(q)' <=> /\ Chain(h1, puts'[q])
                          /\ run'[q].at \in {"register", "load"} => puts'[q] = << >>
                          /\ run'[q].at \in {"model", "end"} => run'[q].messages = Newly(h1, puts'[q])
      BY DEF Chained, Chain, Newly, Prior, Grows, Summarises, h1
    <2>2. CASE q = r
      BY <1>2, <1>3, <1>9, <1>10, <1>13, <2>1, <2>2
    <2>3. CASE q # r
      <3>1. Chain(h1, << >>)
        <4>1. Len(<< >>) = 0 /\ 1..0 = {}
          OBVIOUS
        <4> QED BY <4>1 DEF Chain
      <3> QED BY <1>2, <1>3, <1>12, <2>1, <2>3, <3>1
    <2> QED BY <2>2, <2>3
  <1>17. HistoryInv'
    BY <1>14, <1>15, <1>16 DEF HistoryInv
  <1>18. [Answers!History!Next]_Read
    BY <1>6, <1>10, <1>13, HistoryMoves DEF h, h1
  <1> QED BY <1>17, <1>18

(* The process restarts: nothing is on its way, what is read stays.          *)
LEMMA HistoryRestarts ==
  ASSUME AnswersInv, HistoryInv, Answers!Restart
  PROVE  HistoryInv'
  <1>1. \A r \in Requests : run[r] \in Runs
    BY Asked
  <1>2. ASSUME NEW r \in Requests
        PROVE  run'[r].at \in {"idle", "over"} /\ puts'[r] = << >>
    <2>1. run'[r] = IF Answers!Running(r)
                    THEN [run[r] EXCEPT !.at = "over", !.stream = FALSE, !.messages = << >>] ELSE run[r]
      BY DEF Answers!Restart
    <2>2. puts'[r] = << >>
      BY DEF Answers!Restart
    <2> QED BY <1>1, <2>1, <2>2 DEF Runs, Answers!Running
  <1>3. UNCHANGED <<table, points, clock>>
    BY DEF Answers!Restart
  <1>4. Len(<< >>) = 0 /\ 1..0 = {}
    OBVIOUS
  <1>5. OneBusy'
    BY <1>2 DEF OneBusy, Busy, Answers!Running, Answers!Quiet
  <1>6. PointsOK'
    BY <1>2, <1>3, <1>4 DEF HistoryInv, PointsOK
  <1>7. \A r \in Requests : Chained(r)'
    BY <1>2, <1>4 DEF Chained, Chain
  <1> QED BY <1>5, <1>6, <1>7 DEF HistoryInv

(* A superstep.                                                              *)
LEMMA HistorySteps ==
  ASSUME AnswersInv, AnswersInv', HistoryInv, NEW r \in Requests,
         Answers!Load(r) \/ Answers!Summarise(r) \/ Answers!Answer(r)
  PROVE  HistoryInv'
  <1> DEFINE h == Answers!GetTuple("session")
             old == run[r].messages
             base == Newly(h, puts[r])
  <1>1. /\ run \in [Requests -> Runs] /\ run' \in [Requests -> Runs]
        /\ old \in Seq(Nat) /\ h \in Seq(Nat) /\ r \in Nat /\ run[r] \in Runs
    BY Asked, Apart DEF AnswersInv, AnswersTyped
  <1>2. Chained(r)
    BY DEF HistoryInv
  <1>3. /\ run[r].at = "load" => base = h
        /\ run[r].at = "model" => base = old
    BY <1>2 DEF Chained, Newly
  <1> HIDE DEF base
  <1>4. ASSUME NEW ms, NEW at \in {"model", "end"}, Answers!Step(r, ms, at), run[r].at \in {"load", "model"},
               UNCHANGED <<table, points>>, Grows(base, ms)
        PROVE  HistoryInv'
    <2>1. run' = [run EXCEPT ![r].messages = ms, ![r].at = at]
      BY <1>4 DEF Answers!Step
    <2>2. run'[r] = [run[r] EXCEPT !.messages = ms, !.at = at] /\ run'[r] \in Runs
      BY <1>1, <2>1
    <2>3. run'[r].messages = ms
      BY <1>1, <2>2 DEF Runs
    <2>4. ms \in Talks
      BY <2>2, <2>3 DEF Runs
    <2>5. Answers!Running(r)
      BY <1>4 DEF Answers!Running
    <2> QED BY <1>4, <2>4, <2>5, PutStarted DEF base, h
  <1> HIDE DEF h, old
  <1>5. CASE Answers!Load(r)
    <2> DEFINE x == Answers!Question(r)
               ms == IF x \in Answers!Range(h) THEN h ELSE Append(h, x)
    <2>1. Answers!Step(r, ms, "model") /\ run[r].at = "load" /\ UNCHANGED <<table, points>>
      BY <1>5, Zenon DEF Answers!Load, Answers!At, h
    <2>2. x \in Nat
      BY <1>1 DEF Answers!Question
    <2> HIDE DEF x
    <2>3. ms = h \/ ms = Append(h, x)
      OBVIOUS
    <2>4. Grows(h, ms)
      BY <1>1, <2>2, <2>3, BeginsAdded DEF Grows
    <2> HIDE DEF ms
    <2> QED BY <1>3, <1>4, <2>1, <2>4
  <1>6. CASE Answers!Summarise(r)
    <2> DEFINE x == Answers!SummaryOf(r)
               ms == <<x>> \o SubSeq(old, Len(old) - Keep + 1, Len(old))
    <2>1. Answers!Step(r, ms, "model") /\ run[r].at = "model" /\ UNCHANGED <<table, points>>
      BY <1>6 DEF Answers!Summarise, Answers!Summarised, Answers!At, old
    <2>2. Len(old) > Keep + 1
      BY <1>6 DEF Answers!Summarise, old
    <2>3. Keep \in Nat /\ Len(old) \in Nat
      BY <1>1, AnswersAssumption DEF Answers!ConversationAssumption
    <2>4. x \in Nat /\ Answers!IsSummary(x)
      BY <1>1 DEF Answers!SummaryOf, Answers!IsSummary
    <2> HIDE DEF x
    <2>5. Summarises(old, ms)
      <3>1. Keep < Len(old)
        BY <2>2, <2>3
      <3> QED BY <1>1, <2>3, <2>4, <3>1, SummaryThen
    <2> HIDE DEF ms
    <2>6. Grows(base, ms)
      BY <1>3, <2>1, <2>5 DEF Grows
    <2> QED BY <1>4, <2>1, <2>6
  <1>7. CASE Answers!Answer(r)
    <2> DEFINE x == Answers!Reply(r)
               ms == Append(old, x)
    <2>1. Answers!Step(r, ms, "end") /\ run[r].at = "model" /\ UNCHANGED <<table, points>>
      BY <1>7 DEF Answers!Answer, Answers!At, old
    <2>2. x \in Nat
      BY <1>1 DEF Answers!Reply
    <2> HIDE DEF x
    <2>3. Grows(base, ms)
      BY <1>1, <1>3, <2>1, <2>2, BeginsAdded DEF Grows
    <2> HIDE DEF ms
    <2> QED BY <1>4, <2>1, <2>3
  <1> QED BY <1>5, <1>6, <1>7

(* A step of the busy run that puts nothing.                                 *)
LEMMA Controlled ==
  ASSUME AnswersInv, HistoryInv, NEW r \in Requests, Busy(r), UNCHANGED <<table, points, clock, puts>>,
         \A q \in Requests \ {r} : run'[q].at = run[q].at,
         run'[r].at \in {"register", "load"} => puts[r] = << >>,
         run'[r].at \in {"model", "end"} => run'[r].messages = run[r].messages /\ run[r].at \in {"model", "end"}
  PROVE  HistoryInv'
  <1>1. \A q \in Requests \ {r} : ~Busy(q)
    BY DEF HistoryInv, OneBusy
  <1>2. \A q \in Requests \ {r} : puts[q] = << >> /\ run[q].at \in {"idle", "over"}
    BY <1>1, Reads
  <1>3. \A q \in Requests \ {r} : puts'[q] = << >> /\ run'[q].at \in {"idle", "over"}
    BY <1>2
  <1>4. \A q \in Requests \ {r} : ~Busy(q)'
    BY <1>3 DEF Busy, Answers!Running, Answers!Quiet
  <1>5. OneBusy'
    BY <1>4 DEF OneBusy
  <1>6. \A q \in Requests : run'[q].at \in {"register", "load"} => puts[q] = << >>
    BY <1>2
  <1>7. \A q \in Requests : run'[q].at \in {"model", "end"} =>
                              run'[q].messages = run[q].messages /\ run[q].at \in {"model", "end"}
    BY <1>3
  <1> QED BY <1>5, <1>6, <1>7, NothingPut

LEMMA HistoryAsks ==
  ASSUME ~together', AnswersInv, HistoryInv, NEW r \in Requests, NEW stream \in BOOLEAN,
         Answers!Ask(r, stream)
  PROVE  HistoryInv'
  <1>1. \A q \in Requests : run[q] \in Runs /\ ~Answers!Running(q) /\ puts[q] = << >>
    BY Asked DEF Answers!Ask, Answers!Quiet
  <1>2. /\ run' = [run EXCEPT ![r].at = IF stream THEN "register" ELSE "load", ![r].stream = stream]
        /\ UNCHANGED <<table, points, clock, puts>>
    BY DEF Answers!Ask
  <1>3. /\ run'[r] = [run[r] EXCEPT !.at = IF stream THEN "register" ELSE "load", !.stream = stream]
        /\ \A q \in Requests \ {r} : run'[q] = run[q]
    BY <1>2 DEF AnswersInv, AnswersTyped
  <1>4. run'[r].at \in {"register", "load"}
    BY <1>1, <1>3 DEF Runs
  <1>5. \A q \in Requests \ {r} : run'[q].at \in {"idle", "over"}
    BY <1>1, <1>3 DEF Answers!Running
  <1>6. OneBusy'
    BY <1>1, <1>2, <1>5 DEF OneBusy, Busy, Answers!Running, Answers!Quiet
  <1>7. \A q \in Requests : run'[q].at \notin {"model", "end"}
    BY <1>4, <1>5
  <1> QED BY <1>1, <1>2, <1>6, <1>7, NothingPut

(* The other steps of a run.                                                 *)
LEMMA HistoryRuns ==
  ASSUME AnswersInv, HistoryInv, NEW r \in Requests,
         \/ Answers!Register(r) \/ Answers!Complete(r) \/ Answers!Leave(r)
         \/ Answers!Throw(r) \/ Answers!Disconnect(r)
  PROVE  HistoryInv'
  <1>1. run \in [Requests -> Runs] /\ \A q \in Requests : run[q] \in Runs
    BY DEF AnswersInv, AnswersTyped
  <1>2. Chained(r)
    BY DEF HistoryInv
  <1>3. UNCHANGED <<table, points, clock, puts>>
    BY DEF Answers!Register, Answers!Complete, Answers!Leave, Answers!Throw, Answers!Disconnect
  <1>4. Busy(r)
    BY DEF Busy, Answers!Running, Answers!At, Answers!Register, Answers!Complete, Answers!Leave,
           Answers!Throw, Answers!Disconnect
  <1>5. CASE Answers!Register(r)
    <2>1. \A q \in Requests : run'[q] = IF q = r THEN [run[q] EXCEPT !.at = "load"]
                                        ELSE IF q = controller THEN [run[q] EXCEPT !.aborted = TRUE]
                                        ELSE run[q]
      BY <1>5 DEF Answers!Register
    <2>2. \A q \in Requests \ {r} : run'[q].at = run[q].at
      <3> TAKE q \in Requests \ {r}
      <3>1. run'[q] = IF q = controller THEN [run[q] EXCEPT !.aborted = TRUE] ELSE run[q]
        BY <2>1
      <3> QED BY <1>1, <3>1 DEF Runs
    <2>3. run'[r].at = "load" /\ run[r].at = "register"
      BY <1>1, <1>5, <2>1 DEF Runs, Answers!Register, Answers!At
    <2>4. puts[r] = << >>
      BY <1>2, <2>3 DEF Chained
    <2> QED BY <1>3, <1>4, <2>2, <2>3, <2>4, Controlled
  <1>6. CASE Answers!Complete(r) \/ Answers!Leave(r)
    <2>1. run' = [run EXCEPT ![r].at = "over"]
      BY <1>6 DEF Answers!Complete, Answers!Leave
    <2>2. run'[r].at = "over" /\ \A q \in Requests \ {r} : run'[q] = run[q]
      BY <1>1, <2>1 DEF Runs
    <2> QED BY <1>3, <1>4, <2>2, Controlled
  <1>7. CASE Answers!Throw(r)
    <2> DEFINE next == IF run[r].stream THEN "load" ELSE "over"
    <2>1. /\ run' = [run EXCEPT ![r].at = next, ![r].stream = FALSE, ![r].again = TRUE]
          /\ puts[r] = << >>
      BY <1>7 DEF Answers!Throw, Answers!Quiet
    <2>2. /\ run'[r] = [run[r] EXCEPT !.at = next, !.stream = FALSE, !.again = TRUE]
          /\ \A q \in Requests \ {r} : run'[q] = run[q]
      BY <1>1, <2>1
    <2>3. run'[r].at \in {"load", "over"}
      BY <1>1, <2>2 DEF Runs
    <2> QED BY <1>3, <1>4, <2>1, <2>2, <2>3, Controlled
  <1>8. CASE Answers!Disconnect(r)
    <2>1. run' = [run EXCEPT ![r].aborted = TRUE]
      BY <1>8 DEF Answers!Disconnect
    <2>2. /\ run'[r] = [run[r] EXCEPT !.aborted = TRUE]
          /\ \A q \in Requests \ {r} : run'[q] = run[q]
      BY <1>1, <2>1
    <2>3. run'[r].at = run[r].at /\ run'[r].messages = run[r].messages
      BY <1>1, <2>2 DEF Runs
    <2> QED BY <1>2, <1>3, <1>4, <2>2, <2>3, Controlled DEF Chained
  <1> QED BY <1>5, <1>6, <1>7, <1>8

LEMMA HistoryAborts ==
  ASSUME AnswersInv, HistoryInv, Answers!AbortRequest
  PROVE  HistoryInv'
  <1> DEFINE r == controller
  <1>1. /\ r # 0 /\ run' = [run EXCEPT ![r].aborted = TRUE]
        /\ UNCHANGED <<table, points, clock, puts>>
    BY DEF Answers!AbortRequest, Answers!None
  <1>2. r \in Requests /\ Answers!Running(r) /\ run \in [Requests -> Runs]
    BY <1>1 DEF AnswersInv, AnswersTyped, Registered, Answers!Running
  <1>3. Busy(r) /\ Chained(r) /\ run[r] \in Runs
    BY <1>2 DEF Busy, HistoryInv
  <1> HIDE DEF r
  <1>4. /\ run'[r] = [run[r] EXCEPT !.aborted = TRUE]
        /\ \A q \in Requests \ {r} : run'[q] = run[q]
    BY <1>1, <1>2
  <1>5. run'[r].at = run[r].at /\ run'[r].messages = run[r].messages
    BY <1>3, <1>4 DEF Runs
  <1> QED BY <1>1, <1>2, <1>3, <1>4, <1>5, Controlled DEF Chained

LEMMA HistoryStep ==
  ASSUME ~together', AnswersInv, AnswersInv', HistoryInv, [Answers!Next]_answer
  PROVE  HistoryInv' /\ [Answers!History!Next]_Read
  <1>1. CASE UNCHANGED answer
    <2>1. UNCHANGED <<table, points, clock, puts, run>>
      BY <1>1 DEF answer
    <2>2. HistoryInv' <=> OneBusy' /\ PointsOK' /\ \A q \in Requests : Chained(q)'
      BY DEF HistoryInv
    <2>3. OneBusy'
      BY <2>1 DEF HistoryInv, OneBusy, Busy, Answers!Running, Answers!Quiet
    <2>4. /\ \A q \in Requests : run'[q].at \in {"register", "load"} => puts[q] = << >>
          /\ \A q \in Requests : run'[q].at \in {"model", "end"} =>
                                   run'[q].messages = run[q].messages /\ run[q].at \in {"model", "end"}
      BY <2>1 DEF HistoryInv, Chained
    <2>5. HistoryInv'
      BY <2>1, <2>3, <2>4, NothingPut
    <2> QED BY <2>1, <2>5, HistoryStays
  <1>2. ASSUME NEW r \in Requests, NEW stream \in BOOLEAN, Answers!Ask(r, stream)
        PROVE  HistoryInv' /\ [Answers!History!Next]_Read
    <2>1. UNCHANGED <<table, points>>
      BY <1>2 DEF Answers!Ask
    <2> QED BY <1>2, <2>1, HistoryAsks, HistoryStays
  <1>3. ASSUME NEW r \in Requests, Answers!Load(r) \/ Answers!Summarise(r) \/ Answers!Answer(r)
        PROVE  HistoryInv' /\ [Answers!History!Next]_Read
    <2>1. UNCHANGED <<table, points>>
      BY <1>3 DEF Answers!Load, Answers!Summarise, Answers!Answer
    <2> QED BY <1>3, <2>1, HistorySteps, HistoryStays
  <1>4. ASSUME NEW r \in Requests,
               \/ Answers!Register(r) \/ Answers!Complete(r) \/ Answers!Leave(r)
               \/ Answers!Throw(r) \/ Answers!Disconnect(r)
        PROVE  HistoryInv' /\ [Answers!History!Next]_Read
    <2>1. UNCHANGED <<table, points>>
      BY <1>4 DEF Answers!Register, Answers!Complete, Answers!Leave, Answers!Throw, Answers!Disconnect
    <2> QED BY <1>4, <2>1, HistoryRuns, HistoryStays
  <1>5. ASSUME NEW r \in Requests, Answers!CallSubagent(r)
        PROVE  HistoryInv' /\ [Answers!History!Next]_Read
    BY <1>5, HistoryCalls
  <1>6. ASSUME NEW r \in Requests, Answers!Land(r)
        PROVE  HistoryInv' /\ [Answers!History!Next]_Read
    BY <1>6, HistoryLands
  <1>7. CASE Answers!AbortRequest
    <2>1. UNCHANGED <<table, points>>
      BY <1>7 DEF Answers!AbortRequest
    <2> QED BY <1>7, <2>1, HistoryAborts, HistoryStays
  <1>8. CASE Answers!Restart
    <2>1. UNCHANGED <<table, points>>
      BY <1>8 DEF Answers!Restart
    <2> QED BY <1>8, <2>1, HistoryRestarts, HistoryStays
  <1> QED BY <1>1, <1>2, <1>3, <1>4, <1>5, <1>6, <1>7, <1>8 DEF Answers!Next

LEMMA HistoryInit ==
  ASSUME Answers!Init
  PROVE  HistoryInv /\ Answers!History!Init
  <1>1. /\ points = [t \in Answers!Threads |-> {}]
        /\ \A r \in Requests : run[r].at = "idle" /\ puts[r] = << >>
    BY DEF Answers!Init
  <1>2. Len(<< >>) = 0 /\ 1..0 = {}
    OBVIOUS
  <1>3. OneBusy
    BY <1>1 DEF OneBusy, Busy, Answers!Running, Answers!Quiet
  <1>4. PointsOK
    BY <1>1, <1>2 DEF PointsOK, Answers!Threads
  <1>5. \A r \in Requests : Chained(r)
    BY <1>1, <1>2 DEF Chained, Chain
  <1>6. \A t \in Answers!Threads : Answers!GetTuple(t) = << >>
    BY <1>1 DEF Answers!GetTuple
  <1>7. Answers!History!Init
    BY <1>6 DEF Answers!History!Init
  <1> QED BY <1>3, <1>4, <1>5, <1>7 DEF HistoryInv

LEMMA TogetherStays ==
  ASSUME [Answers!Next]_answer, together
  PROVE  together'
  BY DEF Answers!Next, Answers!Ask, Answers!Register, Answers!Load, Answers!Summarise,
         Answers!CallSubagent, Answers!Answer, Answers!Land, Answers!Complete, Answers!Leave,
         Answers!Throw, Answers!Disconnect, Answers!AbortRequest, Answers!Restart, Answers!history,
         answer

(* KeepsHistory: until a question is asked while another is answered, what   *)
(* the next one reads of a thread only grows at its end, or its older part   *)
(* gives way to a summary, in every order of puts, aborts, failures and      *)
(* restarts.                                                                 *)
THEOREM HistoryGrows == PartSpec => KeepsHistory
  <1> DEFINE Now == [t \in Answers!Threads |-> Answers!GetTuple(t)]
             Good == together \/ HistoryInv
  <1>1. PartInit => AnswersInv /\ Good /\ Answers!History!Init
    BY AnswersInit, HistoryInit DEF PartInit
  <1>2. AnswersInv /\ [PartNext]_<<part, vars, servers, answer>> => AnswersInv'
    BY AnswersStep DEF PartNext
  <1>3. AnswersInv /\ Good /\ [PartNext]_<<part, vars, servers, answer>> =>
          Good' /\ [Answers!History!Next \/ together']_Now
    <2>1. [PartNext]_<<part, vars, servers, answer>> => [Answers!Next]_answer
      BY DEF PartNext
    <2> QED BY <1>2, <2>1, HistoryStep, TogetherStays DEF Read
  <1> HIDE DEF Good
  <1>4. PartSpec => Answers!History!Init /\ [][Answers!History!Next \/ together']_Now
    BY <1>1, <1>2, <1>3, PTL DEF PartSpec
  <1> QED BY <1>4, PTL DEF KeepsHistory, Answers!KeepsHistory
=============================================================================
