-------------------------- MODULE TaskIndexProofs --------------------------
(* Proofs about TaskIndex: until operations overlap, follow on old copies or *)
(* take what they cannot read for empty, header and chunks stay in order and  *)
(* implement the map of TaskMap, whatever writes fail, with any number of     *)
(* tasks and operations and any chunk size.                                   *)
EXTENDS TaskIndex, FiniteSetTheorems, WellFoundedInduction, TLAPS

(* One operation at a time. *)
Solo == \A u, v \in Workers : worker[u].pc # "idle" /\ worker[v].pc # "idle" => u = v

(* A step of w that disturbs nothing: no one else is at work. *)
Alone(w) == \A u \in Workers \ {w} : worker[u].pc = "idle" /\ worker'[u].pc = "idle"
Calm(w) == Alone(w) /\ ~disturbed'

Edits == {"update", "delete"}
Looking == {"header", "bootstrap", "chunk", "write"}

(* Before the first header nothing of it is cached or being read. *)
Unborn ==
    ~header.known =>
        /\ header = NoHeader /\ cachedHeader = NoHeader
        /\ \A c \in ChunkId : cachedChunk[c] \in {NoChunk, Empty}
        /\ cachedEntry = {}
        /\ reader.pc = "idle"

(* What the worker is about to do is of the right kind. *)
Kinds(w) ==
    worker[w].pc # "idle" =>
        /\ worker[w].task \in Tasks
        /\ worker[w].op \in {"create"} \cup Edits
        /\ worker[w].value = None <=> worker[w].op = "delete"
        /\ worker[w].pc = "resolve" => worker[w].op \in Edits

(* Until it writes, an operation works on current copies. *)
Current(w) == worker[w].pc \in {"resolve"} \cup Looking => Rested

(* A created task is nowhere yet, another has its entry. *)
Absent(t) == header.chunkOf[t] = Nowhere /\ \A c \in ChunkId : chunk[c][t] = None
Present(t) == header.chunkOf[t] # Nowhere /\ chunk[header.chunkOf[t]][t] # None
Placed(w) ==
    /\ worker[w].pc \in Looking =>
           IF worker[w].op = "create" THEN Absent(worker[w].task) ELSE Present(worker[w].task)
    /\ worker[w].pc = "book" =>
           header.chunkOf[worker[w].task] =
               IF worker[w].op = "create" THEN Nowhere ELSE worker[w].at

(* The header it goes by is the stored one, or the first. *)
Aware(w) ==
    /\ worker[w].pc = "bootstrap" => ~header.known /\ worker[w].op = "create"
    /\ worker[w].pc \in {"chunk", "write", "book"} =>
           IF header.known THEN worker[w].header = header
           ELSE worker[w].op = "create" /\ worker[w].header = FirstHeader
    /\ worker[w].pc = "chunk" /\ ~header.known => chunk[0] = Empty

(* The chunk it is about to write differs from the stored one in its task. *)
Prepared(w) ==
    /\ worker[w].pc \in {"write", "book"} =>
           worker[w].at \in ChunkId /\ worker[w].at <= worker[w].header.chunks
    /\ worker[w].pc = "write" =>
           LET at == worker[w].at
               t == worker[w].task IN
           /\ worker[w].op \in Edits => at = header.chunkOf[t]
           /\ worker[w].chunk[t] = worker[w].value
           /\ \A u \in Tasks \ {t} :
                  worker[w].chunk[u] = IF at < worker[w].header.chunks THEN chunk[at][u] ELSE None
           /\ Cardinality(Entries(worker[w].chunk)) <= ChunkSize
    /\ worker[w].pc = "book" => chunk[worker[w].at][worker[w].task] = worker[w].value

Order == ChunksInOrder /\ HeaderInOrder /\ header.chunks <= Cardinality(Tasks) + 1
ReaderInv == reader.pc = "fill" => reader.at \in ChunkId
WorkerInv(w) == Kinds(w) /\ Current(w) /\ Placed(w) /\ Aware(w) /\ Prepared(w)

Inv == TypeOK /\ Order /\ ReaderInv /\ Unborn /\ Solo /\ \A w \in Workers : WorkerInv(w)

-----------------------------------------------------------------------------
(* Numbers, records and types. *)

LEMMA Numbers ==
    /\ Cardinality(Tasks) \in Nat
    /\ ChunkId \subseteq Nat /\ 0 \in ChunkId
    /\ \A c : c \in ChunkId <=> c \in Nat /\ c <= Cardinality(Tasks)
    /\ Nowhere \in Nat /\ Nowhere \notin ChunkId
<1>1. Cardinality(Tasks) \in Nat
  BY FS_CardinalityType, IndexAssumption
<1>2. QED
  BY <1>1 DEF ChunkId, Nowhere

LEMMA Blank ==
    /\ NoHeader \in Headers /\ ~NoHeader.known /\ NoHeader.chunks = 0 /\ NoHeader.count = 0
    /\ \A t \in Tasks : NoHeader.chunkOf[t] = Nowhere
    /\ FirstHeader \in Headers /\ FirstHeader.known /\ FirstHeader.chunks = 1
    /\ FirstHeader.count = 0 /\ FirstHeader.chunkOf = NoHeader.chunkOf
    /\ \A t \in Tasks : FirstHeader.chunkOf[t] = Nowhere
    /\ Empty \in Content /\ \A t \in Tasks : Empty[t] = None
<1>1. NoHeader \in Headers /\ ~NoHeader.known /\ NoHeader.chunks = 0 /\ NoHeader.count = 0
  BY DEF NoHeader, Headers
<1>2. FirstHeader \in Headers /\ FirstHeader.known /\ FirstHeader.chunks = 1
      /\ FirstHeader.count = 0 /\ FirstHeader.chunkOf = NoHeader.chunkOf
  BY <1>1 DEF NoHeader, FirstHeader, Headers
<1>3. \A t \in Tasks : NoHeader.chunkOf[t] = Nowhere
  BY DEF NoHeader
<1>4. Empty \in Content /\ \A t \in Tasks : Empty[t] = None
  BY DEF Empty, Content
<1>5. QED
  BY <1>1, <1>2, <1>3, <1>4

LEMMA ReadTypes ==
  ASSUME TypeOK
  PROVE  HeaderRead \in Headers /\ \A c \in ChunkId : ChunkRead(c) \in Content
BY DEF TypeOK, HeaderRead, ChunkRead

(* What each step makes of its worker. *)
LEMMA GotoMoves ==
  ASSUME TypeOK, NEW w \in Workers, NEW pc, Goto(w, pc)
  PROVE  /\ pc \in {"idle", "resolve", "header", "bootstrap", "chunk", "write", "book", "refresh"}
                => worker' \in [Workers -> Operations]
         /\ worker'[w].pc = pc /\ worker'[w].op = worker[w].op
         /\ worker'[w].task = worker[w].task /\ worker'[w].value = worker[w].value
         /\ worker'[w].header = worker[w].header /\ worker'[w].chunk = worker[w].chunk
         /\ worker'[w].at = worker[w].at
         /\ \A u \in Workers \ {w} : worker'[u] = worker[u]
BY DEF TypeOK, Goto, Operations

LEMMA EndMoves ==
  ASSUME TypeOK, NEW w \in Workers, End(w)
  PROVE  /\ worker' \in [Workers -> Operations]
         /\ worker'[w] = Idle /\ worker'[w].pc = "idle"
         /\ \A u \in Workers \ {w} : worker'[u] = worker[u]
BY Blank, Numbers DEF TypeOK, End, Operations, Idle

LEMMA BeginMoves ==
  ASSUME TypeOK, NEW w \in Workers, NEW op \in {"create", "update", "delete"},
         NEW t \in Tasks, NEW v \in Values \cup {None}, Begin(w, op, t, v)
  PROVE  /\ worker' \in [Workers -> Operations]
         /\ worker'[w].pc = IF op = "create" THEN "header" ELSE "resolve"
         /\ worker'[w].op = op /\ worker'[w].task = t /\ worker'[w].value = v
         /\ \A u \in Workers \ {w} : worker'[u] = worker[u]
<1> DEFINE q == [Idle EXCEPT !.op = op, !.task = t, !.value = v,
                             !.pc = IF op = "create" THEN "header" ELSE "resolve"]
<1>1. /\ q \in Operations /\ q.pc = IF op = "create" THEN "header" ELSE "resolve"
      /\ q.op = op /\ q.task = t /\ q.value = v
  BY Blank, Numbers DEF Operations, Idle
<1>2. worker' = [worker EXCEPT ![w] = q]
  BY DEF Begin
<1> HIDE DEF q
<1>3. QED
  BY <1>1, <1>2 DEF TypeOK

LEMMA HeaderMoves ==
  ASSUME TypeOK, NEW w \in Workers, NEW h \in Headers,
         NEW pc \in {"chunk", "refresh", "bootstrap"},
         worker' = [worker EXCEPT ![w].header = h, ![w].pc = pc]
  PROVE  /\ worker' \in [Workers -> Operations]
         /\ worker'[w].pc = pc /\ worker'[w].header = h
         /\ worker'[w].op = worker[w].op /\ worker'[w].task = worker[w].task
         /\ worker'[w].value = worker[w].value
         /\ \A u \in Workers \ {w} : worker'[u] = worker[u]
<1> DEFINE q == [worker[w] EXCEPT !.header = h, !.pc = pc]
<1>1. /\ q \in Operations /\ q.pc = pc /\ q.header = h /\ q.op = worker[w].op
      /\ q.task = worker[w].task /\ q.value = worker[w].value
  BY DEF TypeOK, Operations
<1>2. worker' = [worker EXCEPT ![w] = q]
  BY DEF TypeOK
<1> HIDE DEF q
<1>3. QED
  BY <1>1, <1>2 DEF TypeOK

-----------------------------------------------------------------------------
(* Copies. *)

LEMMA RestedReads ==
  ASSUME Rested
  PROVE  HeaderRead = header /\ \A c \in ChunkId : ChunkRead(c) = chunk[c]
BY Blank DEF Rested, HeaderRead, ChunkRead

(* Copying what is stored, and dropping copies, keeps them current. *)
LEMMA RestedStays ==
  ASSUME Rested, UNCHANGED stored,
         cachedHeader' \in {cachedHeader, header, NoHeader},
         \A c \in ChunkId : cachedChunk'[c] \in {cachedChunk[c], chunk[c], NoChunk},
         \A t \in cachedEntry' : t \in cachedEntry \/ Present(t),
         reader' = reader \/ reader'.pc = "idle"
             \/ (reader'.header = header /\ reader'.chunk = chunk[reader'.at])
  PROVE  Rested'
BY DEF Rested, stored, Present

(* Copying what nothing is stored of yet, too. *)
LEMMA UnbornStays ==
  ASSUME Unborn, header' = header,
         ~header.known =>
             /\ cachedHeader' \in {cachedHeader, header, NoHeader}
             /\ \A c \in ChunkId : cachedChunk'[c] \in {cachedChunk[c], Empty, NoChunk}
             /\ cachedEntry' \subseteq cachedEntry
             /\ reader'.pc = "idle"
  PROVE  Unborn'
BY DEF Unborn

LEMMA CachedTypes ==
  ASSUME TypeOK, NEW cs \in SUBSET ChunkId, CacheChunks(cs)
  PROVE  /\ cachedChunk' \in [ChunkId -> Content \cup {NoChunk}]
         /\ \A c \in ChunkId : cachedChunk'[c] = IF c \in cs THEN ChunkRead(c) ELSE cachedChunk[c]
BY ReadTypes DEF TypeOK, CacheChunks

-----------------------------------------------------------------------------
(* The reader and the clock. *)

LEMMA ReaderFrame ==
  ASSUME Inv, TypeOK', UNCHANGED <<stored, worker>>, ReaderInv', Unborn', Rested => Rested'
  PROVE  Inv'
<1>1. Order'
  BY DEF Inv, Order, ChunksInOrder, HeaderInOrder, Known, Entries, stored
<1>2. ASSUME NEW w \in Workers
      PROVE  WorkerInv(w)'
  <2>1. Kinds(w)' /\ Current(w)'
    BY DEF Inv, WorkerInv, Kinds, Current
  <2>2. Placed(w)' /\ Aware(w)'
    BY DEF Inv, WorkerInv, Placed, Aware, Absent, Present, stored
  <2>3. Prepared(w)'
    BY DEF Inv, WorkerInv, Prepared, Entries, stored
  <2>4. QED
    BY <2>1, <2>2, <2>3 DEF WorkerInv
<1>3. QED
  BY <1>1, <1>2 DEF Inv, Solo

LEMMA StartListKeeps ==
  ASSUME Inv, NEW c \in ChunkId, StartList(c)
  PROVE  Inv'
<1>1. HeaderRead \in Headers /\ ChunkRead(c) \in Content
  BY ReadTypes DEF Inv
<1>2. /\ reader'.pc = "fill" /\ reader'.header = HeaderRead /\ reader'.chunk = ChunkRead(c)
      /\ reader'.at = c /\ reader' \in Readings
  BY <1>1 DEF StartList, Readings
<1>3. TypeOK'
  BY <1>2 DEF StartList, Inv, TypeOK, stored, caches, history
<1>4. ReaderInv'
  BY <1>2 DEF ReaderInv
<1>5. Unborn'
  <2>1. header.known
    BY DEF StartList, Inv, Unborn, HeaderRead
  <2>2. QED
    BY <2>1 DEF Unborn, StartList, stored
<1>6. Rested => Rested'
  BY <1>2, RestedReads, RestedStays DEF StartList, caches
<1>7. QED
  BY <1>3, <1>4, <1>5, <1>6, ReaderFrame DEF StartList

LEMMA FillListKeeps ==
  ASSUME Inv, FillList
  PROVE  Inv'
<1>1. /\ reader.at \in ChunkId /\ reader.header \in Headers /\ reader.chunk \in Content
      /\ reader.pc = "fill"
  BY DEF FillList, Inv, ReaderInv, TypeOK, Readings
<1>2. reader' \in Readings /\ reader'.pc = "idle"
  BY Blank, Numbers DEF FillList, NotReading, Readings
<1>3. /\ cachedChunk' \in [ChunkId -> Content \cup {NoChunk}]
      /\ \A c \in ChunkId : cachedChunk'[c] = IF c = reader.at THEN reader.chunk ELSE cachedChunk[c]
  BY <1>1 DEF FillList, Inv, TypeOK
<1>4. TypeOK'
  BY <1>1, <1>2, <1>3 DEF FillList, Inv, TypeOK, stored, history
<1>5. ReaderInv'
  BY <1>2 DEF ReaderInv
<1>6. Unborn'
  BY <1>1 DEF FillList, Inv, Unborn, stored
<1>7. Rested => Rested'
  BY <1>1, <1>2, <1>3, RestedStays DEF FillList, Rested
<1>8. QED
  BY <1>4, <1>5, <1>6, <1>7, ReaderFrame DEF FillList

LEMMA ExpireCopyKeeps ==
  ASSUME Inv, ExpireCopy
  PROVE  Inv'
<1>1. /\ cachedHeader' \in {cachedHeader, NoHeader}
      /\ cachedChunk' \in [ChunkId -> Content \cup {NoChunk}]
      /\ \A c \in ChunkId : cachedChunk'[c] \in {cachedChunk[c], NoChunk}
      /\ cachedEntry' \subseteq cachedEntry
  BY DEF ExpireCopy, Inv, TypeOK
<1>2. TypeOK'
  BY <1>1, Blank DEF ExpireCopy, Inv, TypeOK, stored, history
<1>3. ReaderInv'
  BY DEF ExpireCopy, Inv, ReaderInv
<1>4. Unborn'
  BY <1>1 DEF ExpireCopy, Inv, Unborn, stored
<1>5. Rested => Rested'
  BY <1>1, RestedStays DEF ExpireCopy
<1>6. QED
  BY <1>2, <1>3, <1>4, <1>5, ReaderFrame DEF ExpireCopy

-----------------------------------------------------------------------------
(* Chunks and their entries. *)

LEMMA Small ==
  ASSUME NEW content
  PROVE  /\ IsFiniteSet(Entries(content)) /\ Cardinality(Entries(content)) \in Nat
         /\ Entries(content) = {} => ~Full(content)
<1>1. IsFiniteSet(Entries(content)) /\ Cardinality(Entries(content)) \in Nat
  BY FS_Subset, FS_CardinalityType, IndexAssumption DEF Entries
<1>2. ASSUME Entries(content) = {} PROVE ~Full(content)
  BY <1>2, FS_EmptySet, IndexAssumption DEF Full
<1>3. QED
  BY <1>1, <1>2

(* There is always a chunk with space. *)
LEMMA SpaceLeft ==
  ASSUME ChunksInOrder
  PROVE  \E c \in ChunkId : ~Full(chunk[c])
<1> SUFFICES ASSUME \A c \in ChunkId : Full(chunk[c]) PROVE FALSE
  OBVIOUS
<1>1. \A c \in ChunkId : Entries(chunk[c]) # {}
  BY Small
<1> DEFINE f == [c \in ChunkId |-> CHOOSE t : t \in Entries(chunk[c])]
<1>2. \A c \in ChunkId : f[c] \in Entries(chunk[c])
  BY <1>1
<1> HIDE DEF f
<1>3. f \in [ChunkId -> Tasks]
  BY <1>2 DEF Entries, f
<1>4. IsFiniteSet(ChunkId) /\ Cardinality(ChunkId) = Cardinality(Tasks) + 1
  BY FS_Interval, Numbers DEF ChunkId
<1>5. PICK c \in ChunkId, d \in ChunkId : c # d /\ f[c] = f[d]
  BY <1>3, <1>4, FS_PigeonHole, Numbers, IndexAssumption
<1>6. f[c] \in Entries(chunk[c]) \cap Entries(chunk[d])
  BY <1>2, <1>5
<1>7. QED
  BY <1>5, <1>6 DEF ChunksInOrder

LEMMA LeastElement ==
  ASSUME NEW S \in SUBSET Nat, S # {}
  PROVE  Min(S) \in S
<1>1. PICK x \in S : \A y \in S : ~(<<y, x>> \in OpToRel(<, Nat))
  BY NatLessThanWellFounded, WFMin, Zenon
<1>2. \A y \in S : ~(y < x)
  BY <1>1, Zenon DEF OpToRel
<1>3. \A y \in S : x <= y
  BY <1>2
<1>4. QED
  BY <1>3 DEF Min

(* The chunk an operation chooses is one of the map, counted by the header or  *)
(* the next one, and it has space for a new task.                              *)
LEMMA TargetFits ==
  ASSUME ChunksInOrder, NEW h \in Headers, h.chunks <= Cardinality(Tasks) + 1,
         NEW lost, \A c \in ChunkId : Seen(c, lost) = chunk[c],
         NEW t \in Tasks, h.chunkOf[t] # Nowhere => h.chunkOf[t] < h.chunks
  PROVE  /\ Target(h, t, lost) \in ChunkId /\ Target(h, t, lost) <= h.chunks
         /\ h.chunkOf[t] # Nowhere => Target(h, t, lost) = h.chunkOf[t] /\ Target(h, t, lost) < h.chunks
         /\ h.chunkOf[t] = Nowhere /\ Target(h, t, lost) < h.chunks => ~Full(chunk[Target(h, t, lost)])
<1>1. h.chunks \in Nat /\ h.chunkOf[t] \in ChunkId \cup {Nowhere}
  BY DEF Headers
<1>2. CASE h.chunkOf[t] # Nowhere
  BY <1>1, <1>2, Numbers DEF Target
<1>3. CASE h.chunkOf[t] = Nowhere /\ Fitting(h, lost) # {}
  <2>1. Min(Fitting(h, lost)) \in Fitting(h, lost)
    BY <1>3, LeastElement, Numbers DEF Fitting
  <2>2. Target(h, t, lost) = Min(Fitting(h, lost))
    BY <1>3 DEF Target
  <2>3. Target(h, t, lost) \in ChunkId /\ Target(h, t, lost) < h.chunks /\ ~Full(chunk[Target(h, t, lost)])
    BY <2>1, <2>2 DEF Fitting
  <2>4. QED
    BY <1>1, <1>3, <2>3, Numbers
<1>4. CASE h.chunkOf[t] = Nowhere /\ Fitting(h, lost) = {}
  <2>1. Target(h, t, lost) = h.chunks
    BY <1>4 DEF Target
  <2>2. PICK c \in ChunkId : ~Full(chunk[c])
    BY SpaceLeft
  <2>3. ~(c < h.chunks)
    BY <1>4, <2>2 DEF Fitting
  <2>4. h.chunks \in ChunkId
    BY <1>1, <2>3, Numbers
  <2>5. QED
    BY <1>1, <1>4, <2>1, <2>4
<1>5. QED
  BY <1>2, <1>3, <1>4

-----------------------------------------------------------------------------
(* The steps of an operation that leave header and chunks alone. *)

LEMMA Framed ==
  ASSUME UNCHANGED stored
  PROVE  /\ Order' <=> Order
         /\ \A t \in Tasks : (Absent(t)' <=> Absent(t)) /\ (Present(t)' <=> Present(t))
BY DEF Order, ChunksInOrder, HeaderInOrder, Known, Entries, Absent, Present, stored

(* An operation that ends owes nothing. *)
LEMMA IdleOwesNothing ==
  ASSUME NEW w \in Workers, worker'[w].pc = "idle"
  PROVE  WorkerInv(w)'
BY DEF WorkerInv, Kinds, Current, Placed, Aware, Prepared, Looking

LEMMA Sole ==
  ASSUME NEW w \in Workers, Calm(w),
         TypeOK', Order', ReaderInv', Unborn', WorkerInv(w)'
  PROVE  Inv'
<1>1. \A u \in Workers : u = w \/ WorkerInv(u)'
  BY IdleOwesNothing DEF Calm, Alone
<1>2. Solo'
  BY DEF Calm, Alone, Solo
<1>3. QED
  BY <1>1, <1>2 DEF Inv

LEMMA BeginKeeps ==
  ASSUME Inv, NEW w \in Workers, Calm(w), NEW op \in {"create", "update", "delete"},
         NEW t \in Tasks, NEW v \in Values \cup {None}, v = None <=> op = "delete",
         op = "create" => Absent(t), Begin(w, op, t, v)
  PROVE  Inv'
<1>1. /\ worker' \in [Workers -> Operations]
      /\ worker'[w].pc = IF op = "create" THEN "header" ELSE "resolve"
      /\ worker'[w].op = op /\ worker'[w].task = t /\ worker'[w].value = v
  BY BeginMoves DEF Inv
<1>2. /\ Rested /\ UNCHANGED <<stored, caches, reader>>
      /\ ops' \in 0..MaxOps /\ disturbed' \in BOOLEAN
  <2>1. Rested /\ UNCHANGED <<stored, caches, reader>> /\ disturbed' = FALSE
    BY DEF Begin, Calm
  <2>2. ops' \in 0..MaxOps
    BY IndexAssumption DEF Begin, Inv, TypeOK
  <2>3. QED
    BY <2>1, <2>2
<1>3. TypeOK'
  BY <1>1, <1>2 DEF Inv, TypeOK, stored, caches
<1>4. Order' /\ (op = "create" => Absent(t)')
  BY <1>2, Framed DEF Inv
<1>5. Rested'
  BY <1>2, RestedStays DEF caches
<1>6. ReaderInv' /\ Unborn'
  BY <1>2 DEF Inv, ReaderInv, Unborn, stored, caches
<1>7. WorkerInv(w)'
  <2>1. Kinds(w)'
    BY <1>1 DEF Kinds, Edits
  <2>2. Current(w)' /\ Aware(w)' /\ Prepared(w)'
    BY <1>1, <1>5 DEF Current, Aware, Prepared
  <2>3. Placed(w)'
    BY <1>1, <1>4 DEF Placed, Looking
  <2>4. QED
    BY <2>1, <2>2, <2>3 DEF WorkerInv
<1>8. QED
  BY <1>3, <1>4, <1>6, <1>7, Sole

LEMMA RefreshKeeps ==
  ASSUME Inv, NEW w \in Workers, Calm(w), Refresh(w)
  PROVE  Inv'
<1>1. worker' \in [Workers -> Operations] /\ worker'[w].pc = "idle"
  BY EndMoves DEF Inv, Refresh
<1>2. TypeOK'
  BY <1>1, Blank DEF Refresh, Inv, TypeOK, stored, history
<1>3. Order'
  BY Framed DEF Refresh, Inv
<1>4. ReaderInv' /\ Unborn'
  BY DEF Refresh, Inv, ReaderInv, Unborn, stored
<1>5. QED
  BY <1>1, <1>2, <1>3, <1>4, IdleOwesNothing, Sole

LEMMA FailWriteKeeps ==
  ASSUME Inv, NEW w \in Workers, Calm(w), FailWrite(w)
  PROVE  Inv'
<1>1. worker' \in [Workers -> Operations] /\ worker'[w].pc = "idle"
  BY EndMoves DEF Inv, FailWrite
<1>2. TypeOK'
  BY <1>1 DEF FailWrite, Inv, TypeOK, stored, caches, history
<1>3. Order'
  BY Framed DEF FailWrite, Inv
<1>4. ReaderInv' /\ Unborn'
  BY DEF FailWrite, Inv, ReaderInv, Unborn, stored, caches
<1>5. QED
  BY <1>1, <1>2, <1>3, <1>4, IdleOwesNothing, Sole

(* Before the first header no task has an entry. *)
LEMMA PresentIsKnown ==
  ASSUME Unborn, NEW t \in Tasks, Present(t)
  PROVE  header.known
BY Blank DEF Unborn, Present

LEMMA ResolveKeeps ==
  ASSUME Inv, NEW w \in Workers, Calm(w), Resolve(w)
  PROVE  Inv'
<1> DEFINE t == worker[w].task
           c == HeaderRead.chunkOf[t]
<1>1. Rested /\ t \in Tasks /\ worker[w].op \in Edits
  BY DEF Resolve, Inv, WorkerInv, Current, Kinds
<1>2. HeaderRead = header /\ \A d \in ChunkId : ChunkRead(d) = chunk[d]
  BY <1>1, RestedReads
<1>3. header \in Headers /\ c \in ChunkId \cup {Nowhere}
  BY <1>1, <1>2 DEF Inv, TypeOK, Headers
<1>4. Found(t) => Present(t)
  BY <1>1, <1>2, <1>3, Numbers DEF Found, Present, Rested
<1>5. /\ cachedHeader' \in {cachedHeader, header}
      /\ cachedChunk' \in [ChunkId -> Content \cup {NoChunk}]
      /\ \A d \in ChunkId : cachedChunk'[d] = cachedChunk[d] \/ (d = c /\ cachedChunk'[d] = chunk[d])
      /\ cachedEntry' \subseteq Tasks
      /\ \A u \in cachedEntry' : u \in cachedEntry \/ Present(u)
  <2>1. CASE t \in cachedEntry
    BY <2>1 DEF Resolve, Inv, TypeOK, caches
  <2>2. CASE t \notin cachedEntry
    <3> DEFINE cs == {c} \ {Nowhere}
    <3>1. CacheChunks(cs) /\ cs \in SUBSET ChunkId /\ \A d \in cs : d = c
      BY <1>3, <2>2 DEF Resolve
    <3> HIDE DEF cs
    <3>2. /\ cachedChunk' \in [ChunkId -> Content \cup {NoChunk}]
          /\ \A d \in ChunkId : cachedChunk'[d] = IF d \in cs THEN ChunkRead(d) ELSE cachedChunk[d]
      BY <3>1, CachedTypes DEF Inv
    <3>3. \A d \in ChunkId : cachedChunk'[d] = cachedChunk[d] \/ (d = c /\ cachedChunk'[d] = chunk[d])
      BY <1>2, <3>1, <3>2
    <3>4. cachedHeader' = header
      BY <1>2, <2>2 DEF Resolve
    <3>5. cachedEntry' = IF Found(t) THEN cachedEntry \cup {t} ELSE cachedEntry
      BY <2>2 DEF Resolve
    <3>6. QED
      BY <1>1, <1>4, <3>2, <3>3, <3>4, <3>5 DEF Inv, TypeOK
  <2>3. QED
    BY <2>1, <2>2
<1>6. UNCHANGED <<stored, reader, history>>
  BY DEF Resolve
<1>7. /\ worker' \in [Workers -> Operations]
      /\ \/ worker'[w].pc = "idle"
         \/ /\ Found(t) /\ worker'[w].pc = "header" /\ worker'[w].op = worker[w].op
            /\ worker'[w].task = t /\ worker'[w].value = worker[w].value
  BY GotoMoves, EndMoves DEF Resolve, Inv
<1>8. TypeOK'
  BY <1>3, <1>5, <1>6, <1>7 DEF Inv, TypeOK, stored, history
<1>9. Order'
  BY <1>6, Framed DEF Inv
<1>10. Rested'
  BY <1>1, <1>5, <1>6, RestedStays DEF Rested
<1>11. ReaderInv'
  BY <1>6 DEF Inv, ReaderInv
<1>12. Unborn'
  <2>1. ASSUME ~header.known
        PROVE  /\ \A d \in ChunkId : cachedChunk'[d] = cachedChunk[d]
               /\ cachedEntry' \subseteq cachedEntry /\ reader'.pc = "idle"
    <3>1. \A u \in Tasks : header.chunkOf[u] = Nowhere
      BY <2>1, Blank DEF Inv, Unborn
    <3>2. c \notin ChunkId /\ \A u \in Tasks : ~Present(u)
      BY <1>1, <1>2, <3>1, Numbers DEF Present
    <3>3. QED
      BY <1>5, <1>6, <2>1, <3>2 DEF Inv, Unborn
  <2>2. QED
    BY <1>5, <1>6, <2>1, UnbornStays DEF Inv, stored
<1>13. WorkerInv(w)'
  <2>1. CASE worker'[w].pc = "idle"
    BY <2>1, IdleOwesNothing
  <2>2. CASE worker'[w].pc # "idle"
    <3>1. Kinds(w)'
      BY <1>1, <1>7, <2>2 DEF Inv, WorkerInv, Kinds, Resolve
    <3>2. Placed(w)'
      BY <1>1, <1>4, <1>6, <1>7, <2>2 DEF Placed, Looking, Edits, Present, stored
    <3>3. Current(w)' /\ Aware(w)' /\ Prepared(w)'
      BY <1>7, <1>10, <2>2 DEF Current, Aware, Prepared
    <3>4. QED
      BY <3>1, <3>2, <3>3 DEF WorkerInv
  <2>3. QED
    BY <2>1, <2>2
<1>14. QED
  BY <1>8, <1>9, <1>11, <1>12, <1>13, Sole

LEMMA ResolveFailsKeeps ==
  ASSUME Inv, NEW w \in Workers, Calm(w), ResolveFails(w)
  PROVE  Inv'
<1>1. worker' \in [Workers -> Operations] /\ worker'[w].pc = "idle"
  BY EndMoves DEF Inv, ResolveFails
<1>2. TypeOK'
  BY <1>1 DEF ResolveFails, Inv, TypeOK, stored, caches, history
<1>3. Order'
  BY Framed DEF ResolveFails, Inv
<1>4. ReaderInv' /\ Unborn'
  BY DEF ResolveFails, Inv, ReaderInv, Unborn, stored, caches
<1>5. QED
  BY <1>1, <1>2, <1>3, <1>4, IdleOwesNothing, Sole

(* What an operation makes of the header it has, or has not, read. *)
HeaderTaken(w, h) ==
    /\ cachedHeader' = IF h.known THEN h ELSE cachedHeader
    /\ worker' = [worker EXCEPT ![w].header = h, ![w].pc =
           IF h.known THEN "chunk"
           ELSE IF worker[w].op = "delete" THEN "refresh" ELSE "bootstrap"]

(* The header could be read, or is not there. *)
LEMMA HeaderIsSeen ==
  ASSUME Inv, NEW w \in Workers, Calm(w), ReadHeader(w), HeaderTaken(w, HeaderRead)
  PROVE  Inv'
<1> DEFINE t == worker[w].task
           create == worker[w].op = "create"
<1>1. /\ Rested /\ t \in Tasks /\ worker[w].op \in {"create"} \cup Edits
      /\ IF create THEN Absent(t) ELSE Present(t)
      /\ worker[w].pc = "header"
  BY DEF ReadHeader, Inv, WorkerInv, Current, Kinds, Placed, Looking
<1>2. HeaderRead = header /\ header \in Headers
  BY <1>1, RestedReads DEF Inv, TypeOK
<1>3. header.known \/ create
  BY <1>1, PresentIsKnown DEF Inv
<1> DEFINE pc == IF header.known THEN "chunk"
                 ELSE IF worker[w].op = "delete" THEN "refresh" ELSE "bootstrap"
<1>4. worker' = [worker EXCEPT ![w].header = header, ![w].pc = pc]
      /\ cachedHeader' = IF header.known THEN header ELSE cachedHeader
  BY <1>2 DEF HeaderTaken
<1>5. pc = IF header.known THEN "chunk" ELSE "bootstrap"
  BY <1>1, <1>3 DEF Edits
<1>6. pc \in {"chunk", "refresh", "bootstrap"}
  BY <1>5
<1> HIDE DEF pc
<1>7. /\ worker' \in [Workers -> Operations]
      /\ worker'[w].pc = pc /\ worker'[w].header = header
      /\ worker'[w].op = worker[w].op /\ worker'[w].task = t
      /\ worker'[w].value = worker[w].value
  BY <1>2, <1>4, <1>6, HeaderMoves DEF Inv
<1>8. UNCHANGED <<stored, cachedChunk, cachedEntry, reader, ops>> /\ disturbed' \in BOOLEAN
  BY DEF ReadHeader, Calm
<1>9. TypeOK'
  BY <1>2, <1>4, <1>7, <1>8 DEF Inv, TypeOK, stored
<1>10. Order'
  BY <1>8, Framed DEF Inv
<1>11. Rested'
  BY <1>1, <1>4, <1>8, RestedStays
<1>12. ReaderInv'
  BY <1>8 DEF Inv, ReaderInv
<1>13. Unborn'
  BY <1>4, <1>8 DEF Inv, Unborn, stored
<1>14. WorkerInv(w)'
  <2>1. Kinds(w)'
    BY <1>1, <1>5, <1>7 DEF Inv, WorkerInv, Kinds
  <2>2. Current(w)'
    BY <1>11 DEF Current
  <2>3. Placed(w)'
    BY <1>1, <1>5, <1>7, <1>8 DEF Placed, Absent, Present, stored
  <2>4. Aware(w)'
    BY <1>3, <1>5, <1>7, <1>8 DEF Aware, stored
  <2>5. Prepared(w)'
    BY <1>5, <1>7 DEF Prepared
  <2>6. QED
    BY <2>1, <2>2, <2>3, <2>4, <2>5 DEF WorkerInv
<1>15. QED
  BY <1>9, <1>10, <1>12, <1>13, <1>14, Sole

(* A deletion that cannot read it leaves the index alone. *)
LEMMA DeleteSeesNone ==
  ASSUME Inv, NEW w \in Workers, Calm(w), ReadHeader(w), HeaderTaken(w, NoHeader),
         worker[w].op = "delete"
  PROVE  Inv'
<1>1. /\ worker' \in [Workers -> Operations]
      /\ worker'[w].pc = "refresh"
      /\ worker'[w].op = worker[w].op /\ worker'[w].task = worker[w].task
      /\ worker'[w].value = worker[w].value
  <2>1. worker' = [worker EXCEPT ![w].header = NoHeader, ![w].pc = "refresh"]
    BY Blank DEF HeaderTaken
  <2>2. "refresh" \in {"chunk", "refresh", "bootstrap"}
    OBVIOUS
  <2>3. QED
    BY <2>1, <2>2, HeaderMoves, Blank DEF Inv
<1>2. UNCHANGED <<stored, caches, reader, ops>> /\ disturbed' \in BOOLEAN
  BY Blank DEF HeaderTaken, ReadHeader, Calm, caches
<1>3. TypeOK'
  BY <1>1, <1>2 DEF Inv, TypeOK, stored, caches
<1>4. Order'
  BY <1>2, Framed DEF Inv
<1>5. ReaderInv' /\ Unborn'
  BY <1>2 DEF Inv, ReaderInv, Unborn, stored, caches
<1>6. WorkerInv(w)'
  <2>1. worker[w].pc = "header"
    BY DEF ReadHeader
  <2>2. QED
    BY <1>1, <2>1 DEF Inv, WorkerInv, Kinds, Current, Placed, Aware, Prepared, Looking
<1>7. QED
  BY <1>3, <1>4, <1>5, <1>6, Sole

LEMMA HeaderChoice ==
  ASSUME NEW w \in Workers, ReadHeader(w), ~disturbed'
  PROVE  HeaderTaken(w, HeaderRead) \/ (HeaderTaken(w, NoHeader) /\ worker[w].op = "delete")
<1>1. PICK h \in {HeaderRead, NoHeader} :
          /\ HeaderTaken(w, h)
          /\ disturbed' = (disturbed \/ (h # HeaderRead /\ worker[w].op # "delete"))
  BY DEF ReadHeader, HeaderTaken
<1>2. QED
  BY <1>1

LEMMA ReadHeaderKeeps ==
  ASSUME Inv, NEW w \in Workers, Calm(w), ReadHeader(w)
  PROVE  Inv'
BY HeaderChoice, HeaderIsSeen, DeleteSeesNone DEF Calm

LEMMA BootstrapKeeps ==
  ASSUME Inv, NEW w \in Workers, Calm(w), Bootstrap(w)
  PROVE  Inv'
<1> DEFINE t == worker[w].task
<1>1. /\ ~header.known /\ worker[w].op = "create" /\ Rested /\ t \in Tasks /\ Absent(t)
      /\ worker[w].value # None
  BY DEF Bootstrap, Inv, WorkerInv, Aware, Current, Kinds, Placed, Looking
<1>2. /\ header = NoHeader /\ cachedHeader = NoHeader /\ cachedEntry = {} /\ reader.pc = "idle"
      /\ \A c \in ChunkId : cachedChunk[c] \in {NoChunk, Empty}
  BY <1>1 DEF Inv, Unborn
<1>3. /\ worker' = [worker EXCEPT ![w].header = FirstHeader, ![w].pc = "chunk"]
      /\ UNCHANGED <<header, caches, reader, history>>
  BY DEF Bootstrap
<1>4. /\ worker' \in [Workers -> Operations]
      /\ worker'[w].pc = "chunk" /\ worker'[w].header = FirstHeader
      /\ worker'[w].op = worker[w].op /\ worker'[w].task = t
      /\ worker'[w].value = worker[w].value
  BY <1>3, HeaderMoves, Blank DEF Inv
<1>5. /\ chunk' \in [ChunkId -> Content]
      /\ \A c \in ChunkId : chunk'[c] = IF c = 0 THEN Empty ELSE chunk[c]
      /\ chunk'[0] = Empty
  BY Blank, Numbers DEF Bootstrap, Inv, TypeOK
<1>6. TypeOK'
  BY <1>3, <1>4, <1>5 DEF Inv, TypeOK, caches, history
<1>7. Order'
  <2>1. Entries(Empty) = {} /\ Cardinality({}) = 0
    BY Blank, FS_EmptySet DEF Entries
  <2>2. ASSUME NEW c \in ChunkId
        PROVE  Cardinality(Entries(chunk'[c])) <= ChunkSize
    BY <1>5, <2>1, IndexAssumption DEF Inv, Order, ChunksInOrder
  <2>3. ASSUME NEW c \in ChunkId, NEW d \in ChunkId, Entries(chunk'[c]) \cap Entries(chunk'[d]) # {}
        PROVE  c = d
    BY <1>5, <2>1, <2>3 DEF Inv, Order, ChunksInOrder
  <2>4. ChunksInOrder'
    BY <2>2, <2>3 DEF ChunksInOrder, Entries
  <2>5. HeaderInOrder' /\ header'.chunks <= Cardinality(Tasks) + 1
    BY <1>3 DEF Inv, Order, HeaderInOrder, Known
  <2>6. QED
    BY <2>4, <2>5 DEF Order
<1>8. Rested'
  BY <1>1, <1>2, <1>3, <1>5 DEF Rested, caches
<1>9. ReaderInv' /\ Unborn'
  BY <1>3 DEF Inv, ReaderInv, Unborn, caches
<1>10. WorkerInv(w)'
  <2>1. Kinds(w)' /\ Current(w)'
    BY <1>1, <1>4, <1>8 DEF Kinds, Current
  <2>2. header'.chunkOf[t] = Nowhere /\ \A c \in ChunkId : chunk'[c][t] = None
    BY <1>1, <1>3, <1>5, Blank DEF Absent
  <2>3. Placed(w)'
    BY <1>1, <1>4, <2>2 DEF Placed, Absent
  <2>4. Aware(w)' /\ Prepared(w)'
    BY <1>1, <1>3, <1>4, <1>5 DEF Aware, Prepared
  <2>5. QED
    BY <2>1, <2>3, <2>4 DEF WorkerInv
<1>11. QED
  BY <1>6, <1>7, <1>9, <1>10, Sole

(* The header a worker goes by, before its change. *)
LEMMA SameIndex ==
  ASSUME Inv, NEW w \in Workers, worker[w].pc \in {"chunk", "write", "book"}
  PROVE  /\ worker[w].header \in Headers /\ worker[w].header.known
         /\ worker[w].header.chunkOf = header.chunkOf
         /\ worker[w].header.count = header.count
         /\ header.chunks <= worker[w].header.chunks
         /\ worker[w].header.chunks <= Cardinality(Tasks) + 1
         /\ header.known => worker[w].header = header
         /\ ~header.known => worker[w].op = "create" /\ worker[w].header.chunks = 1
<1>1. Aware(w) /\ header \in Headers /\ header.chunks <= Cardinality(Tasks) + 1
  BY DEF Inv, WorkerInv, Order, TypeOK
<1>2. ~header.known => header = NoHeader
  BY DEF Inv, Unborn
<1>3. CASE header.known
  BY <1>1, <1>3 DEF Aware, Headers
<1>4. CASE ~header.known
  BY <1>1, <1>2, <1>4, Blank, Numbers DEF Aware
<1>5. QED
  BY <1>3, <1>4

(* A chunk is read as the stored one, and prepared. *)
ChunkTaken(w, lost) ==
    LET h == worker[w].header
        t == worker[w].task
        c == Target(h, t, lost)
        content == IF c < h.chunks THEN Seen(c, lost) ELSE Empty IN
    /\ \A d \in lost : ChunkRead(d) = Empty
    /\ CacheChunks(Tried(h, t, c) \ lost)
    /\ worker' = [worker EXCEPT ![w].pc = "write", ![w].at = c,
                                ![w].chunk = [content EXCEPT ![t] = worker[w].value]]

(* What cannot be read is empty anyway, when nothing is disturbed. *)
LEMMA ChunkChoice ==
  ASSUME NEW w \in Workers, ReadChunk(w), ~disturbed'
  PROVE  \E lost \in SUBSET ChunkId : ChunkTaken(w, lost)
<1>1. PICK lost \in Unreadable(worker[w].header) : ChunkTaken(w, lost)
  BY DEF ReadChunk, ChunkTaken
<1>2. QED
  BY <1>1 DEF Unreadable

LEMMA ReadChunkKeeps ==
  ASSUME Inv, NEW w \in Workers, Calm(w), ReadChunk(w)
  PROVE  Inv'
<1> SUFFICES ASSUME NEW lost \in SUBSET ChunkId, ChunkTaken(w, lost)
             PROVE  Inv'
  BY ChunkChoice DEF Calm
<1> DEFINE h == worker[w].header
           t == worker[w].task
           v == worker[w].value
           c == Target(h, t, lost)
           tried == Tried(h, t, c) \ lost
           content == IF c < h.chunks THEN Seen(c, lost) ELSE Empty
<1>1. /\ Rested /\ t \in Tasks /\ worker[w].op \in {"create"} \cup Edits
      /\ IF worker[w].op = "create" THEN Absent(t) ELSE Present(t)
      /\ worker[w].pc = "chunk" /\ v \in Values \cup {None} /\ (v = None <=> worker[w].op = "delete")
  BY DEF ReadChunk, Inv, WorkerInv, Current, Kinds, Placed, Looking, TypeOK, Operations
<1>2. /\ h \in Headers /\ h.known /\ h.chunkOf = header.chunkOf
      /\ header.chunks <= h.chunks /\ h.chunks <= Cardinality(Tasks) + 1
      /\ header.known => h = header
      /\ ~header.known => worker[w].op = "create" /\ h.chunks = 1
  BY <1>1, SameIndex
<1>3. /\ HeaderRead = header /\ \A d \in ChunkId : ChunkRead(d) = chunk[d]
      /\ \A d \in ChunkId : Seen(d, lost) = chunk[d]
  BY <1>1, RestedReads DEF Seen, ChunkTaken
<1>4. h.chunks \in Nat /\ header.chunks \in Nat /\ h.chunkOf[t] \in ChunkId \cup {Nowhere}
  BY <1>1, <1>2 DEF Headers, Inv, TypeOK
<1>5. h.chunkOf[t] # Nowhere => h.chunkOf[t] < h.chunks
  BY <1>1, <1>2, <1>4, Numbers DEF Inv, Order, HeaderInOrder, Known
<1>6. /\ c \in ChunkId /\ c <= h.chunks
      /\ h.chunkOf[t] # Nowhere => c = h.chunkOf[t] /\ c < h.chunks
      /\ h.chunkOf[t] = Nowhere /\ c < h.chunks => ~Full(chunk[c])
  BY <1>1, <1>2, <1>3, <1>5, TargetFits DEF Inv, Order
<1>7. worker[w].op \in Edits => h.chunkOf[t] # Nowhere
  BY <1>1, <1>2 DEF Present, Edits
<1>8. /\ CacheChunks(tried)
      /\ worker' = [worker EXCEPT ![w].pc = "write", ![w].at = c,
                                  ![w].chunk = [content EXCEPT ![t] = v]]
      /\ UNCHANGED <<stored, cachedHeader, cachedEntry, reader, ops>> /\ disturbed' \in BOOLEAN
  BY DEF ReadChunk, ChunkTaken, Calm
<1>9. content \in Content /\ content = IF c < h.chunks THEN chunk[c] ELSE Empty
  BY <1>3, <1>6, Blank DEF Inv, TypeOK
<1>10. tried \in SUBSET ChunkId /\ (~header.known => tried \subseteq {0})
  BY <1>1, <1>2, <1>4, <1>6, <1>7, Numbers, Blank DEF Absent, Edits, Tried
<1> DEFINE e == [content EXCEPT ![t] = v]
<1> HIDE DEF c, tried, content
<1>11. /\ e \in Content /\ e[t] = v /\ \A u \in Tasks \ {t} : e[u] = content[u]
       /\ v = None => Entries(e) = Entries(content) \ {t}
       /\ v # None => Entries(e) = Entries(content) \cup {t}
  BY <1>1, <1>9 DEF Content, Entries
<1>12. worker' = [worker EXCEPT ![w].pc = "write", ![w].at = c, ![w].chunk = e]
  BY <1>8
<1> HIDE DEF e
<1>13. /\ worker' \in [Workers -> Operations]
       /\ worker'[w].pc = "write" /\ worker'[w].at = c
       /\ worker'[w].chunk = e
       /\ worker'[w].op = worker[w].op /\ worker'[w].task = t
       /\ worker'[w].value = v /\ worker'[w].header = h
  <2> DEFINE q == [worker[w] EXCEPT !.pc = "write", !.at = c, !.chunk = e]
  <2>1. worker[w] \in Operations /\ worker \in [Workers -> Operations]
    BY DEF Inv, TypeOK
  <2>2. /\ q \in Operations /\ q.pc = "write" /\ q.at = c /\ q.chunk = e /\ q.op = worker[w].op
        /\ q.task = t /\ q.value = v /\ q.header = h
    BY <1>6, <1>11, <2>1 DEF Operations
  <2>3. worker' = [worker EXCEPT ![w] = q]
    BY <1>12, <2>1
  <2> HIDE DEF q
  <2>4. worker' \in [Workers -> Operations] /\ worker'[w] = q
    BY <2>1, <2>2, <2>3
  <2>5. QED
    BY <2>2, <2>4
<1>14. /\ cachedChunk' \in [ChunkId -> Content \cup {NoChunk}]
       /\ \A d \in ChunkId : cachedChunk'[d] = IF d \in tried THEN ChunkRead(d) ELSE cachedChunk[d]
  BY <1>8, <1>10, CachedTypes DEF Inv
<1>15. TypeOK'
  BY <1>8, <1>13, <1>14 DEF Inv, TypeOK, stored
<1>16. Order'
  BY <1>8, Framed DEF Inv
<1>17. ReaderInv'
  BY <1>8 DEF Inv, ReaderInv
<1>18. Unborn'
  <2>1. ASSUME ~header.known, NEW d \in ChunkId
        PROVE  cachedChunk'[d] \in {cachedChunk[d], Empty, NoChunk}
    <3>1. chunk[0] = Empty
      BY <1>1, <2>1 DEF Inv, WorkerInv, Aware
    <3>2. QED
      BY <1>3, <1>10, <1>14, <2>1, <3>1
  <2>2. ~header.known => reader'.pc = "idle" /\ cachedHeader' = cachedHeader /\ cachedEntry' = cachedEntry
    BY <1>8 DEF Inv, Unborn
  <2>3. QED
    BY <1>8, <2>1, <2>2, UnbornStays DEF Inv, stored
<1>19. Rested'
  <2>1. \A d \in ChunkId : cachedChunk'[d] \in {cachedChunk[d], chunk[d], NoChunk}
    BY <1>3, <1>14
  <2>2. QED
    BY <1>1, <1>8, <2>1, RestedStays
<1>20. Prepared(w)'
  <2>1. /\ IsFiniteSet(Entries(content)) /\ Cardinality(Entries(content)) \in Nat
        /\ IsFiniteSet(Entries(e)) /\ Cardinality(Entries(e)) \in Nat
    BY Small
  <2>2. Cardinality(Entries(content)) <= ChunkSize
    <3>1. CASE c < h.chunks
      BY <1>6, <1>9, <3>1 DEF Inv, Order, ChunksInOrder
    <3>2. CASE ~(c < h.chunks)
      <4>1. Entries(content) = {}
        BY <1>9, <3>2, Blank DEF Entries
      <4>2. QED
        BY <4>1, FS_EmptySet, IndexAssumption
    <3>3. QED
      BY <3>1, <3>2
  <2>3. Cardinality(Entries(e)) <= ChunkSize
    <3>1. CASE v = None
      <4>1. Entries(e) \in SUBSET Entries(content)
        BY <1>11, <3>1
      <4>2. Cardinality(Entries(e)) <= Cardinality(Entries(content))
        BY <2>1, <4>1, FS_Subset
      <4>3. QED
        BY <2>1, <2>2, <4>2, IndexAssumption
    <3>2. CASE worker[w].op = "update"
      <4>1. /\ c < h.chunks /\ c = header.chunkOf[t]
        BY <1>2, <1>6, <1>7, <3>2 DEF Edits
      <4>2. content[t] # None
        BY <1>1, <1>9, <3>2, <4>1 DEF Present
      <4>3. Entries(e) = Entries(content)
        BY <1>1, <1>11, <3>2, <4>2 DEF Entries
      <4>4. QED
        BY <2>2, <4>3
    <3>3. CASE worker[w].op = "create"
      <4>1. h.chunkOf[t] = Nowhere
        BY <1>1, <1>2, <3>3 DEF Absent
      <4>2. ~Full(content)
        <5>1. CASE c < h.chunks
          BY <1>6, <1>9, <4>1, <5>1
        <5>2. CASE ~(c < h.chunks)
          BY <1>9, <5>2, Blank, Small DEF Entries
        <5>3. QED
          BY <5>1, <5>2
      <4>3. Cardinality(Entries(content)) < ChunkSize
        BY <2>1, <4>2, IndexAssumption DEF Full
      <4>4. Entries(e) = Entries(content) \cup {t}
        BY <1>1, <1>11, <3>3
      <4>5. Cardinality(Entries(e)) = IF t \in Entries(content) THEN Cardinality(Entries(content))
                                      ELSE Cardinality(Entries(content)) + 1
        BY <2>1, <4>4, FS_AddElement
      <4>6. QED
        BY <2>1, <4>3, <4>5, IndexAssumption
    <3>4. QED
      BY <1>1, <3>1, <3>2, <3>3 DEF Edits
  <2>4. worker[w].op \in Edits => c = header.chunkOf[t]
    BY <1>2, <1>6, <1>7
  <2>5. \A u \in Tasks \ {t} : e[u] = IF c < h.chunks THEN chunk[c][u] ELSE None
    BY <1>9, <1>11, Blank
  <2>6. UNCHANGED <<header, chunk>>
    BY <1>8 DEF stored
  <2>7. QED
    BY <1>6, <1>13, <1>11, <2>3, <2>4, <2>5, <2>6 DEF Prepared, Entries
<1>21. WorkerInv(w)'
  <2>1. Kinds(w)' /\ Current(w)'
    BY <1>1, <1>13, <1>19 DEF Kinds, Current
  <2>2. Placed(w)'
    BY <1>1, <1>8, <1>13 DEF Placed, Absent, Present, stored
  <2>3. Aware(w)'
    BY <1>1, <1>8, <1>13 DEF Inv, WorkerInv, Aware, stored
  <2>4. QED
    BY <1>20, <2>1, <2>2, <2>3 DEF WorkerInv
<1>22. QED
  BY <1>15, <1>16, <1>17, <1>18, <1>21, Sole

------------------------------------------------------------------------

LEMMA NothingToDeleteKeeps ==
  ASSUME Inv, NEW w \in Workers, Calm(w), NothingToDelete(w)
  PROVE  Inv'
<1>1. /\ worker' \in [Workers -> Operations] /\ worker'[w].pc = "refresh"
      /\ worker'[w].op = worker[w].op /\ worker'[w].task = worker[w].task
      /\ worker'[w].value = worker[w].value
  BY GotoMoves DEF Inv, NothingToDelete
<1>2. TypeOK'
  BY <1>1 DEF NothingToDelete, Inv, TypeOK, stored, caches, history
<1>3. Order'
  BY Framed DEF NothingToDelete, Inv
<1>4. ReaderInv' /\ Unborn'
  BY DEF NothingToDelete, Inv, ReaderInv, Unborn, stored, caches
<1>5. WorkerInv(w)'
  BY <1>1 DEF NothingToDelete, Inv, WorkerInv, Kinds, Current, Placed, Aware, Prepared, Looking
<1>6. QED
  BY <1>1, <1>2, <1>3, <1>4, <1>5, Sole

-----------------------------------------------------------------------------
(* The steps that change header or chunks. *)

LEMMA WriteChunkKeeps ==
  ASSUME Inv, NEW w \in Workers, Calm(w), WriteChunk(w)
  PROVE  Inv'
<1> DEFINE h == worker[w].header
           t == worker[w].task
           v == worker[w].value
           c == worker[w].at
           e == worker[w].chunk
<1>1. /\ t \in Tasks /\ worker[w].op \in {"create"} \cup Edits /\ worker[w].pc = "write"
      /\ IF worker[w].op = "create" THEN Absent(t) ELSE Present(t)
      /\ e \in Content
  BY DEF WriteChunk, Inv, WorkerInv, Kinds, Placed, Looking, TypeOK, Operations
<1>2. /\ c \in ChunkId /\ c <= h.chunks
      /\ worker[w].op \in Edits => c = header.chunkOf[t]
      /\ e[t] = v
      /\ \A u \in Tasks \ {t} : e[u] = IF c < h.chunks THEN chunk[c][u] ELSE None
      /\ Cardinality(Entries(e)) <= ChunkSize
  BY <1>1 DEF Inv, WorkerInv, Prepared
<1>3. /\ worker' \in [Workers -> Operations]
      /\ worker'[w].pc = "book" /\ worker'[w].op = worker[w].op
      /\ worker'[w].task = t /\ worker'[w].value = v
      /\ worker'[w].header = h /\ worker'[w].at = c
  BY GotoMoves DEF Inv, WriteChunk
<1>4. UNCHANGED <<header, caches, reader, history>>
  BY DEF WriteChunk
<1>5. /\ chunk' \in [ChunkId -> Content] /\ chunk'[c] = e
      /\ \A d \in ChunkId : chunk'[d] = IF d = c THEN e ELSE chunk[d]
  BY <1>1, <1>2 DEF WriteChunk, Inv, TypeOK
<1>6. TypeOK'
  BY <1>3, <1>4, <1>5 DEF Inv, TypeOK, caches, history
<1>7. Order'
  <2>1. \A d \in ChunkId : Cardinality(Entries(chunk'[d])) <= ChunkSize
    BY <1>2, <1>5 DEF Inv, Order, ChunksInOrder
  <2>2. ASSUME NEW u \in Tasks, NEW d \in ChunkId, u \in Entries(e), u \in Entries(chunk[d])
        PROVE  d = c
    <3>1. CASE u # t
      <4>1. u \in Entries(chunk[c])
        BY <1>2, <2>2, <3>1 DEF Entries
      <4>2. QED
        BY <1>2, <2>2, <4>1 DEF Inv, Order, ChunksInOrder
    <3>2. CASE u = t
      <4>1. worker[w].op \in Edits
        BY <1>1, <2>2, <3>2 DEF Absent, Entries
      <4>2. u \in Entries(chunk[c])
        BY <1>1, <1>2, <3>2, <4>1 DEF Present, Entries, Edits
      <4>3. QED
        BY <1>2, <2>2, <4>2 DEF Inv, Order, ChunksInOrder
    <3>3. QED
      BY <3>1, <3>2
  <2>3. ASSUME NEW d1 \in ChunkId, NEW d2 \in ChunkId,
               Entries(chunk'[d1]) \cap Entries(chunk'[d2]) # {}
        PROVE  d1 = d2
    <3>1. PICK u \in Tasks : u \in Entries(chunk'[d1]) /\ u \in Entries(chunk'[d2])
      BY <2>3 DEF Entries
    <3>2. CASE d1 = c
      BY <1>5, <2>2, <3>1, <3>2
    <3>3. CASE d2 = c
      BY <1>5, <2>2, <3>1, <3>3
    <3>4. CASE d1 # c /\ d2 # c
      BY <1>5, <2>3, <3>4 DEF Inv, Order, ChunksInOrder
    <3>5. QED
      BY <3>2, <3>3, <3>4
  <2>4. ChunksInOrder'
    BY <2>1, <2>3 DEF ChunksInOrder, Entries
  <2>5. HeaderInOrder' /\ header'.chunks <= Cardinality(Tasks) + 1
    BY <1>4 DEF Inv, Order, HeaderInOrder, Known
  <2>6. QED
    BY <2>4, <2>5 DEF Order
<1>8. ReaderInv' /\ Unborn'
  BY <1>4 DEF Inv, ReaderInv, Unborn, caches
<1>9. WorkerInv(w)'
  <2>1. Kinds(w)' /\ Current(w)'
    BY <1>1, <1>3 DEF Inv, WorkerInv, Kinds, Current, Looking
  <2>2. header'.chunkOf[t] = IF worker[w].op = "create" THEN Nowhere ELSE c
    BY <1>1, <1>2, <1>4 DEF Absent, Edits
  <2>3. Placed(w)'
    BY <1>3, <2>2 DEF Placed, Looking
  <2>4. Aware(w)' /\ Prepared(w)'
    BY <1>1, <1>2, <1>3, <1>4, <1>5 DEF Inv, WorkerInv, Aware, Prepared
  <2>5. QED
    BY <2>1, <2>3, <2>4 DEF WorkerInv
<1>10. QED
  BY <1>6, <1>7, <1>8, <1>9, Sole

(* What the new header says. *)
LEMMA BookedHeader ==
  ASSUME Inv, NEW w \in Workers, worker[w].pc = "book"
  PROVE  /\ Booked(w) \in Headers /\ Booked(w).known
         /\ worker[w].op = "create" =>
                /\ Booked(w).chunkOf[worker[w].task] = worker[w].at
                /\ Booked(w).count = header.count + 1
                /\ worker[w].at < Booked(w).chunks
         /\ worker[w].op = "update" => Booked(w) = header
         /\ worker[w].op = "delete" =>
                /\ Booked(w).chunkOf[worker[w].task] = Nowhere
                /\ Booked(w).count = IF header.count = 0 THEN 0 ELSE header.count - 1
         /\ \A u \in Tasks \ {worker[w].task} : Booked(w).chunkOf[u] = header.chunkOf[u]
         /\ header.chunks <= Booked(w).chunks
         /\ Booked(w).chunks <= Cardinality(Tasks) + 1
<1> DEFINE h == worker[w].header
           t == worker[w].task
           c == worker[w].at
<1>1. /\ h \in Headers /\ h.known /\ h.chunkOf = header.chunkOf /\ h.count = header.count
      /\ header.chunks <= h.chunks /\ h.chunks <= Cardinality(Tasks) + 1
      /\ header.known => h = header
      /\ ~header.known => worker[w].op = "create"
  BY SameIndex
<1>2. /\ t \in Tasks /\ worker[w].op \in {"create"} \cup Edits /\ c \in ChunkId /\ c <= h.chunks
      /\ header.chunkOf[t] = IF worker[w].op = "create" THEN Nowhere ELSE c
  BY DEF Inv, WorkerInv, Kinds, Placed, Prepared
<1>3. /\ h.chunkOf \in [Tasks -> ChunkId \cup {Nowhere}] /\ h.count \in Nat /\ h.chunks \in Nat
      /\ header.chunks \in Nat /\ h.known \in BOOLEAN
  BY <1>1 DEF Headers, Inv, TypeOK
<1> HIDE DEF h, t, c
<1>4. CASE worker[w].op = "create"
  <2> DEFINE n == IF c = h.chunks THEN h.chunks + 1 ELSE h.chunks
             k == h.count + 1
             m == [h.chunkOf EXCEPT ![t] = c]
  <2>1. n \in Nat /\ k \in Nat /\ c < n /\ h.chunks <= n /\ n <= Cardinality(Tasks) + 1
    BY <1>1, <1>2, <1>3, Numbers
  <2>2. m \in [Tasks -> ChunkId \cup {Nowhere}] /\ m[t] = c /\ \A u \in Tasks \ {t} : m[u] = h.chunkOf[u]
    BY <1>2, <1>3
  <2> HIDE DEF n, k, m
  <2> DEFINE b == [h EXCEPT !.chunkOf = m, !.count = k, !.chunks = n]
  <2>3. Booked(w) = b
    BY <1>1, <1>2, <1>3, <1>4 DEF Booked, m, k, n, h, t, c, Headers
  <2>4. b \in Headers /\ b.known = h.known /\ b.chunkOf = m /\ b.count = k /\ b.chunks = n
    <3>1. h \in Headers
      BY <1>1
    <3>2. QED
      BY <2>1, <2>2, <3>1 DEF Headers
  <2> HIDE DEF b
  <2>5. QED
    BY <1>1, <1>3, <1>4, <2>1, <2>2, <2>3, <2>4, Numbers DEF k, h, t, c
<1>5. CASE worker[w].op = "update"
  <2>1. Booked(w) = h /\ h = header
    BY <1>1, <1>2, <1>5, Numbers DEF Booked, h, t, c, Edits
  <2>2. QED
    BY <1>1, <1>3, <1>5, <2>1 DEF h, t, c
<1>6. CASE worker[w].op = "delete"
  <2> DEFINE n == IF h.count = 0 THEN 0 ELSE h.count - 1
             m == [h.chunkOf EXCEPT ![t] = Nowhere]
  <2>1. n \in Nat
    BY <1>3
  <2>2. m \in [Tasks -> ChunkId \cup {Nowhere}] /\ m[t] = Nowhere /\ \A u \in Tasks \ {t} : m[u] = h.chunkOf[u]
    BY <1>2, <1>3
  <2> HIDE DEF n, m
  <2>3. Booked(w) = [h EXCEPT !.chunkOf = m, !.count = n]
    BY <1>1, <1>2, <1>3, <1>6 DEF Booked, m, n, h, t, c, Headers
  <2>4. /\ Booked(w) \in Headers /\ Booked(w).known = h.known /\ Booked(w).chunkOf = m
        /\ Booked(w).count = n /\ Booked(w).chunks = h.chunks
    BY <1>1, <1>3, <2>1, <2>2, <2>3 DEF Headers
  <2>5. QED
    BY <1>1, <1>6, <2>2, <2>4 DEF n, h, t, c
<1>7. QED
  BY <1>2, <1>4, <1>5, <1>6 DEF Edits

LEMMA WriteHeaderKeeps ==
  ASSUME Inv, NEW w \in Workers, Calm(w), WriteHeader(w)
  PROVE  Inv'
<1> DEFINE t == worker[w].task
           c == worker[w].at
<1>1. /\ t \in Tasks /\ worker[w].op \in {"create"} \cup Edits /\ worker[w].pc = "book"
      /\ c \in ChunkId
      /\ header.chunkOf[t] = IF worker[w].op = "create" THEN Nowhere ELSE c
  BY DEF WriteHeader, Inv, WorkerInv, Kinds, Placed, Prepared
<1>2. /\ header' \in Headers /\ header'.known
      /\ worker[w].op = "create" =>
             header'.chunkOf[t] = c /\ header'.count = header.count + 1 /\ c < header'.chunks
      /\ worker[w].op = "update" => header' = header
      /\ worker[w].op = "delete" =>
             /\ header'.chunkOf[t] = Nowhere
             /\ header'.count = IF header.count = 0 THEN 0 ELSE header.count - 1
      /\ \A u \in Tasks \ {t} : header'.chunkOf[u] = header.chunkOf[u]
      /\ header.chunks <= header'.chunks /\ header'.chunks <= Cardinality(Tasks) + 1
  BY <1>1, BookedHeader DEF WriteHeader
<1>3. /\ worker' \in [Workers -> Operations]
      /\ worker'[w].pc = "refresh" /\ worker'[w].op = worker[w].op
      /\ worker'[w].task = t /\ worker'[w].value = worker[w].value
  BY GotoMoves DEF Inv, WriteHeader
<1>4. UNCHANGED <<chunk, caches, reader, history>>
  BY DEF WriteHeader
<1>5. TypeOK'
  BY <1>2, <1>3, <1>4 DEF Inv, TypeOK, caches, history
<1>6. IsFiniteSet(Known) /\ Cardinality(Known) \in Nat /\ header.count = Cardinality(Known)
  BY FS_Subset, FS_CardinalityType, IndexAssumption DEF Known, Inv, Order, HeaderInOrder
<1>7. header.chunks \in Nat /\ header'.chunks \in Nat /\ \A u \in Known : header.chunkOf[u] \in Nat
  BY <1>2, Numbers DEF Inv, TypeOK, Headers, Known
<1>8. \A u \in Known : header.chunkOf[u] < header.chunks
  BY DEF Inv, Order, HeaderInOrder
<1>9. HeaderInOrder'
  <2>1. CASE worker[w].op = "create"
    <3>1. Known' = Known \cup {t} /\ t \notin Known
      BY <1>1, <1>2, <2>1, Numbers DEF Known
    <3>2. Cardinality(Known') = Cardinality(Known) + 1
      BY <1>6, <3>1, FS_AddElement
    <3>3. \A u \in Known' : header'.chunkOf[u] < header'.chunks
      BY <1>1, <1>2, <1>7, <1>8, <2>1, <3>1 DEF Known
    <3>4. QED
      BY <1>2, <1>6, <2>1, <3>2, <3>3 DEF HeaderInOrder
  <2>2. CASE worker[w].op = "update"
    BY <1>2, <2>2 DEF Inv, Order, HeaderInOrder, Known
  <2>3. CASE worker[w].op = "delete"
    <3>1. Known' = Known \ {t} /\ t \in Known
      BY <1>1, <1>2, <2>3, Numbers DEF Known
    <3>2. Cardinality(Known') = Cardinality(Known) - 1
      BY <1>6, <3>1, FS_RemoveElement
    <3>3. Cardinality(Known) # 0
      BY <1>6, <3>1, FS_EmptySet
    <3>4. \A u \in Known' : header'.chunkOf[u] < header'.chunks
      BY <1>2, <1>7, <1>8, <3>1 DEF Known
    <3>5. QED
      BY <1>2, <1>6, <2>3, <3>2, <3>3, <3>4 DEF HeaderInOrder
  <2>4. QED
    BY <1>1, <2>1, <2>2, <2>3 DEF Edits
<1>10. Order'
  BY <1>2, <1>4, <1>9 DEF Inv, Order, ChunksInOrder, Entries
<1>11. ReaderInv' /\ Unborn'
  BY <1>2, <1>4 DEF Inv, ReaderInv, Unborn
<1>12. WorkerInv(w)'
  BY <1>1, <1>3 DEF Inv, WorkerInv, Kinds, Current, Placed, Aware, Prepared, Looking
<1>13. QED
  BY <1>5, <1>10, <1>11, <1>12, Sole

-----------------------------------------------------------------------------
(* The invariant. *)

LEMMA InitHolds == Init => Inv
<1> SUFFICES ASSUME Init PROVE Inv
  OBVIOUS
<1>1. TypeOK
  <2>1. disturbed \in BOOLEAN
    BY DEF Init
  <2>2. QED
    BY <2>1, Blank, Numbers, IndexAssumption DEF Init, TypeOK, Operations, Readings, Idle,
       NotReading
<1>2. ChunksInOrder
  BY FS_EmptySet, Blank, IndexAssumption DEF Init, ChunksInOrder, Entries
<1>3. HeaderInOrder /\ header.chunks <= Cardinality(Tasks) + 1
  <2>1. Known = {}
    BY Blank DEF Init, Known
  <2>2. QED
    BY <2>1, FS_EmptySet, Blank, Numbers DEF Init, HeaderInOrder
<1>4. ReaderInv /\ Unborn /\ Solo
  BY DEF Init, ReaderInv, Unborn, NotReading, Solo, Idle
<1>5. ASSUME NEW w \in Workers
      PROVE  WorkerInv(w)
  <2>1. worker[w].pc = "idle"
    BY DEF Init, Idle
  <2>2. QED
    BY <2>1 DEF WorkerInv, Kinds, Current, Placed, Aware, Prepared, Looking
<1>6. QED
  BY <1>1, <1>2, <1>3, <1>4, <1>5 DEF Inv, Order

LEMMA CreateTaskKeeps ==
  ASSUME Inv, NEW w \in Workers, Calm(w), NEW t \in Tasks, NEW v \in Values, CreateTask(w, t, v)
  PROVE  Inv'
BY BeginKeeps, IndexAssumption DEF CreateTask, Absent

LEMMA UpdateTaskKeeps ==
  ASSUME Inv, NEW w \in Workers, Calm(w), NEW t \in Tasks, NEW v \in Values, UpdateTask(w, t, v)
  PROVE  Inv'
BY BeginKeeps, IndexAssumption DEF UpdateTask

LEMMA DeleteTaskKeeps ==
  ASSUME Inv, NEW w \in Workers, Calm(w), NEW t \in Tasks, DeleteTask(w, t)
  PROVE  Inv'
BY BeginKeeps, IndexAssumption DEF DeleteTask

(* A step of an operation that disturbs nothing is the only one's. *)
LEMMA CalmStep ==
  ASSUME Inv, NEW w \in Workers, Step(w), ~disturbed'
  PROVE  Calm(w)
<1>1. \A u \in Workers \ {w} : worker'[u] = worker[u]
  BY DEF Inv, TypeOK, Step, CreateTask, UpdateTask, DeleteTask, Begin, Resolve, ResolveFails,
     ReadHeader, Bootstrap, ReadChunk, NothingToDelete, WriteChunk, WriteHeader, Refresh,
     FailWrite, Goto, End
<1>2. worker[w].pc # "idle" \/ \A u \in Workers : worker[u].pc = "idle"
  BY DEF Step, CreateTask, UpdateTask, DeleteTask, Begin, Resolve, ResolveFails, ReadHeader,
     Bootstrap, ReadChunk, NothingToDelete, WriteChunk, WriteHeader, Refresh, FailWrite
<1>3. \A u \in Workers \ {w} : worker[u].pc = "idle"
  BY <1>2 DEF Inv, Solo
<1>4. QED
  BY <1>1, <1>3 DEF Calm, Alone

LEMMA StepKeeps ==
  ASSUME Inv, [Next]_vars, ~disturbed'
  PROVE  Inv'
<1>1. ASSUME NEW w \in Workers, Step(w)
      PROVE  Inv'
  BY <1>1, CalmStep, CreateTaskKeeps, UpdateTaskKeeps, DeleteTaskKeeps, ResolveKeeps,
     ResolveFailsKeeps, ReadHeaderKeeps, BootstrapKeeps, ReadChunkKeeps, NothingToDeleteKeeps,
     WriteChunkKeeps, WriteHeaderKeeps, RefreshKeeps, FailWriteKeeps DEF Step
<1>2. CASE UNCHANGED vars
  <2>1. UNCHANGED <<stored, worker>> /\ TypeOK' /\ ReaderInv' /\ Unborn'
    BY <1>2 DEF vars, caches, stored, history, Inv, TypeOK, ReaderInv, Unborn
  <2>2. Rested => Rested'
    BY <1>2 DEF vars, caches, stored, Rested
  <2>3. QED
    BY <2>1, <2>2, ReaderFrame
<1>3. QED
  BY <1>1, <1>2, StartListKeeps, FillListKeeps, ExpireCopyKeeps DEF Next

(* What was disturbed stays so. *)
LEMMA DisturbedStays == [Next]_vars /\ disturbed => disturbed'
  BY DEF Next, Step, CreateTask, UpdateTask, DeleteTask, Begin, Resolve, ResolveFails,
     ReadHeader, Bootstrap, ReadChunk, NothingToDelete, WriteChunk, WriteHeader, Refresh,
     FailWrite, StartList, FillList, ExpireCopy, history, vars

(* Until the first disturbance the index is in order, whichever writes fail   *)
(* and whenever lists are read and copies expire: chunks stay within their    *)
(* size, no task is in two of them, the header points at chunks it counts,    *)
(* and its total is right.                                                    *)
THEOREM OrderIsKept == Spec => []IndexInOrder
<1> DEFINE Good == disturbed \/ Inv
<1>1. Good => IndexInOrder
  BY DEF Inv, Order, IndexInOrder
<1>2. Good /\ [Next]_vars => Good'
  BY StepKeeps, DisturbedStays
<1>3. Init => Good
  BY InitHolds
<1>4. QED
  BY <1>1, <1>2, <1>3, PTL DEF Spec

-----------------------------------------------------------------------------
(* Header and chunks implement the map of TaskMap, step by step: the change    *)
(* takes effect when an edited chunk is written, or, of a new task, when the   *)
(* header is.                                                                  *)

Shown == [t \in Tasks |-> EntryOf(t)]
RequestOf(w) == [op |-> worker[w].op, task |-> worker[w].task, value |-> worker[w].value]
Pending(w) == IF worker[w].pc = "idle" THEN {} ELSE {RequestOf(w)}

LEMMA SolePending ==
  ASSUME NEW w \in Workers, Calm(w)
  PROVE  Asked = Pending(w) /\ Asked' = Pending(w)'
<1>1. \A u \in Workers : u = w \/ (worker[u].pc = "idle" /\ worker'[u].pc = "idle")
  BY DEF Calm, Alone
<1>2. QED
  BY <1>1 DEF Asked, Pending, RequestOf

LEMMA RequestType ==
  ASSUME Inv, NEW w \in Workers, worker[w].pc # "idle"
  PROVE  /\ RequestOf(w) \in Map!Requests /\ RequestOf(w).op = worker[w].op
         /\ RequestOf(w).task = worker[w].task /\ RequestOf(w).value = worker[w].value
BY DEF Inv, WorkerInv, Kinds, Edits, TypeOK, Operations, RequestOf, Map!Requests

LEMMA SameShown ==
  ASSUME \A t \in Tasks : EntryOf(t)' = EntryOf(t)
  PROVE  Shown' = Shown
BY DEF Shown

LEMMA StoredShown ==
  ASSUME UNCHANGED stored
  PROVE  Shown' = Shown
BY DEF stored, EntryOf, Shown

(* Going on, an operation stays asked for. *)
LEMMA GoesOn ==
  ASSUME NEW w \in Workers, Calm(w), worker[w].pc # "idle", worker'[w].pc # "idle",
         worker'[w].op = worker[w].op, worker'[w].task = worker[w].task,
         worker'[w].value = worker[w].value
  PROVE  Asked' = Asked /\ Asked = {RequestOf(w)}
<1>1. Pending(w) = {RequestOf(w)} /\ Pending(w)' = {RequestOf(w)}
  BY DEF Pending, RequestOf
<1>2. QED
  BY <1>1, SolePending

(* Ending, it has its answer. *)
LEMMA EndAnswers ==
  ASSUME Inv, NEW w \in Workers, Calm(w), worker[w].pc # "idle", worker'[w].pc = "idle",
         UNCHANGED stored
  PROVE  Map!Next
<1>1. Pending(w) = {RequestOf(w)} /\ Pending(w)' = {}
  BY DEF Pending
<1>2. Asked = {RequestOf(w)} /\ Asked' = {}
  BY <1>1, SolePending
<1>3. Map!Answer(RequestOf(w))
  BY <1>2, StoredShown DEF Map!Answer, Shown
<1>4. QED
  BY <1>3, RequestType DEF Map!Next

LEMMA BeginAsks ==
  ASSUME Inv, NEW w \in Workers, Calm(w), NEW op \in {"create", "update", "delete"},
         NEW t \in Tasks, NEW v \in Values \cup {None}, Begin(w, op, t, v)
  PROVE  Map!Next
<1>1. /\ worker[w].pc = "idle" /\ worker'[w].pc # "idle" /\ UNCHANGED stored
      /\ worker'[w].op = op /\ worker'[w].task = t /\ worker'[w].value = v
  <2>1. /\ worker'[w].pc = IF op = "create" THEN "header" ELSE "resolve"
        /\ worker'[w].op = op /\ worker'[w].task = t /\ worker'[w].value = v
    BY BeginMoves DEF Inv
  <2>2. QED
    BY <2>1 DEF Begin
<1> DEFINE r == [op |-> op, task |-> t, value |-> v]
<1>2. Pending(w) = {} /\ Pending(w)' = {r}
  BY <1>1 DEF Pending, RequestOf
<1>3. Asked = {} /\ Asked' = {r}
  BY <1>2, SolePending
<1>4. Map!Ask(r)
  BY <1>1, <1>3, StoredShown DEF Map!Ask, Shown
<1>5. r \in Map!Requests
  BY DEF Map!Requests
<1>6. QED
  BY <1>4, <1>5 DEF Map!Next

(* The write that takes effect. *)
LEMMA WriteApplies ==
  ASSUME Inv, NEW w \in Workers, Calm(w), worker[w].pc # "idle",
         Asked' = Asked, Asked = {RequestOf(w)},
         worker[w].op = "create" <=> EntryOf(worker[w].task) = None,
         NEW t \in Tasks, t = worker[w].task,
         EntryOf(t)' = worker[w].value,
         \A u \in Tasks \ {t} : EntryOf(u)' = EntryOf(u)
  PROVE  Map!Next
<1> DEFINE r == RequestOf(w)
<1>1. r \in Map!Requests /\ r.op = worker[w].op /\ r.task = t /\ r.value = worker[w].value
  BY RequestType
<1>2. Shown' = [Shown EXCEPT ![t] = worker[w].value] /\ Shown[t] = EntryOf(t)
  BY DEF Shown
<1>3. Map!Apply(r)
  BY <1>1, <1>2 DEF Map!Apply, Shown
<1>4. QED
  BY <1>1, <1>3 DEF Map!Next

Stutters == Shown' = Shown /\ Asked' = Asked

LEMMA WriteChunkMaps ==
  ASSUME Inv, NEW w \in Workers, Calm(w), WriteChunk(w)
  PROVE  Map!Next \/ Stutters
<1> DEFINE h == worker[w].header
           v == worker[w].value
           c == worker[w].at
           e == worker[w].chunk
<1> SUFFICES ASSUME NEW t \in Tasks, t = worker[w].task
             PROVE  Map!Next \/ Stutters
  BY DEF WriteChunk, Inv, WorkerInv, Kinds
<1>1. /\ worker[w].op \in {"create"} \cup Edits /\ worker[w].pc = "write"
      /\ IF worker[w].op = "create" THEN Absent(t) ELSE Present(t)
  BY DEF WriteChunk, Inv, WorkerInv, Kinds, Placed, Looking
<1>2. /\ c \in ChunkId
      /\ worker[w].op \in Edits => c = header.chunkOf[t]
      /\ e[t] = v
      /\ \A u \in Tasks \ {t} : e[u] = IF c < h.chunks THEN chunk[c][u] ELSE None
  BY <1>1 DEF Inv, WorkerInv, Prepared
<1>3. Asked' = Asked /\ Asked = {RequestOf(w)}
  BY <1>1, GoesOn, GotoMoves DEF Inv, WriteChunk
<1>4. /\ \A d \in ChunkId : chunk'[d] = IF d = c THEN e ELSE chunk[d]
      /\ header' = header
  BY <1>2 DEF WriteChunk, Inv, TypeOK
<1>5. header.chunks <= h.chunks /\ h.chunks \in Nat /\ header.chunks \in Nat
  BY <1>1, SameIndex DEF Inv, TypeOK, Headers
<1>6. \A u \in Tasks : header.chunkOf[u] # Nowhere =>
          header.chunkOf[u] \in ChunkId /\ header.chunkOf[u] < header.chunks
  BY DEF Inv, TypeOK, Headers, Order, HeaderInOrder, Known
<1>7. ASSUME NEW u \in Tasks \ {t}
      PROVE  EntryOf(u)' = EntryOf(u)
  <2>1. CASE header.chunkOf[u] = Nowhere
    BY <1>4, <2>1 DEF EntryOf
  <2>2. CASE header.chunkOf[u] # Nowhere
    <3>1. c = header.chunkOf[u] => c < h.chunks
      BY <1>5, <1>6, <2>2, Numbers
    <3>2. chunk'[header.chunkOf[u]][u] = chunk[header.chunkOf[u]][u]
      BY <1>2, <1>4, <1>6, <2>2, <3>1
    <3>3. QED
      BY <1>4, <2>2, <3>2 DEF EntryOf
  <2>3. QED
    BY <2>1, <2>2
<1>8. CASE worker[w].op = "create"
  <2>1. EntryOf(t)' = EntryOf(t)
    BY <1>1, <1>4, <1>8 DEF Absent, EntryOf
  <2>2. \A u \in Tasks : EntryOf(u)' = EntryOf(u)
    BY <1>7, <2>1
  <2>3. QED
    BY <1>3, <2>2, SameShown DEF Stutters
<1>9. CASE worker[w].op \in Edits
  <2>1. EntryOf(t) # None /\ worker[w].op # "create"
    BY <1>1, <1>9 DEF Present, EntryOf, Edits
  <2>2. EntryOf(t)' = v
    BY <1>1, <1>2, <1>4, <1>9, <2>1, Numbers DEF EntryOf
  <2>3. QED
    BY <1>1, <1>3, <1>7, <2>1, <2>2, WriteApplies
<1>10. QED
  BY <1>1, <1>8, <1>9

LEMMA WriteHeaderMaps ==
  ASSUME Inv, NEW w \in Workers, Calm(w), WriteHeader(w)
  PROVE  Map!Next \/ Stutters
<1> DEFINE c == worker[w].at
<1> SUFFICES ASSUME NEW t \in Tasks, t = worker[w].task
             PROVE  Map!Next \/ Stutters
  BY DEF WriteHeader, Inv, WorkerInv, Kinds
<1>1. /\ worker[w].op \in {"create"} \cup Edits /\ worker[w].pc = "book"
      /\ c \in ChunkId
      /\ header.chunkOf[t] = IF worker[w].op = "create" THEN Nowhere ELSE c
      /\ chunk[c][t] = worker[w].value
      /\ worker[w].value = None <=> worker[w].op = "delete"
  BY DEF WriteHeader, Inv, WorkerInv, Kinds, Placed, Prepared
<1>2. /\ worker[w].op = "create" => header'.chunkOf[t] = c
      /\ worker[w].op = "update" => header' = header
      /\ worker[w].op = "delete" => header'.chunkOf[t] = Nowhere
      /\ \A u \in Tasks \ {t} : header'.chunkOf[u] = header.chunkOf[u]
  BY <1>1, BookedHeader DEF WriteHeader
<1>3. Asked' = Asked /\ Asked = {RequestOf(w)} /\ chunk' = chunk
  BY <1>1, GoesOn, GotoMoves DEF Inv, WriteHeader
<1>4. \A u \in Tasks \ {t} : EntryOf(u)' = EntryOf(u)
  BY <1>2, <1>3 DEF EntryOf
<1>5. CASE worker[w].op = "create"
  <2>1. EntryOf(t) = None /\ EntryOf(t)' = worker[w].value
    BY <1>1, <1>2, <1>3, <1>5, Numbers DEF EntryOf
  <2>2. QED
    BY <1>1, <1>3, <1>4, <1>5, <2>1, WriteApplies
<1>6. CASE worker[w].op \in Edits
  <2>1. EntryOf(t)' = EntryOf(t)
    BY <1>1, <1>2, <1>3, <1>6 DEF EntryOf, Edits
  <2>2. QED
    BY <1>3, <1>4, <2>1, SameShown DEF Stutters
<1>7. QED
  BY <1>1, <1>5, <1>6

LEMMA OtherStepsMap ==
  ASSUME Inv, NEW w \in Workers, Calm(w),
         \/ Resolve(w) \/ ResolveFails(w) \/ ReadHeader(w) \/ Bootstrap(w) \/ ReadChunk(w)
         \/ NothingToDelete(w) \/ Refresh(w) \/ FailWrite(w)
  PROVE  Map!Next \/ Stutters
<1>1. worker[w].pc # "idle"
  BY DEF Resolve, ResolveFails, ReadHeader, Bootstrap, ReadChunk, NothingToDelete, Refresh,
     FailWrite
<1>2. Shown' = Shown
  <2>1. CASE Bootstrap(w)
    <3>1. header' = header /\ \A t \in Tasks : header.chunkOf[t] = Nowhere
      BY <2>1, Blank DEF Bootstrap, Inv, WorkerInv, Aware, Unborn
    <3>2. QED
      BY <3>1, SameShown DEF EntryOf
  <2>2. CASE ~Bootstrap(w)
    BY <2>2, StoredShown DEF Resolve, ResolveFails, ReadHeader, ReadChunk, NothingToDelete,
       Refresh, FailWrite
  <2>3. QED
    BY <2>1, <2>2
<1>3. CASE Bootstrap(w) \/ ReadHeader(w) \/ ReadChunk(w) \/ NothingToDelete(w)
  <2>1. /\ worker'[w].pc # "idle" /\ worker'[w].op = worker[w].op
        /\ worker'[w].task = worker[w].task /\ worker'[w].value = worker[w].value
    <3>1. worker \in [Workers -> Operations]
      BY DEF Inv, TypeOK
    <3>2. CASE Bootstrap(w)
      BY <3>1, <3>2 DEF Bootstrap, Operations
    <3>3. CASE ReadHeader(w)
      <4>1. PICK h \in {HeaderRead, NoHeader} : HeaderTaken(w, h)
        BY <3>3, HeaderChoice DEF Calm
      <4> DEFINE pc == IF h.known THEN "chunk"
                       ELSE IF worker[w].op = "delete" THEN "refresh" ELSE "bootstrap"
      <4>2. worker' = [worker EXCEPT ![w].header = h, ![w].pc = pc]
        BY <4>1 DEF HeaderTaken
      <4>3. h \in Headers /\ pc \in {"chunk", "refresh", "bootstrap"}
        BY ReadTypes, Blank DEF Inv
      <4> HIDE DEF pc
      <4>4. QED
        BY <4>2, <4>3, HeaderMoves DEF Inv
    <3>4. CASE ReadChunk(w)
      <4>2. ASSUME NEW e, NEW c,
                   worker' = [worker EXCEPT ![w].pc = "write", ![w].at = c, ![w].chunk = e]
            PROVE  /\ worker'[w].pc # "idle" /\ worker'[w].op = worker[w].op
                   /\ worker'[w].task = worker[w].task /\ worker'[w].value = worker[w].value
        <5> DEFINE q == [worker[w] EXCEPT !.pc = "write", !.at = c, !.chunk = e]
        <5>1. /\ q.pc = "write" /\ q.op = worker[w].op
              /\ q.task = worker[w].task /\ q.value = worker[w].value
          BY <3>1 DEF Operations
        <5>2. worker' = [worker EXCEPT ![w] = q]
          BY <3>1, <4>2
        <5> HIDE DEF q
        <5>3. QED
          BY <3>1, <5>1, <5>2
      <4>3. QED
        <5>0. PICK lost : ChunkTaken(w, lost)
          BY <3>4, ChunkChoice DEF Calm
        <5> DEFINE at == Target(worker[w].header, worker[w].task, lost)
        <5>1. PICK content : worker' = [worker EXCEPT ![w].pc = "write", ![w].at = at,
                                 ![w].chunk = [content EXCEPT ![worker[w].task] = worker[w].value]]
          BY <5>0 DEF ChunkTaken
        <5> DEFINE e == [content EXCEPT ![worker[w].task] = worker[w].value]
        <5>2. worker' = [worker EXCEPT ![w].pc = "write", ![w].at = at, ![w].chunk = e]
          BY <5>1
        <5> HIDE DEF at, e
        <5>3. QED
          BY <4>2, <5>2
    <3>5. CASE NothingToDelete(w)
      BY <3>5, GotoMoves DEF Inv, NothingToDelete
    <3>6. QED
      BY <1>3, <3>2, <3>3, <3>4, <3>5
  <2>2. QED
    BY <1>1, <1>2, <2>1, GoesOn DEF Stutters
<1>4. CASE Resolve(w)
  <2>1. CASE Goto(w, "header")
    BY <1>1, <1>2, <2>1, GoesOn, GotoMoves DEF Inv, Stutters
  <2>2. CASE End(w)
    BY <1>1, <1>4, <2>2, EndMoves, EndAnswers DEF Inv, Resolve
  <2>3. QED
    BY <1>4, <2>1, <2>2 DEF Resolve
<1>5. CASE ResolveFails(w) \/ Refresh(w) \/ FailWrite(w)
  BY <1>1, <1>5, EndMoves, EndAnswers DEF Inv, ResolveFails, Refresh, FailWrite
<1>6. QED
  BY <1>3, <1>4, <1>5

LEMMA StepMaps ==
  ASSUME Inv, [Next]_vars, ~disturbed'
  PROVE  Map!Next \/ Stutters
<1>1. ASSUME NEW w \in Workers, Calm(w), NEW t \in Tasks,
             \/ DeleteTask(w, t)
             \/ \E v \in Values : CreateTask(w, t, v) \/ UpdateTask(w, t, v)
      PROVE  Map!Next
  <2>1. CASE DeleteTask(w, t)
    BY <1>1, <2>1, BeginAsks DEF DeleteTask
  <2>2. ASSUME NEW v \in Values, CreateTask(w, t, v) \/ UpdateTask(w, t, v)
        PROVE  Map!Next
    BY <1>1, <2>2, BeginAsks DEF CreateTask, UpdateTask
  <2>3. QED
    BY <1>1, <2>1, <2>2
<1>2. ASSUME NEW w \in Workers, Step(w)
      PROVE  Map!Next \/ Stutters
  BY <1>1, <1>2, CalmStep, OtherStepsMap, WriteChunkMaps, WriteHeaderMaps DEF Step
<1>3. ASSUME UNCHANGED <<stored, worker>>
      PROVE  Stutters
  BY <1>3, StoredShown DEF Asked, Stutters
<1>4. QED
  BY <1>2, <1>3 DEF Next, StartList, FillList, ExpireCopy, vars

(* Until the first disturbance creating, updating and deleting tasks implements *)
(* the map: every step of an operation changes the entry of its task, once, or  *)
(* nothing, and one that fails half-way has either taken effect or not.         *)
THEOREM IndexImplementsMap == Spec => ImplementsMap
<1>1. Init => Map!Init
  <2> SUFFICES ASSUME Init PROVE Map!Init
    OBVIOUS
  <2>1. \A t \in Tasks : EntryOf(t) = None
    BY Blank DEF Init, EntryOf
  <2>2. Asked = {}
    BY DEF Init, Asked, Idle
  <2>3. QED
    BY <2>1, <2>2 DEF Map!Init
<1> DEFINE Good == disturbed \/ Inv
<1>2. Good /\ [Next]_vars => [Map!Next \/ disturbed']_<<Shown, Asked>>
  BY StepMaps, DisturbedStays DEF Stutters
<1>3. Good /\ [Next]_vars => Good'
  BY StepKeeps, DisturbedStays
<1>4. Spec => [][Map!Next \/ disturbed']_<<Shown, Asked>>
  BY <1>2, <1>3, InitHolds, PTL DEF Spec
<1>5. QED
  BY <1>1, <1>4, PTL DEF Spec, ImplementsMap, Shown

=============================================================================
