----------------------------- MODULE TaskIndex -----------------------------
(* The index of a user's tasks (task.service.ts): a header that names the   *)
(* chunk of every task, and chunks of entries, each a state event of the    *)
(* main room; readers keep copies of them for 30 s.  Creating, updating and *)
(* deleting a task change it by reading, changing and writing back, with no *)
(* lock, and take what they cannot read for absent.  disturbed records that *)
(* this went wrong.                                                         *)
EXTENDS Naturals, FiniteSets, FiniteSetsExt

CONSTANTS
    Tasks,
    Values,         \* what an entry says of its task
    None,           \* no entry
    Workers,        \* operations that run at once
    ChunkSize,      \* DEFAULT_CHUNK_SIZE
    MaxOps          \* bound: operations

ASSUME IndexAssumption ==
    /\ ChunkSize \in Nat \ {0}
    /\ MaxOps \in Nat
    /\ None \notin Values
    /\ IsFiniteSet(Tasks)

VARIABLES
    header,         \* state event '': [known, chunkOf, count, chunks]
    chunk,          \* state events 'chunk:<i>'
    cachedHeader,   \* tasks:header
    cachedChunk,    \* tasks:chunk:<i>; NoChunk when absent
    cachedEntry,    \* tasks with a copy of their entry
    worker,         \* the operations
    reader,         \* listTasks between its reads and its cache.set
    ops,            \* operations so far
    disturbed       \* history: an operation began while another ran or left old
                    \* copies, or took an index or a chunk it could not read for empty

stored == <<header, chunk>>
caches == <<cachedHeader, cachedChunk, cachedEntry>>
history == <<ops, disturbed>>
vars == <<stored, caches, worker, reader, history>>

ChunkId == 0..Cardinality(Tasks)
Nowhere == Cardinality(Tasks) + 1
Empty == [t \in Tasks |-> None]
NoChunk == [t \in {} |-> None]
Content == [Tasks -> Values \cup {None}]

(* taskChunkMap, totalCount and chunkCount *)
Headers == [known : BOOLEAN, chunkOf : [Tasks -> ChunkId \cup {Nowhere}],
            count : Nat, chunks : Nat]
NoHeader == [known |-> FALSE, chunkOf |-> [t \in Tasks |-> Nowhere], count |-> 0,
             chunks |-> 0]
FirstHeader == [NoHeader EXCEPT !.known = TRUE, !.chunks = 1]

Idle == [pc |-> "idle", op |-> "none", task |-> None, value |-> None,
         header |-> NoHeader, chunk |-> Empty, at |-> Nowhere]
NotReading == [pc |-> "idle", header |-> NoHeader, chunk |-> Empty, at |-> Nowhere]

Operations ==
    [pc : {"idle", "resolve", "header", "bootstrap", "chunk", "write", "book", "refresh"},
     op : {"none", "create", "update", "delete"}, task : Tasks \cup {None},
     value : Values \cup {None}, header : Headers, chunk : Content,
     at : ChunkId \cup {Nowhere}]
Readings == [pc : {"idle", "fill"}, header : Headers, chunk : Content,
             at : ChunkId \cup {Nowhere}]

(* Every variable keeps its type. *)
TypeOK ==
    /\ header \in Headers /\ cachedHeader \in Headers
    /\ chunk \in [ChunkId -> Content]
    /\ cachedChunk \in [ChunkId -> Content \cup {NoChunk}]
    /\ cachedEntry \subseteq Tasks
    /\ worker \in [Workers -> Operations]
    /\ reader \in Readings
    /\ ops \in 0..MaxOps /\ disturbed \in BOOLEAN

Init ==
    /\ header = NoHeader /\ cachedHeader = NoHeader
    /\ chunk = [c \in ChunkId |-> Empty]
    /\ cachedChunk = [c \in ChunkId |-> NoChunk]
    /\ cachedEntry = {}
    /\ worker = [w \in Workers |-> Idle]
    /\ reader = NotReading
    /\ ops = 0 /\ disturbed = FALSE

Entries(content) == {t \in Tasks : content[t] # None}
Full(content) == Cardinality(Entries(content)) >= ChunkSize

(* readHeader, readChunk: the copy while there is one, else the state event. *)
HeaderRead == IF cachedHeader.known THEN cachedHeader ELSE header
ChunkRead(c) == IF cachedChunk[c] # NoChunk THEN cachedChunk[c] ELSE chunk[c]

(* The chunks read so far stay cached. *)
CacheChunks(cs) ==
    cachedChunk' = [c \in ChunkId |-> IF c \in cs THEN ChunkRead(c) ELSE cachedChunk[c]]

(* resolveTaskEntry finds an entry: by its copy, or by header and chunk. *)
Found(t) ==
    \/ t \in cachedEntry
    \/ HeaderRead.chunkOf[t] # Nowhere /\ ChunkRead(HeaderRead.chunkOf[t])[t] # None

(* No copy is older than the last change, as when the index has rested for *)
(* 30 s.                                                                   *)
Rested ==
    /\ cachedHeader \in {NoHeader, header}
    /\ \A c \in ChunkId : cachedChunk[c] \in {NoChunk, chunk[c]}
    /\ \A t \in cachedEntry :
           header.chunkOf[t] # Nowhere /\ chunk[header.chunkOf[t]][t] # None
    /\ reader.pc = "fill" => /\ reader.header = header
                             /\ reader.chunk = chunk[reader.at]

-----------------------------------------------------------------------------
(* createTask, updateTask and deleteTask, as far as the index is concerned. *)

Goto(w, pc) == worker' = [worker EXCEPT ![w].pc = pc]
End(w) == worker' = [worker EXCEPT ![w] = Idle]

Begin(w, op, t, v) ==
    /\ worker[w].pc = "idle"
    /\ ops < MaxOps /\ ~disturbed      \* bound: nothing begins after a disturbance
    /\ ops' = ops + 1
    /\ disturbed' = (disturbed \/ ~Rested \/ \E u \in Workers : worker[u].pc # "idle")
    /\ worker' = [worker EXCEPT ![w] =
           [Idle EXCEPT !.op = op, !.task = t, !.value = v,
                        !.pc = IF op = "create" THEN "header" ELSE "resolve"]]
    /\ UNCHANGED <<stored, caches, reader>>

(* Ids are fresh: a task is created once, and not after it was deleted. *)
CreateTask(w, t, v) ==
    /\ header.chunkOf[t] = Nowhere
    /\ \A c \in ChunkId : chunk[c][t] = None
    /\ \A u \in Workers : worker[u].task # t
    /\ Begin(w, "create", t, v)

UpdateTask(w, t, v) == Begin(w, "update", t, v)
DeleteTask(w, t) == Begin(w, "delete", t, None)

(* resolveTaskEntry *)
Resolve(w) ==
    LET t == worker[w].task
        c == HeaderRead.chunkOf[t] IN
    /\ worker[w].pc = "resolve"
    /\ IF t \in cachedEntry THEN UNCHANGED caches
       ELSE /\ cachedHeader' = HeaderRead
            /\ CacheChunks({c} \ {Nowhere})
            /\ cachedEntry' = IF Found(t) THEN cachedEntry \cup {t} ELSE cachedEntry
    /\ IF Found(t) THEN Goto(w, "header") ELSE End(w)
    /\ UNCHANGED <<stored, reader, history>>

(* A read fails: the task is not found, and the operation refused. *)
ResolveFails(w) ==
    /\ worker[w].pc = "resolve"
    /\ worker[w].task \notin cachedEntry
    /\ End(w)
    /\ UNCHANGED <<stored, caches, reader, history>>

(* updateTasksIndex: the header, the one copy it changes.  One that cannot be *)
(* read counts as none.                                                       *)
ReadHeader(w) ==
    /\ worker[w].pc = "header"
    /\ \E h \in {HeaderRead} \cup IF cachedHeader.known THEN {} ELSE {NoHeader} :
          /\ cachedHeader' = IF h.known THEN h ELSE cachedHeader
          /\ disturbed' = (disturbed \/ (h # HeaderRead /\ worker[w].op # "delete"))
          /\ worker' = [worker EXCEPT ![w].header = h, ![w].pc =
                 IF h.known THEN "chunk"
                 ELSE IF worker[w].op = "delete" THEN "refresh" ELSE "bootstrap"]
    /\ UNCHANGED <<stored, cachedChunk, cachedEntry, reader, ops>>

Bootstrap(w) ==
    /\ worker[w].pc = "bootstrap"
    /\ chunk' = [chunk EXCEPT ![0] = Empty]
    /\ worker' = [worker EXCEPT ![w].header = FirstHeader, ![w].pc = "chunk"]
    /\ UNCHANGED <<header, caches, reader, history>>

(* A chunk that cannot be read, of those in lost, counts as empty. *)
Seen(c, lost) == IF c \in lost THEN Empty ELSE ChunkRead(c)
Unreadable(h) == SUBSET {c \in ChunkId : c < h.chunks /\ cachedChunk[c] = NoChunk}

(* The chunks with space, as far as the header counts them. *)
Fitting(h, lost) == {c \in ChunkId : c < h.chunks /\ ~Full(Seen(c, lost))}

(* The chunk of a known task, the first with space, or the next one.  Mutant: *)
(* only the last chunk is tried.                                              *)
Target_last(h, t, lost) ==
    IF h.chunkOf[t] # Nowhere THEN h.chunkOf[t]
    ELSE IF h.chunks - 1 \in Fitting(h, lost) THEN h.chunks - 1 ELSE 0
Target(h, t, lost) ==
    IF h.chunkOf[t] # Nowhere THEN h.chunkOf[t]
    ELSE IF Fitting(h, lost) # {} THEN Min(Fitting(h, lost)) ELSE h.chunks

(* The chunks looked at on the way to chunk c. *)
Tried(h, t, c) ==
    IF h.chunkOf[t] # Nowhere THEN {c} ELSE {d \in ChunkId : d <= c /\ d < h.chunks}

(* Chunks beyond the number of tasks are not explored. *)
ReadChunk(w) ==
    LET h == worker[w].header
        t == worker[w].task IN
    /\ worker[w].pc = "chunk"
    /\ ~(worker[w].op = "delete" /\ h.chunkOf[t] = Nowhere)
    /\ \E lost \in Unreadable(h) :
          LET c == Target(h, t, lost)
              content == IF c < h.chunks THEN Seen(c, lost) ELSE Empty IN
          /\ c \in ChunkId
          /\ lost \subseteq Tried(h, t, c)
          /\ CacheChunks(Tried(h, t, c) \ lost)
          /\ disturbed' = (disturbed \/ \E d \in lost : ChunkRead(d) # Empty)
          /\ worker' = [worker EXCEPT ![w].pc = "write", ![w].at = c,
                                      ![w].chunk = [content EXCEPT ![t] = worker[w].value]]
    /\ UNCHANGED <<stored, cachedHeader, cachedEntry, reader, ops>>

(* Deleting what the header does not know is done. *)
NothingToDelete(w) ==
    /\ worker[w].pc = "chunk"
    /\ worker[w].op = "delete" /\ worker[w].header.chunkOf[worker[w].task] = Nowhere
    /\ Goto(w, "refresh")
    /\ UNCHANGED <<stored, caches, reader, history>>

WriteChunk(w) ==
    /\ worker[w].pc = "write"
    /\ chunk' = [chunk EXCEPT ![worker[w].at] = worker[w].chunk]
    /\ Goto(w, "book")
    /\ UNCHANGED <<header, caches, reader, history>>

(* The header after the change.  Mutant: a new chunk is not counted. *)
Booked_uncounted(w) ==
    LET h == worker[w].header
        t == worker[w].task IN
    IF worker[w].op = "delete" THEN [h EXCEPT !.chunkOf[t] = Nowhere, !.count = @ - 1]
    ELSE IF h.chunkOf[t] # Nowhere THEN h
    ELSE [h EXCEPT !.chunkOf[t] = worker[w].at, !.count = @ + 1]
Booked(w) ==
    LET h == worker[w].header
        t == worker[w].task
        c == worker[w].at IN
    IF worker[w].op = "delete"
    THEN [h EXCEPT !.chunkOf[t] = Nowhere, !.count = IF @ = 0 THEN 0 ELSE @ - 1]
    ELSE IF h.chunkOf[t] # Nowhere THEN h
    ELSE [h EXCEPT !.chunkOf[t] = c, !.count = @ + 1,
                   !.chunks = IF c = h.chunks THEN @ + 1 ELSE @]

WriteHeader(w) ==
    /\ worker[w].pc = "book"
    /\ header' = Booked(w)
    /\ Goto(w, "refresh")
    /\ UNCHANGED <<chunk, caches, reader, history>>

(* invalidateTaskCaches: header and lists; chunks keep their copies.  Deleting *)
(* a task drops its entry as well.                                             *)
Refresh(w) ==
    /\ worker[w].pc = "refresh"
    /\ cachedHeader' = NoHeader
    /\ cachedEntry' = IF worker[w].op = "delete" THEN cachedEntry \ {worker[w].task}
                      ELSE cachedEntry
    /\ End(w)
    /\ UNCHANGED <<stored, cachedChunk, reader, history>>

(* sendStateEvent throws, and the operation with it: nothing is invalidated. *)
FailWrite(w) ==
    /\ worker[w].pc \in {"bootstrap", "write", "book"}
    /\ End(w)
    /\ UNCHANGED <<stored, caches, reader, history>>

-----------------------------------------------------------------------------
(* listTasks reads header and chunks, and keeps what it read. *)
StartList(c) ==
    /\ reader.pc = "idle"
    /\ HeaderRead.known /\ c < HeaderRead.chunks
    /\ reader' = [pc |-> "fill", header |-> HeaderRead, chunk |-> ChunkRead(c), at |-> c]
    /\ UNCHANGED <<stored, caches, worker, history>>

FillList ==
    /\ reader.pc = "fill"
    /\ cachedHeader' = reader.header
    /\ cachedChunk' = [cachedChunk EXCEPT ![reader.at] = reader.chunk]
    /\ reader' = NotReading
    /\ UNCHANGED <<stored, cachedEntry, worker, history>>

(* 30 s after it was made a copy is gone. *)
ExpireCopy ==
    /\ \/ cachedHeader # NoHeader /\ cachedHeader' = NoHeader
          /\ UNCHANGED <<cachedChunk, cachedEntry>>
       \/ \E c \in ChunkId :
             /\ cachedChunk[c] # NoChunk
             /\ cachedChunk' = [cachedChunk EXCEPT ![c] = NoChunk]
             /\ UNCHANGED <<cachedHeader, cachedEntry>>
       \/ \E t \in cachedEntry :
             /\ cachedEntry' = cachedEntry \ {t}
             /\ UNCHANGED <<cachedHeader, cachedChunk>>
    /\ UNCHANGED <<stored, worker, reader, history>>

-----------------------------------------------------------------------------
Step(w) ==
    \/ \E t \in Tasks :
          \/ DeleteTask(w, t)
          \/ \E v \in Values : CreateTask(w, t, v) \/ UpdateTask(w, t, v)
    \/ Resolve(w) \/ ResolveFails(w) \/ ReadHeader(w) \/ Bootstrap(w)
    \/ ReadChunk(w) \/ NothingToDelete(w) \/ WriteChunk(w) \/ WriteHeader(w)
    \/ Refresh(w) \/ FailWrite(w)

Next ==
    \/ \E w \in Workers : Step(w)
    \/ \E c \in ChunkId : StartList(c)
    \/ FillList \/ ExpireCopy

Spec == Init /\ [][Next]_vars

-----------------------------------------------------------------------------
(* The entry a task has: the one its chunk holds, when the header knows it. *)
EntryOf(t) ==
    IF header.chunkOf[t] = Nowhere THEN None ELSE chunk[header.chunkOf[t]][t]

(* Until the first disturbance header and chunks implement a map: an operation *)
(* changes the entry of its task, once, and no other, whatever writes fail and  *)
(* wherever copies are read.  (A header that cannot be read is taken for none   *)
(* and the index written anew, which no map allows.)                            *)
Asked == {[op |-> worker[w].op, task |-> worker[w].task, value |-> worker[w].value] :
              w \in {u \in Workers : worker[u].pc # "idle"}}
Map == INSTANCE TaskMap WITH entries <- [t \in Tasks |-> EntryOf(t)], asked <- Asked
ImplementsMap == Map!Init /\ [][Map!Next \/ disturbed']_<<[t \in Tasks |-> EntryOf(t)], Asked>>

ChunksInOrder ==
    /\ \A c \in ChunkId : Cardinality(Entries(chunk[c])) <= ChunkSize
    /\ \A c, d \in ChunkId : Entries(chunk[c]) \cap Entries(chunk[d]) # {} => c = d

Known == {t \in Tasks : header.chunkOf[t] # Nowhere}
HeaderInOrder ==
    /\ \A t \in Known : header.chunkOf[t] < header.chunks
    /\ header.count = Cardinality(Known)

(* Until the first disturbance no chunk exceeds its size, and no task is in    *)
(* two chunks, although a chunk is chosen on copies and a failed operation      *)
(* leaves its entry behind; the header never points past the chunks it counts,  *)
(* and its total is the number of tasks it knows.                               *)
IndexInOrder == disturbed \/ (TypeOK /\ ChunksInOrder /\ HeaderInOrder)

(* A task the header knows has an entry, while no operation on it is under way: *)
(* whoever reads after a change finds what was written ("Invalidate caches -    *)
(* next read will fetch fresh data").                                           *)
Resolvable ==
    \A t \in Tasks : (\A w \in Workers : worker[w].task # t) =>
        (header.chunkOf[t] # Nowhere => EntryOf(t) # None)
=============================================================================
