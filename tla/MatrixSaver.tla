----------------------------- MODULE MatrixSaver -----------------------------
(* MatrixCheckpointSaver: the checkpoints of LangGraph as state events of a  *)
(* room.  A checkpoint has an event of its own and names its parent; one map *)
(* names the newest checkpoint of every thread, and is read, changed in the  *)
(* cached copy and written back as a whole.  Copies live for five minutes.   *)
(* A state event that is sent again after a rate limit is stored, and        *)
(* setState throws all the same: a failed send may have arrived.             *)
EXTENDS Naturals, FiniteSets, Functions

CONSTANTS
    Threads,
    Workers,        \* runs of graphs that use the saver at once
    Tasks,          \* tasks of a superstep, each with its writes
    MaxPuts,        \* bound: checkpoints
    MaxEvents       \* bound: calls that fail, copies that lapse, deletions, rebuilds, restarts

VARIABLES
    of,             \* checkpoint id -> [thread, parent]
    stored,         \* ids whose event holds a checkpoint
    index,          \* the thread map in the room
    object,         \* map objects in memory
    cached,         \* the one in indexCache, or None
    copies,         \* ids in checkpointCache
    writes,         \* id -> tasks whose writes are in the room
    copied,         \* id -> the same in writesCache, Absent without
    worker,
    acked,          \* ids whose put has returned
    doomed,         \* ids that were acked when a deletion of their thread began
    kept,           \* id -> tasks whose putWrites has returned
    gone,           \* those of them whose deletion has returned, with none failed before
    broken,         \* threads whose deletion has failed half way, or that a rebuild
                    \* has found again
    misread,        \* history: a map was taken for empty, or rebuilt without the events
    unread,         \* history: threads a checkpoint of which could not be read
    dropped,        \* history: id -> writes that were stored over after a failed read
    events

room == <<of, stored, index, writes>>
copy == <<object, cached, copies, copied>>
deletion == <<doomed, gone, broken>>
reads == <<misread, unread, dropped>>
history == <<acked, kept, deletion, reads>>
vars == <<room, copy, worker, history, events>>

None == 0
Ids == 1..MaxPuts
Made == {i \in Ids : of[i].thread \in Threads}
Absent == {None}
Maps == [Threads -> Ids \cup {None}]
Objects == 1..Cardinality(Workers) + 1
Nothing == [t \in Threads |-> None]
Resting == [pc |-> "idle", op |-> "none", thread |-> None, at |-> None, object |-> 1,
            sent |-> Nothing, tasks |-> {}, blind |-> FALSE]

(* Every variable keeps its type, and a map names a thread's own checkpoints. *)
TypeOK ==
    /\ \A i \in Made : of[i].parent \in {None} \cup {j \in Made : j < i /\ of[j].thread = of[i].thread}
    /\ stored \cup copies \subseteq Made
    /\ \A m \in {index} \cup Range(object) :
           m \in Maps /\ \A t \in Threads : m[t] = None \/ of[m[t]].thread = t
    /\ cached \in Objects \cup {None}
    /\ \A i \in Ids : writes[i] \subseteq Tasks /\ (copied[i] = Absent \/ copied[i] \subseteq Tasks)
    /\ \A w \in Workers : worker[w].pc \in {"idle", "ready", "checkpoint", "map", "fill", "load",
                                            "send", "walk", "land", "merge", "writes"}
    /\ gone \subseteq doomed /\ doomed \subseteq acked /\ acked \subseteq Made
    /\ broken \subseteq Threads /\ misread \in BOOLEAN /\ unread \subseteq Threads
    /\ events \in 0..MaxEvents

Init ==
    /\ of = [i \in Ids |-> [thread |-> None, parent |-> None]] /\ stored = {}
    /\ index = Nothing /\ writes = [i \in Ids |-> {}]
    /\ object = [o \in Objects |-> Nothing] /\ cached = None
    /\ copies = {} /\ copied = [i \in Ids |-> Absent]
    /\ worker = [w \in Workers |-> Resting]
    /\ kept = [i \in Ids |-> {}] /\ acked = {} /\ doomed = {} /\ gone = {} /\ broken = {}
    /\ misread = FALSE /\ unread = {} /\ dropped = [i \in Ids |-> {}]
    /\ events = 0

Of(t, S) == {i \in S : of[i].thread = t}
Highest(S) == CHOOSE i \in S \cup {None} : \A j \in S : j <= i
(* The newest id whose put has returned, and that nobody asked to delete.     *)
Promised(t) == Highest(Of(t, acked \ doomed))

Event == events < MaxEvents /\ events' = events + 1
Goto(w, pc) == worker' = [worker EXCEPT ![w].pc = pc]
(* The run of the graph goes on from the checkpoint it stands at.            *)
Ready(w) == [Resting EXCEPT !.pc = "ready", !.thread = worker[w].thread, !.at = worker[w].at]
(* A call that throws ends the run of the graph.                              *)
Interrupted(W) == broken' = broken \cup {worker[w].thread : w \in {v \in W : worker[v].op = "delete"}}
Throw(w) == Event /\ worker' = [worker EXCEPT ![w] = Resting] /\ Interrupted({w})

-----------------------------------------------------------------------------
(* What a worker is asked for                                                 *)

(* A run of the graph reads its newest checkpoint first.                      *)
GetTuple(w, t) ==
    /\ worker[w].pc = "idle"
    /\ worker' = [worker EXCEPT ![w] = [Resting EXCEPT !.pc = "map", !.op = "get", !.thread = t]]
    /\ UNCHANGED <<room, copy, history, events>>

(* put: the checkpoint after the one the run stands at.                       *)
Put(w) ==
    /\ worker[w].pc = "ready" /\ Cardinality(Made) < MaxPuts
    /\ LET id == Cardinality(Made) + 1 IN
       /\ of' = [of EXCEPT ![id] = [thread |-> worker[w].thread, parent |-> worker[w].at]]
       /\ worker' = [worker EXCEPT ![w] = [@ EXCEPT !.pc = "checkpoint", !.op = "put", !.at = id]]
    /\ UNCHANGED <<stored, index, writes, copy, history, events>>

PutWrites(w) ==
    /\ worker[w].pc = "ready" /\ worker[w].at # None
    /\ worker' = [worker EXCEPT ![w].pc = "merge", ![w].op = "writes"]
    /\ UNCHANGED <<room, copy, history, events>>

Finish(w) ==
    /\ worker[w].pc = "ready" /\ worker' = [worker EXCEPT ![w] = Resting]
    /\ UNCHANGED <<room, copy, history, events>>

DeleteThread(w, t) ==
    /\ worker[w].pc = "idle" /\ Event
    /\ worker' = [worker EXCEPT ![w] = [Resting EXCEPT !.pc = "map", !.op = "delete", !.thread = t]]
    /\ doomed' = doomed \cup Of(t, acked)
    /\ kept' = [i \in Ids |-> IF i \in Of(t, Ids) THEN {} ELSE kept[i]]
    /\ UNCHANGED <<room, copy, acked, gone, broken, reads>>

-----------------------------------------------------------------------------
(* getThreadMap: the cached object, or one made of what the room holds.       *)

Then(w) == IF worker[w].op = "get" THEN "load" ELSE IF worker[w].op = "put" THEN "send" ELSE "walk"
Hold(w, o, pc) ==
    [worker EXCEPT ![w] = [@ EXCEPT !.object = o, !.pc = pc,
                                    !.at = IF pc = "walk" THEN object'[o][worker[w].thread] ELSE @]]

ReadMap(w) ==
    /\ worker[w].pc = "map"
    /\ IF cached = None
       THEN worker' = [worker EXCEPT ![w].pc = "fill", ![w].sent = index] /\ UNCHANGED object
       ELSE UNCHANGED object /\ worker' = Hold(w, cached, Then(w))
    /\ UNCHANGED <<room, cached, copies, copied, history, events>>

FreeObject == CHOOSE o \in Objects : o # cached /\ \A w \in Workers : worker[w].object # o \/ worker[w].pc \in {"idle", "ready", "map", "fill"}

FillMap(w) ==
    /\ worker[w].pc = "fill"
    /\ cached' = FreeObject
    /\ \/ /\ object' = [object EXCEPT ![FreeObject] = worker[w].sent]
          /\ UNCHANGED <<misread, events>>
       \/ /\ Event      \* a read that fails counts as no map
          /\ object' = [object EXCEPT ![FreeObject] = Nothing]
          /\ misread' = (misread \/ worker[w].sent # Nothing)
    /\ worker' = Hold(w, FreeObject, Then(w))
    /\ UNCHANGED <<room, copies, copied, acked, kept, deletion, unread, dropped>>

-----------------------------------------------------------------------------
(* getStoredCheckpoint of the id the map names; a read that fails is none.    *)

Readable(i) == i \in copies \cup stored
Unread(w, i) == i \in stored \ copies /\ Event /\ unread' = unread \cup {worker[w].thread}
Load(w) ==
    /\ worker[w].pc = "load"
    /\ LET i == object[worker[w].object][worker[w].thread]
           found == i # None /\ Readable(i) IN
       \/ /\ worker' = [worker EXCEPT ![w] = [Ready(w) EXCEPT !.at = IF found THEN i ELSE None]]
          /\ copies' = IF found THEN copies \cup {i} ELSE copies
          /\ UNCHANGED <<unread, events>>
       \/ /\ Unread(w, i)
          /\ worker' = [worker EXCEPT ![w] = [Ready(w) EXCEPT !.at = None]]
          /\ UNCHANGED copies
    /\ UNCHANGED <<room, object, cached, copied, acked, kept, deletion, misread, dropped>>

-----------------------------------------------------------------------------
(* storeCheckpoint: the checkpoint, then the map, then the latest pointer     *)

(* Mutant: a send that fails is logged only.                                  *)
SendCheckpoint_logged(w) ==
    /\ worker[w].pc = "checkpoint"
    /\ stored' \in {stored, stored \cup {worker[w].at}} /\ Goto(w, "map")
    /\ UNCHANGED <<of, index, writes, copy, history, events>>
SendCheckpoint(w) ==
    /\ worker[w].pc = "checkpoint"
    /\ \/ stored' = stored \cup {worker[w].at} /\ Goto(w, "map") /\ UNCHANGED <<broken, events>>
       \/ Throw(w) /\ stored' \in {stored, stored \cup {worker[w].at}}
    /\ UNCHANGED <<of, index, writes, copy, acked, kept, doomed, gone, reads>>

Renamed(map, t, i) == [map EXCEPT ![t] = i]

(* updateThreadMap changes the object it was given, and sends all of it.      *)
SendMap(w) ==
    /\ worker[w].pc = "send"
    /\ LET o == worker[w].object
           to == IF worker[w].op = "put" THEN worker[w].at ELSE None IN
       /\ object' = [object EXCEPT ![o] = Renamed(@, worker[w].thread, to)]
       /\ worker' = [worker EXCEPT ![w] = [@ EXCEPT !.pc = "land", !.sent = object'[o]]]
    /\ UNCHANGED <<room, cached, copies, copied, history, events>>

(* The copies of a deleted thread are dropped, and the cached map.           *)
Purged(t) == copies \ Of(t, Ids)

Returned(t) == IF misread \/ t \in broken \cup unread THEN gone ELSE gone \cup Of(t, doomed)

Deleted(w) ==
    LET t == worker[w].thread IN
    /\ cached' = None
    /\ copies' = Purged(t)
    /\ copied' = [i \in Ids |-> IF i \in Of(t, Ids) THEN Absent ELSE copied[i]]
    /\ worker' = [worker EXCEPT ![w] = Resting]
    /\ gone' = Returned(t)
    /\ UNCHANGED <<object, acked>>

Acknowledged(w) ==
    /\ cached' = worker[w].object
    /\ acked' = acked \cup {worker[w].at}
    /\ worker' = [worker EXCEPT ![w] = Ready(w)]
    /\ UNCHANGED <<object, copies, copied, gone>>

LandMap(w) ==
    /\ worker[w].pc = "land"
    /\ \/ /\ index' = worker[w].sent
          /\ IF worker[w].op = "put" THEN Acknowledged(w) ELSE Deleted(w)
          /\ UNCHANGED <<broken, events>>
       \/ /\ Throw(w) /\ index' \in {index, worker[w].sent}
          /\ cached' \in {cached} \cup {o \in {worker[w].object} : index' = worker[w].sent /\ worker[w].op = "put"}
          /\ UNCHANGED <<object, copies, copied, acked, gone>>
    /\ UNCHANGED <<of, stored, writes, kept, doomed, reads>>

-----------------------------------------------------------------------------
(* deleteThreadWithContext: from the newest checkpoint to its parents         *)

Walk(w) ==
    /\ worker[w].pc = "walk"
    /\ LET i == worker[w].at
           none == object[worker[w].object][worker[w].thread] = None IN
       \/ /\ i # None /\ Readable(i)
          /\ stored' = stored \ {i}
          /\ \/ /\ writes' = [writes EXCEPT ![i] = {}]
                /\ worker' = [worker EXCEPT ![w].at = of[i].parent]
                /\ UNCHANGED <<broken, events>>
             \/ Throw(w) /\ UNCHANGED writes
          /\ copies' = copies \cup {i}
          /\ UNCHANGED <<unread, gone>>
       \/ /\ \/ i \notin copies \cup stored /\ UNCHANGED <<unread, events>>
             \/ Unread(w, i)
          /\ worker' = [worker EXCEPT ![w] = IF none THEN Resting ELSE [@ EXCEPT !.pc = "send"]]
          /\ gone' = IF none THEN Returned(worker[w].thread) ELSE gone
          /\ UNCHANGED <<stored, writes, copies, broken>>
    /\ UNCHANGED <<of, index, object, cached, copied, acked, kept, doomed, misread, dropped>>

-----------------------------------------------------------------------------
(* storeWrites: the writes of a task join those that are known.               *)
Merged(known, task) == known \cup {task}

KnownWrites(i) == IF copied[i] = Absent THEN writes[i] ELSE copied[i]
Writing(w, task, known, blind) ==
    worker' = [worker EXCEPT ![w] = [@ EXCEPT !.pc = "writes", !.op = task, !.blind = blind,
                                              !.tasks = Merged(known, task)]]
MergeWrites(w, task) ==
    /\ worker[w].pc = "merge"
    /\ LET i == worker[w].at IN
       \/ /\ copied' = [copied EXCEPT ![i] = IF @ = Absent /\ writes[i] = {} THEN @ ELSE KnownWrites(i)]
          /\ Writing(w, task, KnownWrites(i), FALSE)
          /\ UNCHANGED events
       \/ /\ copied[i] = Absent /\ Event      \* a read that fails: none are known
          /\ Writing(w, task, {}, TRUE)
          /\ UNCHANGED copied
    /\ UNCHANGED <<room, object, cached, copies, history>>

LandWrites(w) ==
    /\ worker[w].pc = "writes"
    /\ LET i == worker[w].at
           landed == [writes EXCEPT ![i] = worker[w].tasks]
           over == [dropped EXCEPT ![i] = @ \cup (writes[i] \ worker[w].tasks)] IN
       /\ \/ /\ writes' = landed
             /\ copied' = [copied EXCEPT ![i] = worker[w].tasks]
             /\ kept' = [kept EXCEPT ![i] = @ \cup {worker[w].op}]
             /\ worker' = [worker EXCEPT ![w] = Ready(w)]
             /\ UNCHANGED <<broken, events>>
          \/ /\ Throw(w) /\ writes' \in {writes, landed}
             /\ UNCHANGED <<copied, kept>>
       /\ dropped' = IF worker[w].blind /\ writes' = landed THEN over ELSE dropped
    /\ UNCHANGED <<of, stored, index, object, cached, copies, acked, doomed, gone, misread, unread>>

-----------------------------------------------------------------------------
(* rebuildThreadMap: the newest id of every thread among the events it sees,  *)
(* those of deleted checkpoints included.                                    *)
Latest(seen, t) == Highest(Of(t, seen))

Rebuild ==
    /\ Event
    /\ \A w \in Workers : worker[w].pc = "idle"
    /\ \E seen \in {Made, {}} :
          LET map == [t \in Threads |-> Latest(seen, t)] IN
          /\ index' = map
          /\ cached' = FreeObject
          /\ object' = [object EXCEPT ![FreeObject] = map]
          /\ misread' = (misread \/ seen # Made)
    /\ broken' = broken \cup {t \in Threads : Latest(Made, t) > Promised(t)}
    /\ UNCHANGED <<of, stored, writes, copies, copied, worker, acked, kept, doomed, gone, unread, dropped>>

(* A copy is five minutes old.                                                *)
Lapse ==
    /\ Event
    /\ \/ cached # None /\ cached' = None /\ UNCHANGED <<copies, copied>>
       \/ copies # {} /\ copies' = {} /\ UNCHANGED <<cached, copied>>
       \/ copied' = [i \in Ids |-> Absent] /\ UNCHANGED <<cached, copies>>
    /\ UNCHANGED <<room, object, worker, history>>

Restart ==
    /\ Event
    /\ cached' = None /\ copies' = {} /\ copied' = [i \in Ids |-> Absent]
    /\ worker' = [w \in Workers |-> Resting]
    /\ Interrupted(Workers)
    /\ UNCHANGED <<room, object, acked, kept, doomed, gone, reads>>

Call(w) ==
    \/ \E t \in Threads : GetTuple(w, t) \/ DeleteThread(w, t)
    \/ Put(w) \/ PutWrites(w) \/ Finish(w)

Continue(w) ==
    \/ ReadMap(w) \/ FillMap(w) \/ Load(w) \/ SendCheckpoint(w) \/ SendMap(w) \/ LandMap(w)
    \/ Walk(w) \/ LandWrites(w)
    \/ \E task \in Tasks : MergeWrites(w, task)

Next ==
    \/ \E w \in Workers : Call(w) \/ Continue(w)
    \/ Rebuild \/ Lapse \/ Restart

Spec == Init /\ [][Next]_vars

-----------------------------------------------------------------------------
(* What getTuple would find now, from the cached map or from the room.        *)
Views == {index} \cup {object[o] : o \in {cached} \ {None}}
Ancestors[i \in Nat] == IF i = None THEN {} ELSE {i} \cup Ancestors[of[i].parent]

(* The newest checkpoint found is the newest whose put has returned or a      *)
(* later one, whatever failed, lapsed, restarted or was rebuilt in between,   *)
(* until a map that could not be read is taken for empty, or is rebuilt       *)
(* without the events.                                                        *)
AckedIsFound == ~misread => \A t \in Threads, m \in Views : m[t] >= Promised(t)

(* The newest checkpoint of a thread is whole: it and all before it can       *)
(* be read, unless a deletion of the thread has failed half way or is undone.  *)
ChainIsWhole == \A t \in Threads \ broken : Ancestors[Promised(t)] \subseteq stored

(* What a task has written stays with the checkpoint until its thread is      *)
(* deleted, but for what was stored over by a write that could not read it.   *)
WritesKept == \A i \in Ids : kept[i] \subseteq writes[i] \cup dropped[i]

(* A deletion that returns has left nothing to find of what it was asked to   *)
(* delete, unless one has failed or a read of the thread or the map has.      *)
DeletedIsGone == \A i \in gone : ~Readable(i)
=============================================================================
