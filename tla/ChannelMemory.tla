---------------------------- MODULE ChannelMemory ----------------------------
(* What the oracle remembers of a group room (channel-memory.service.ts):    *)
(* messages wait in a buffer, are compacted into chunks of a database of the *)
(* room, and the database is uploaded to the room a minute after a write.    *)
(* Messages are numbered in the order in which they were observed.           *)
EXTENDS Naturals, Sequences, FiniteSets, SequencesExt

CONSTANTS
    MaxMessages,    \* bound: messages of the room
    Threshold,      \* COMPACT_BUFFER_THRESHOLD
    JitMin,         \* COMPACT_JIT_MIN
    Facts,          \* facts that may be pinned
    SlowSummaries,  \* TRUE: a compaction may take the five idle minutes
    MaxFaults       \* bound: calls that fail, restarts and crashes

ASSUME MemoryAssumption ==
    /\ {MaxMessages, MaxFaults} \subseteq Nat
    /\ {Threshold, JitMin} \subseteq Nat \ {0}
    /\ SlowSummaries \in BOOLEAN

VARIABLES
    observed,       \* messages observed so far
    buffer,         \* entry.messages
    idle,           \* the idle timer is armed
    comp,           \* the compaction in flight, and what it has drained
    room,           \* the repo of the room: closed, restoring, open
    file,           \* the local database file exists
    rows,           \* what the database holds
    main,           \* what its main file holds, the rest is in the WAL
    remote,         \* what a restore from the room finds
    dirty, timer,   \* of the RoomEntry
    upload,         \* the upload in flight, and the snapshot it took
    waiter,         \* a syncToMatrix that waits for the one in flight
    stopping,       \* onModuleDestroy has begun
    lost,           \* messages dropped by a restart, a failed insert or restore
    requeued,       \* messages whose summary has failed
    faults

memory == <<observed, buffer, idle, comp, requeued>>
disk == <<file, rows, main>>
sync == <<dirty, timer, upload, waiter>>
vars == <<memory, room, disk, remote, sync, stopping, lost, faults>>

Messages == 1..MaxMessages
Row(kind, of) == [kind |-> kind, of |-> of]
Chunk(seq) == Row("chunk", seq)
Fact(f) == Row("fact", <<f>>)
Chunks(content) == {r \in content : r.kind = "chunk"}
NoSnapshot == {}

(* Every variable keeps its type; what is open is on disk, and only one *)
(* compaction holds messages.                                           *)
TypeOK ==
    /\ observed \in 0..MaxMessages /\ faults \in 0..MaxFaults
    /\ {idle, file, dirty, timer, waiter, stopping} \subseteq BOOLEAN
    /\ comp.pc \in {"idle", "summarise", "insert"}
    /\ comp.pc = "idle" <=> comp.drained = << >>
    /\ room \in {"closed", "restoring", "open"}
    /\ room = "open" => file
    /\ ~file => rows = {} /\ main = {}
    /\ upload.pc \in {"idle", "copied"}
    /\ \A r \in rows \cup main \cup remote \cup upload.snapshot :
           r.kind \in {"chunk", "fact"} /\ r.of # << >>
    /\ lost \cup requeued \subseteq 1..observed

Init ==
    /\ observed = 0 /\ buffer = << >> /\ idle = FALSE
    /\ comp = [pc |-> "idle", drained |-> << >>]
    /\ room = "closed" /\ file = FALSE /\ rows = {} /\ main = {} /\ remote = {}
    /\ dirty = FALSE /\ timer = FALSE /\ waiter = FALSE
    /\ upload = [pc |-> "idle", snapshot |-> NoSnapshot]
    /\ stopping = FALSE /\ lost = {} /\ requeued = {} /\ faults = 0

Fault == faults < MaxFaults /\ faults' = faults + 1

-----------------------------------------------------------------------------
(* Observing and compacting                                                  *)

(* compact joins the compaction in flight; otherwise it drains the buffer.   *)
(* Mutant: the idle timer is cleared in either case.                         *)
Compacted_disarmed(messages, armed) ==
    /\ idle' = FALSE
    /\ IF comp.pc = "idle" /\ messages # << >>
       THEN /\ comp' = [pc |-> "summarise", drained |-> messages]
            /\ buffer' = << >>
       ELSE buffer' = messages /\ UNCHANGED comp
Compacted(messages, armed) ==
    IF comp.pc = "idle" /\ messages # << >>
    THEN /\ comp' = [pc |-> "summarise", drained |-> messages]
         /\ buffer' = << >> /\ idle' = FALSE
    ELSE /\ buffer' = messages /\ idle' = armed
         /\ UNCHANGED comp

ObserveMessage ==
    /\ observed < MaxMessages /\ ~stopping
    /\ observed' = observed + 1
    /\ LET messages == Append(buffer, observed') IN
       IF Len(messages) >= Threshold THEN Compacted(messages, TRUE)
       ELSE buffer' = messages /\ idle' = TRUE /\ UNCHANGED comp
    /\ UNCHANGED <<requeued, room, disk, remote, sync, stopping, lost, faults>>

IdleTimer ==
    /\ idle /\ ~stopping
    /\ SlowSummaries \/ comp.pc = "idle"
    /\ Compacted(buffer, FALSE)
    /\ UNCHANGED <<observed, requeued, room, disk, remote, sync, stopping, lost, faults>>

CompactJustInTime ==
    /\ Len(buffer) >= JitMin /\ comp.pc = "idle" /\ ~stopping
    /\ Compacted(buffer, idle)
    /\ UNCHANGED <<observed, requeued, room, disk, remote, sync, stopping, lost, faults>>

Summarised ==
    /\ comp.pc = "summarise"
    /\ comp' = [comp EXCEPT !.pc = "insert"]
    /\ UNCHANGED <<observed, buffer, idle, requeued, room, disk, remote, sync, stopping, lost, faults>>

(* Where the messages of a failed summary go.  Mutant: behind the new ones.  *)
Requeued_behind(messages) == buffer \o messages
Requeued(messages) == messages \o buffer

NoSummary ==
    /\ comp.pc = "summarise"
    /\ Fault
    /\ buffer' = Requeued(comp.drained)
    /\ requeued' = requeued \cup Range(comp.drained)
    /\ comp' = [pc |-> "idle", drained |-> << >>]
    /\ UNCHANGED <<observed, idle, room, disk, remote, sync, stopping, lost>>

-----------------------------------------------------------------------------
(* The database of the room                                                  *)

(* getRoom, whoever calls it first; the others wait for the same promise.    *)
GetRoom ==
    /\ room = "closed"
    /\ room' = IF file THEN "open" ELSE "restoring"
    /\ UNCHANGED <<memory, disk, remote, sync, stopping, lost, faults>>

(* A restored file is what was uploaded.  Mutant: it is left empty.          *)
Restore_fresh ==
    /\ room = "restoring"
    /\ room' = "open" /\ file' = TRUE
    /\ UNCHANGED <<memory, rows, main, remote, sync, stopping, lost, faults>>
Restore ==
    /\ room = "restoring"
    /\ room' = "open" /\ file' = TRUE
    /\ rows' = remote /\ main' = remote
    /\ UNCHANGED <<memory, remote, sync, stopping, lost, faults>>

(* An error is taken for a room without a database.                          *)
StartFresh ==
    /\ Fault
    /\ room = "restoring"
    /\ room' = "open" /\ file' = TRUE
    /\ lost' = lost \cup UNION {Range(r.of) : r \in Chunks(remote)}
    /\ UNCHANGED <<memory, rows, main, remote, sync, stopping>>

(* A write goes to the WAL; markDirty arms the timer anew.                   *)
Write(content) ==
    /\ room = "open"
    /\ rows' = content
    /\ dirty' = TRUE /\ timer' = TRUE
    /\ UNCHANGED <<file, main, remote, upload, waiter, stopping, room, faults>>

InsertChunk ==
    /\ comp.pc = "insert"
    /\ Write(rows \cup {Chunk(comp.drained)})
    /\ comp' = [pc |-> "idle", drained |-> << >>]
    /\ UNCHANGED <<observed, buffer, idle, requeued, lost>>

(* An insert that fails is logged, and its messages are gone.                *)
FailInsert ==
    /\ comp.pc = "insert" /\ room = "open"
    /\ Fault
    /\ comp' = [pc |-> "idle", drained |-> << >>]
    /\ lost' = lost \cup Range(comp.drained)
    /\ UNCHANGED <<observed, buffer, idle, requeued, room, disk, remote, sync, stopping>>

PinFact(f) == Fact(f) \notin rows /\ Write(rows \cup {Fact(f)}) /\ UNCHANGED <<memory, lost>>
UnpinFact(f) == Fact(f) \in rows /\ Write(rows \ {Fact(f)}) /\ UNCHANGED <<memory, lost>>

(* refreshMembers: rows that no property is about.                           *)
RefreshMembers == Write(rows) /\ UNCHANGED <<memory, lost>>

(* SQLite moves the WAL into the main file.                                  *)
Checkpoint ==
    /\ room = "open" /\ main # rows
    /\ main' = rows
    /\ UNCHANGED <<memory, room, file, rows, remote, sync, stopping, lost, faults>>

-----------------------------------------------------------------------------
(* Uploading                                                                 *)

(* The copy of the file, without its WAL.                                    *)
StartUpload == upload' = [pc |-> "copied", snapshot |-> main]

(* syncToMatrix: it waits for an upload in flight.  No more than one waits:  *)
(* an upload is over before the timer has fired twice.                       *)
SyncTimer ==
    /\ timer /\ ~stopping /\ ~waiter
    /\ timer' = FALSE
    /\ IF upload.pc # "idle" THEN waiter' = TRUE /\ UNCHANGED upload
       ELSE /\ IF dirty THEN StartUpload ELSE UNCHANGED upload
            /\ UNCHANGED waiter
    /\ UNCHANGED <<memory, room, disk, remote, dirty, stopping, lost, faults>>

(* The pointer of the room names the snapshot; then the entry is clean, and  *)
(* whoever waited finds nothing to do.                                       *)
FinishUpload ==
    /\ upload.pc = "copied"
    /\ remote' = upload.snapshot
    /\ dirty' = FALSE /\ waiter' = FALSE
    /\ upload' = [pc |-> "idle", snapshot |-> NoSnapshot]
    /\ UNCHANGED <<memory, room, disk, timer, stopping, lost, faults>>

(* The entry stays dirty, and no timer is armed; whoever waited fails too.   *)
FailUpload ==
    /\ upload.pc = "copied"
    /\ Fault
    /\ waiter' = FALSE
    /\ upload' = [pc |-> "idle", snapshot |-> NoSnapshot]
    /\ UNCHANGED <<memory, room, disk, remote, dirty, timer, stopping, lost>>

-----------------------------------------------------------------------------
(* The process                                                               *)

(* onModuleDestroy: timers and buffer are dropped, what is dirty is uploaded. *)
Shutdown ==
    /\ Fault /\ ~stopping
    /\ stopping' = TRUE
    /\ buffer' = << >> /\ idle' = FALSE /\ timer' = FALSE
    /\ lost' = lost \cup Range(buffer)
    /\ IF upload.pc # "idle" THEN waiter' = TRUE /\ UNCHANGED upload
       ELSE /\ IF dirty /\ room = "open" THEN StartUpload ELSE UNCHANGED upload
            /\ UNCHANGED waiter
    /\ UNCHANGED <<observed, comp, requeued, room, disk, remote, dirty>>

(* The process comes up again, on the same disk or on an empty one.          *)
Fresh == /\ comp' = [pc |-> "idle", drained |-> << >>]
         /\ buffer' = << >> /\ idle' = FALSE /\ room' = "closed"
         /\ dirty' = FALSE /\ timer' = FALSE /\ waiter' = FALSE
         /\ upload' = [pc |-> "idle", snapshot |-> NoSnapshot]
         /\ stopping' = FALSE

OnDisk == IF file THEN rows ELSE remote
Restarted(kept, inMain) ==
    /\ Fresh
    /\ file' = (file /\ kept)
    /\ rows' = IF kept THEN rows ELSE {}
    /\ main' = IF kept THEN inMain ELSE {}
    /\ lost' = lost \cup Range(buffer) \cup Range(comp.drained) \cup
                   UNION {Range(r.of) : r \in Chunks(OnDisk) \ IF kept THEN OnDisk ELSE remote}
    /\ UNCHANGED <<observed, requeued, remote>>

(* Closing the database moves the WAL into the main file.                    *)
Stopped ==
    /\ stopping /\ upload.pc = "idle"
    /\ \E kept \in BOOLEAN : Restarted(kept, rows)
    /\ UNCHANGED faults

Crash == Fault /\ \E kept \in BOOLEAN : Restarted(kept, main)

-----------------------------------------------------------------------------
Compaction == IdleTimer \/ Summarised \/ NoSummary \/ InsertChunk \/ FailInsert

Next ==
    \/ ObserveMessage \/ CompactJustInTime \/ Compaction
    \/ GetRoom \/ Restore \/ StartFresh
    \/ \E f \in Facts : PinFact(f) \/ UnpinFact(f)
    \/ RefreshMembers \/ Checkpoint
    \/ SyncTimer \/ FinishUpload \/ FailUpload
    \/ Shutdown \/ Stopped \/ Crash

Spec == Init /\ [][Next]_vars

(* The idle timer fires, and a compaction goes on: a summary or its failure  *)
(* comes, the room is opened, the insert succeeds or fails.                  *)
FairSpec ==
    /\ Spec
    /\ WF_vars(IdleTimer) /\ WF_vars(Summarised) /\ WF_vars(GetRoom)
    /\ WF_vars(Restore \/ StartFresh) /\ WF_vars(InsertChunk) /\ WF_vars(Stopped)

-----------------------------------------------------------------------------
(* The order of messages in chunks, in a summary on its way and in the buffer. *)
Increasing(seq) == \A i, j \in DOMAIN seq : i < j => seq[i] < seq[j]
Before(seq, later) == \A m \in Range(seq), n \in Range(later) : m < n
InLine(chunks, drained, waiting) ==
    /\ \A seq \in chunks \cup {drained, waiting} : Increasing(seq)
    /\ \A s, t \in chunks : s = t \/ Before(s, t) \/ Before(t, s)
    /\ \A seq \in chunks : Before(seq, drained) /\ Before(seq, waiting)
    /\ Before(drained, waiting)
Within(chunks) == UNION {Range(seq) : seq \in chunks}

Texts(content) == {r.of : r \in Chunks(content)}

(* Every message observed is in one place, in the order it came: whatever is *)
(* observed while a summary is awaited, whatever fails and is queued again,  *)
(* none is forgotten but by a restart, a failed insert or a failed restore,  *)
(* none is in two chunks, and no chunk is out of order.                      *)
NothingForgotten ==
    /\ InLine(Texts(OnDisk), comp.drained, buffer)
    /\ Within(Texts(OnDisk)) \cup Range(comp.drained) \cup Range(buffer) \cup lost = 1..observed

(* The memory of a room (ChannelMemoryService): what was observed is in the  *)
(* buffer, in a summary, or booked as lost by a failure.                     *)
MemoryIsKept == TypeOK /\ NothingForgotten

(* The copy in the room never loses a chunk: an upload after a restart, a     *)
(* restore or a failed upload replaces it by one that holds as much (except  *)
(* for what a failed restore made the process forget).                       *)
Safe(content) == {c \in Chunks(content) : Range(c.of) \cap lost = {}}
BackupGrows == [][Safe(remote) \subseteq Chunks(remote')]_vars

(* A message does not stay in the buffer: it is compacted even if nothing     *)
(* more is said, unless its summary has failed (no timer is armed then).     *)
Drained ==
    \A m \in Messages : m \in Range(buffer) ~> (m \notin Range(buffer) \/ m \in requeued)

(* "Set true after any write; reset to false after a successful Matrix       *)
(* upload": a clean entry has nothing the room has not.                      *)
CleanIsUploaded == room = "open" /\ ~dirty => rows \subseteq remote
=============================================================================
