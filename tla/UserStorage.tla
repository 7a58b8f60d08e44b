---------------------------- MODULE UserStorage ----------------------------
(***************************************************************************)
(* One user's SQLite database: a local file, opened by the user's requests *)
(* and backed up to the user's Matrix room by cron jobs                    *)
(* (UserMatrixSqliteSyncService).                                          *)
(*                                                                         *)
(* Requests (getUserDatabase, then writes, between markUserActive and      *)
(* markUserInactive), the one cron that runs at a time and a restart       *)
(* interleave at every await.  Opening, validating and caching a database  *)
(* is synchronous.  A content is a kind and the set of writes it holds; a  *)
(* checksum is the content it was computed from.                           *)
(***************************************************************************)
EXTENDS Naturals, FiniteSets

CONSTANTS
    Requests,       \* requests of the user
    MaxWrites,      \* bound: writes
    MaxEvents,      \* bound: media events uploaded
    MayFail,        \* TRUE: a call to Matrix may fail for the time being
    MayCorrupt,     \* TRUE: the local file may be damaged, once
    CleanupAlone,   \* TRUE: no request starts while the hourly clean-up runs
    LateCrash,      \* TRUE: a restart may come between the redaction of the old
                    \* media event and the update of the cached one
    MaxCrashes      \* bound: process restarts

ASSUME StorageAssumption ==
    /\ IsFiniteSet(Requests) /\ {MaxWrites, MaxEvents, MaxCrashes} \subseteq Nat
    /\ {MayFail, MayCorrupt, CleanupAlone, LateCrash} \subseteq BOOLEAN

VARIABLES
    file,       \* the local file
    tracked,    \* the user has an entry in filePathCache
    recent,     \* its lastAccessedAt is less than an hour ago
    conn,       \* dbConnectionCache: a handle, 0 = none
    handle,     \* state of every handle on the file
    active,     \* activeUsers: reference count
    download,   \* downloadInProgress, and what was downloaded
    recovering, \* recoveryInProgress
    request,
    cron,
    sum,        \* lastUploadedChecksum in memory
    row,        \* file_events: cached media event (0 = no row) and checksum
    media,      \* contents of the media events in the room
    redacted,   \* media events redacted
    pointer,    \* room state: the current media event, 0 = none
    crashes,
    committed,  \* history: writes the database accepted
    damaged     \* history: the local file was damaged

local == <<file, tracked, recent, conn, handle>>
backup == <<media, redacted, pointer>>
vars == <<local, active, download, recovering, request, cron, sum, row, backup,
          crashes, committed, damaged>>

Write == 1..MaxWrites
Event == 1..MaxEvents
Handle == 1..Cardinality(Requests) + 2
Absent == [kind |-> "absent", data |-> {}]
Corrupt == [kind |-> "corrupt", data |-> {}]
Good(data) == [kind |-> "good", data |-> data]
Content == {Absent, Corrupt} \cup {Good(data) : data \in SUBSET Write}

IdleRequest == [pc |-> "idle", handle |-> 0, again |-> FALSE]
IdleCron == [pc |-> "idle", mode |-> "upload", handle |-> 0, sum |-> Absent,
             got |-> Absent, new |-> 0, old |-> 0]
NoDownload == [pc |-> "idle", got |-> Absent]

RequestState ==
    [pc : {"idle", "sync", "open", "clear", "await", "check", "purge", "fresh", "use"},
     handle : {0} \cup Handle, again : BOOLEAN]
CronState ==
    [pc : {"idle", "check", "sum", "read", "post", "point", "redact", "save"},
     mode : {"upload", "close", "clean"}, handle : {0} \cup Handle,
     sum : Content, got : Content, new : {0} \cup Event, old : {0} \cup Event]
Busy == {r \in Requests : request[r].pc # "idle"}

FileOK == file \in Content /\ tracked \in BOOLEAN /\ recent \in BOOLEAN
HandlesOK ==
    /\ handle \in [Handle -> {"free", "open", "unlinked", "closed"}]
    /\ conn \in {0} \cup Handle
    /\ conn # 0 => handle[conn] \in {"open", "unlinked"}
RequestsOK == request \in [Requests -> RequestState] /\ active = Cardinality(Busy)
DownloadOK == download \in [pc : {"idle", "load", "store"}, got : Content]
CronOK == cron \in CronState
BackupOK ==
    /\ sum \in Content /\ row \in [event : {0} \cup Event, sum : Content]
    /\ media \in [Event -> Content] /\ redacted \subseteq Event
    /\ pointer \in {0} \cup Event
HistoryOK ==
    crashes \in 0..MaxCrashes /\ committed \subseteq Write /\ damaged \in BOOLEAN

(* Every variable keeps its type, the reference count is the number of      *)
(* requests under way, and the cached handle is open or its file is gone.   *)
TypeOK ==
    /\ FileOK /\ HandlesOK /\ RequestsOK /\ DownloadOK /\ recovering \in BOOLEAN
    /\ CronOK /\ BackupOK /\ HistoryOK

Init ==
    /\ file = Absent /\ tracked = FALSE /\ recent = FALSE
    /\ conn = 0 /\ handle = [h \in Handle |-> "free"]
    /\ active = 0 /\ download = NoDownload /\ recovering = FALSE
    /\ request = [r \in Requests |-> IdleRequest]
    /\ cron = IdleCron
    /\ sum = Absent /\ row = [event |-> 0, sum |-> Absent]
    /\ media = [e \in Event |-> Absent] /\ redacted = {} /\ pointer = 0
    /\ crashes = 0 /\ committed = {} /\ damaged = FALSE

At(r, pc) == request[r].pc = pc
Go(r, pc) == request' = [request EXCEPT ![r].pc = pc]

Held(h) == h = conn \/ h = cron.handle \/ \E r \in Requests : request[r].handle = h
Unused == CHOOSE h \in Handle : ~Held(h)
Drop(h, state) == handle' = [handle EXCEPT ![h] = state]
(* Unlinking the file strands the open handles. *)
Strand == handle' = [h \in Handle |-> IF handle[h] = "open" THEN "unlinked" ELSE handle[h]]

-----------------------------------------------------------------------------
(* A request: markUserActive, getUserDatabase, writes, markUserInactive *)

Begin(r) ==
    /\ At(r, "idle")
    /\ CleanupAlone => cron.mode = "upload"
    /\ active' = active + 1
    /\ Go(r, "sync")
    /\ UNCHANGED <<local, download, recovering, cron, sum, row, backup, crashes,
                   committed, damaged>>

Release(n) == active - n

End(rs) ==
    /\ active' = Release(Cardinality(rs))
    /\ request' = [r \in Requests |-> IF r \in rs THEN IdleRequest ELSE request[r]]

(* After the sync: getUserDatabase goes on, or its recovery. *)
Synced(r) == IF request[r].again THEN "check" ELSE "open"

(* syncLocalStorageFromMatrixStorage: the file is there, or it is downloaded; *)
(* who comes while a download is under way waits for it.                      *)
Sync(r) ==
    /\ At(r, "sync") /\ download.pc = "idle"
    /\ IF file # Absent
       THEN /\ tracked' = TRUE /\ recent' = TRUE
            /\ Go(r, Synced(r))
            /\ UNCHANGED download
       ELSE /\ download' = [download EXCEPT !.pc = "load"]
            /\ UNCHANGED <<tracked, recent, request>>
    /\ UNCHANGED <<file, conn, handle, active, recovering, cron, sum, row, backup,
                   crashes, committed, damaged>>

Waiting == {r \in Requests : At(r, "sync")}
EndDownload ==
    /\ download' = NoDownload
    /\ request' = [r \in Requests |->
           IF r \in Waiting THEN [request[r] EXCEPT !.pc = Synced(r)] ELSE request[r]]

(* The event to load: the cached one, else the one the room state names.  A  *)
(* redacted event has no content, though its cached copy may still find the  *)
(* media.                                                                    *)
Source == IF row.event # 0 THEN row.event ELSE pointer
Loaded ==
    IF Source = 0 THEN {Absent}
    ELSE IF Source \notin redacted THEN {media[Source]}
    ELSE IF row.event # 0 THEN {Absent, media[Source]} ELSE {Absent}

(* Nothing there, permanently unreadable, or without a valid header: the sync *)
(* ends without a file.                                                       *)
LoadNothing ==
    /\ download.pc = "load"
    /\ Loaded \cap {Absent, Corrupt} # {}
    /\ EndDownload
    /\ UNCHANGED <<local, active, recovering, cron, sum, row, backup, crashes,
                   committed, damaged>>

LoadContent ==
    /\ download.pc = "load"
    /\ \E c \in Loaded \ {Absent} : download' = [pc |-> "store", got |-> c]
    /\ UNCHANGED <<local, active, recovering, request, cron, sum, row, backup,
                   crashes, committed, damaged>>

(* Written to a temporary file and renamed. *)
Store ==
    /\ download.pc = "store"
    /\ file' = download.got /\ tracked' = TRUE /\ recent' = TRUE
    /\ Strand
    /\ EndDownload
    /\ UNCHANGED <<conn, active, recovering, cron, sum, row, backup, crashes,
                   committed, damaged>>

(* Who fails with a failed sync: everyone waiting, and for the recovery those *)
(* who wait for it.                                                           *)
Failing == Waiting \cup (IF \E r \in Waiting : request[r].again
                         THEN {r \in Requests : At(r, "await")} ELSE {})

(* A transient error fails the request.  Mutant: it is taken for the absence *)
(* of a backup.                                                              *)
Failed_ignored == EndDownload /\ UNCHANGED <<active, recovering>>
Failed ==
    /\ download' = NoDownload
    /\ recovering' = (recovering /\ ~\E r \in Waiting : request[r].again)
    /\ End(Failing)

LoadFails ==
    /\ MayFail
    /\ download.pc \in {"load", "store"}
    /\ Failed
    /\ UNCHANGED <<local, cron, sum, row, backup, crashes, committed, damaged>>

(* A connection is opened, and becomes the cached one of those who waited. *)
Serve(rs, h) ==
    /\ conn' = h
    /\ handle' = [handle EXCEPT ![h] = "open"]
    /\ request' = [r \in Requests |-> IF r \in rs
                   THEN [pc |-> "use", handle |-> h, again |-> FALSE] ELSE request[r]]

UseCached(r) ==
    /\ At(r, "open") /\ conn # 0
    /\ recent' = TRUE
    /\ request' = [request EXCEPT ![r].pc = "use", ![r].handle = conn]
    /\ UNCHANGED <<file, tracked, conn, handle, active, download, recovering, cron,
                   sum, row, backup, crashes, committed, damaged>>

Open(r) ==
    /\ At(r, "open") /\ conn = 0 /\ file.kind = "good"
    /\ Serve({r}, Unused)
    /\ UNCHANGED <<file, tracked, recent, active, download, recovering, cron, sum,
                   row, backup, crashes, committed, damaged>>

(* No valid file: one request recovers, the others wait for it. *)
Recover(r) ==
    /\ At(r, "open") /\ conn = 0 /\ file.kind # "good"
    /\ recovering' = TRUE
    /\ Go(r, IF recovering THEN "await" ELSE "clear")
    /\ UNCHANGED <<local, active, download, cron, sum, row, backup, crashes,
                   committed, damaged>>

(* clearLocalCheckpoint *)
ClearLocal ==
    /\ file' = Absent /\ tracked' = FALSE /\ conn' = 0
    /\ handle' = [h \in Handle |-> IF h = conn THEN "closed"
                                   ELSE IF handle[h] = "open" THEN "unlinked" ELSE handle[h]]
    /\ sum' = Absent

Clear(r) ==
    /\ At(r, "clear")
    /\ ClearLocal
    /\ row' = [row EXCEPT !.sum = Absent]
    /\ request' = [request EXCEPT ![r].pc = "sync", ![r].again = TRUE]
    /\ UNCHANGED <<recent, active, download, recovering, cron, backup, crashes,
                   committed, damaged>>

Awaiting == {r \in Requests : At(r, "await")}

Recovered(r) ==
    /\ At(r, "check") /\ file.kind = "good"
    /\ recovering' = FALSE
    /\ Serve({r} \cup Awaiting, Unused)
    /\ UNCHANGED <<file, tracked, recent, active, download, cron, sum, row, backup,
                   crashes, committed, damaged>>

NoBackup(r) ==
    /\ At(r, "check") /\ file = Absent
    /\ Go(r, "fresh")
    /\ UNCHANGED <<local, active, download, recovering, cron, sum, row, backup,
                   crashes, committed, damaged>>

(* The backup is corrupt too: clearLocalCheckpoint, deleteUserStorageFromMatrix. *)
BadBackup(r) ==
    /\ At(r, "check") /\ file = Corrupt
    /\ ClearLocal
    /\ row' = [row EXCEPT !.sum = Absent]
    /\ Go(r, "purge")
    /\ UNCHANGED <<recent, active, download, recovering, cron, backup, crashes,
                   committed, damaged>>

(* The event the room names is redacted, and its row deleted; a failure is   *)
(* logged.                                                                   *)
Purge(r) ==
    /\ At(r, "purge")
    /\ \/ /\ pointer # 0
          /\ redacted' = redacted \cup {pointer}
          /\ row' = [event |-> 0, sum |-> Absent]
          /\ ClearLocal
       \/ /\ pointer = 0 \/ MayFail
          /\ UNCHANGED <<redacted, row, file, tracked, conn, handle, sum>>
    /\ Go(r, "fresh")
    /\ UNCHANGED <<recent, active, download, recovering, cron, media, pointer,
                   crashes, committed, damaged>>

(* A brand new database, or the one that appeared meanwhile. *)
Fresh(r) ==
    /\ At(r, "fresh")
    /\ file' = IF file = Absent THEN Good({}) ELSE file
    /\ tracked' = TRUE /\ recent' = TRUE /\ recovering' = FALSE
    /\ Serve({r} \cup Awaiting, Unused)
    /\ UNCHANGED <<active, download, cron, sum, row, backup, crashes, committed,
                   damaged>>

(* Only an open handle on a file that is still there can write. *)
Commit(r) ==
    /\ At(r, "use") /\ handle[request[r].handle] = "open"
    /\ \E w \in Write :
           /\ w = Cardinality(committed) + 1
           /\ committed' = committed \cup {w}
           /\ file' = Good(file.data \cup {w})
    /\ UNCHANGED <<tracked, recent, conn, handle, active, download, recovering,
                   request, cron, sum, row, backup, crashes, damaged>>

Finish(r) ==
    /\ At(r, "use")
    /\ End({r})
    /\ UNCHANGED <<local, download, recovering, cron, sum, row, backup, crashes,
                   committed, damaged>>

-----------------------------------------------------------------------------
(* The crons; cronRunning keeps them apart *)

GoC(pc) == cron' = [cron EXCEPT !.pc = pc]

(* Mutant: the clean-up does not look at the reference count. *)
Inactive_untested == TRUE
Inactive == active = 0

StartUpload ==
    /\ cron.pc = "idle" /\ tracked
    /\ GoC("check")
    /\ UNCHANGED <<local, active, download, recovering, request, sum, row, backup,
                   crashes, committed, damaged>>

(* The two loops of localStorageCacheCleanUpTask. *)
StartCleanUp(mode) ==
    /\ cron.pc = "idle"
    /\ Inactive /\ ~recent
    /\ \/ mode = "close" /\ conn # 0
       \/ mode = "clean" /\ tracked
    /\ cron' = [IdleCron EXCEPT !.pc = "check", !.mode = mode,
                                !.handle = IF mode = "close" THEN conn ELSE 0]
    /\ UNCHANGED <<local, active, download, recovering, request, sum, row, backup,
                   crashes, committed, damaged>>

(* The upload has returned: the loops close the connection and drop its cache *)
(* entry, or delete the folder and the cached checksum.                       *)
Uploaded ==
    /\ cron' = IdleCron
    /\ CASE cron.mode = "upload" -> UNCHANGED <<file, tracked, conn, handle>>
         [] cron.mode = "close" -> /\ conn' = 0 /\ Drop(cron.handle, "closed")
                                   /\ UNCHANGED <<file, tracked>>
         [] cron.mode = "clean" -> /\ file' = Absent /\ tracked' = FALSE
                                   /\ Strand /\ UNCHANGED conn
ClearedSum(s) == IF cron.mode = "clean" THEN Absent ELSE s

(* No file, or an open connection of an active user: nothing is uploaded.    *)
SkipUpload ==
    /\ cron.pc = "check"
    /\ file = Absent \/ (conn # 0 /\ active > 0)
    /\ Uploaded
    /\ sum' = ClearedSum(sum)
    /\ UNCHANGED <<recent, active, download, recovering, request, row, backup,
                   crashes, committed, damaged>>

Closable == conn = 0 \/ active = 0

CloseCached ==
    /\ cron.pc = "check" /\ file # Absent
    /\ Closable
    /\ conn' = 0
    /\ handle' = [h \in Handle |-> IF h = conn THEN "closed" ELSE handle[h]]
    /\ GoC("sum")
    /\ UNCHANGED <<file, tracked, recent, active, download, recovering, request, sum,
                   row, backup, crashes, committed, damaged>>

Unchanged == file = sum

(* Mutant: the checksum is remembered before the upload is done. *)
ComputeChecksum_early ==
    /\ cron.pc = "sum" /\ file # Absent
    /\ IF Unchanged
       THEN Uploaded /\ sum' = ClearedSum(sum)
       ELSE /\ cron' = [cron EXCEPT !.pc = "read", !.sum = file]
            /\ sum' = file
            /\ UNCHANGED <<file, tracked, conn, handle>>
    /\ UNCHANGED <<recent, active, download, recovering, request, row, backup,
                   crashes, committed, damaged>>

ComputeChecksum ==
    /\ cron.pc = "sum" /\ file # Absent
    /\ IF Unchanged
       THEN Uploaded /\ sum' = ClearedSum(sum)
       ELSE /\ cron' = [cron EXCEPT !.pc = "read", !.sum = file]
            /\ UNCHANGED <<file, tracked, conn, handle, sum>>
    /\ UNCHANGED <<recent, active, download, recovering, request, row, backup,
                   crashes, committed, damaged>>

ReadFile ==
    /\ cron.pc = "read" /\ file # Absent
    /\ cron' = [cron EXCEPT !.pc = "post", !.got = file]
    /\ UNCHANGED <<local, active, download, recovering, request, sum, row, backup,
                   crashes, committed, damaged>>

(* uploadMediaToRoom: the new event, the pointer, then the old event. *)
NewEvent == Cardinality({e \in Event : media[e] # Absent}) + 1

Post ==
    /\ cron.pc = "post" /\ NewEvent \in Event
    /\ media' = [media EXCEPT ![NewEvent] = cron.got]
    /\ cron' = [cron EXCEPT !.pc = "point", !.new = NewEvent, !.old = pointer]
    /\ UNCHANGED <<local, active, download, recovering, request, sum, row, redacted,
                   pointer, crashes, committed, damaged>>

Point ==
    /\ cron.pc = "point"
    /\ pointer' = cron.new
    /\ GoC("redact")
    /\ UNCHANGED <<local, active, download, recovering, request, sum, row, media,
                   redacted, crashes, committed, damaged>>

Redact ==
    /\ cron.pc = "redact"
    /\ \/ redacted' = redacted \cup ({cron.old} \ {0})
       \/ MayFail /\ UNCHANGED redacted
    /\ GoC("save")
    /\ UNCHANGED <<local, active, download, recovering, request, sum, row, media,
                   pointer, crashes, committed, damaged>>

(* saveFileEventToDB, with the checksum computed before the file was read. *)
SaveEvent ==
    /\ cron.pc = "save"
    /\ row' = [event |-> cron.new, sum |-> cron.sum]
    /\ sum' = ClearedSum(cron.sum)
    /\ Uploaded
    /\ UNCHANGED <<recent, active, download, recovering, request, backup, crashes,
                   committed, damaged>>

(* The upload throws: a missing file, or Matrix.  The crons go on to the next *)
(* user.                                                                      *)
FailUpload ==
    /\ \/ cron.pc \in {"sum", "read"} /\ file = Absent
       \/ MayFail /\ cron.pc \in {"post", "point"}
    /\ cron' = IdleCron
    /\ UNCHANGED <<local, active, download, recovering, request, sum, row, backup,
                   crashes, committed, damaged>>

-----------------------------------------------------------------------------
(* An hour passes since the last access. *)
Age ==
    /\ recent
    /\ recent' = FALSE
    /\ UNCHANGED <<file, tracked, conn, handle, active, download, recovering, request,
                   cron, sum, row, backup, crashes, committed, damaged>>

(* The file is found damaged when nobody has it open. *)
Damage ==
    /\ MayCorrupt /\ ~damaged
    /\ file.kind = "good" /\ cron.pc = "idle"
    /\ \A h \in Handle : handle[h] # "open"
    /\ file' = Corrupt /\ damaged' = TRUE
    /\ UNCHANGED <<tracked, recent, conn, handle, active, download, recovering,
                   request, cron, sum, row, backup, crashes, committed>>

(* A restart: the disk and the room stay, onModuleInit reads the checksum and *)
(* finds the file.                                                            *)
Crash ==
    /\ crashes < MaxCrashes
    /\ LateCrash \/ cron.pc # "save"
    /\ crashes' = crashes + 1
    /\ tracked' = (file # Absent) /\ recent' = TRUE
    /\ conn' = 0 /\ handle' = [h \in Handle |-> "free"]
    /\ active' = 0 /\ download' = NoDownload /\ recovering' = FALSE
    /\ request' = [r \in Requests |-> IdleRequest]
    /\ cron' = IdleCron
    /\ sum' = row.sum
    /\ UNCHANGED <<file, row, backup, committed, damaged>>

RequestStep(r) ==
    \/ Begin(r) \/ Sync(r) \/ UseCached(r) \/ Open(r) \/ Recover(r) \/ Clear(r)
    \/ Recovered(r) \/ NoBackup(r) \/ BadBackup(r) \/ Purge(r) \/ Fresh(r)
    \/ Commit(r) \/ Finish(r)

DownloadStep == LoadNothing \/ LoadContent \/ Store \/ LoadFails

CronStep ==
    \/ StartUpload \/ StartCleanUp("close") \/ StartCleanUp("clean")
    \/ SkipUpload \/ CloseCached \/ ComputeChecksum \/ ReadFile
    \/ Post \/ Point \/ Redact \/ SaveEvent \/ FailUpload

Next ==
    \/ \E r \in Requests : RequestStep(r)
    \/ DownloadStep \/ CronStep \/ Age \/ Damage \/ Crash

Spec == Init /\ [][Next]_vars

-----------------------------------------------------------------------------
(* Properties *)

(* What the next request would find. *)
Reachable == IF file # Absent THEN {file} ELSE Loaded

(* An accepted write is not lost, whatever restarts, failing calls and crons *)
(* come between: it is in the local file, or in the backup that will be      *)
(* downloaded (unless the file was damaged).                                 *)
NothingLost == ~damaged => \A c \in Reachable : committed \subseteq c.data

(* A request's connection stays usable until the request ends: no cron closes *)
(* it, and its file is not deleted or replaced under it (unless it was        *)
(* damaged: a recovery may meet the download of another request).             *)
HandleKept == ~damaged =>
    \A r \in Requests : At(r, "use") => handle[request[r].handle] = "open"

(* A remembered checksum means a backup: the upload that is skipped because   *)
(* the file has it would have added nothing to what the next download finds   *)
(* (unless the file was damaged, or the cached event is about to change).     *)
SkippedIsStored ==
    /\ TypeOK
    /\ ~damaged /\ cron.pc # "save" /\ sum # Absent =>
        /\ row.event \notin redacted \cup {0}
        /\ sum.data \subseteq media[row.event].data
=============================================================================
